----------------------------- MODULE LearnerFlow -----------------------------
(***************************************************************************)
(* The lesson screen (LearnerView.tsx): the tree picker, the three steps   *)
(* of a lesson (read, quiz, do), the navigation between lessons, and the   *)
(* requests of the Do step, whose answers come back to whatever the screen *)
(* shows by then. The screen may be left, reloaded or reopened at any time *)
(* and what it believes is rehydrated from the server.                     *)
(*                                                                         *)
(* Text typed or pasted is chosen when it is submitted. A submission that  *)
(* fails the form's own checks only shows an error, so it is no step. What *)
(* is archived for display (proofs, names, error texts) is left out.       *)
(***************************************************************************)
EXTENDS Naturals, Sequences, FiniteSets

CONSTANTS
    Missions,
    Trees,      \* the flight paths in curriculum order, a sequence of mission sequences
    KindOf,     \* the Do kind of each mission
    Secrets,    \* seed phrases and secret keys (a public key is written as its nsec)
    Earlier,    \* the key this learner registered on another device, None for a new learner
    Pasted,     \* the valid keys a learner may paste: their own, or another they have
    None,
    Slots,      \* bound: Do requests at once, of this screen and of those left
    MaxLost,    \* bound: requests or answers lost
    MaxNews     \* bound: badge refreshes in flight; a further one brings nothing

Kinds == {"knowledge", "seed-words", "nostr-identity", "invoice", "pay", "ecash-claim",
          "ecash-spend", "sign-event", "nostr-publish", "nostr-profile", "nostr-follow",
          "nostr-zap", "derive-address", "passphrase-fork", "onchain-signet", "chain-tip",
          "address-reuse", "paste-value", "github-pr"}

OrNone(S) == S \cup {None}

\* An event is of a lesson, published after the question of a lesson or of none.
Events == [mission : Missions, asked : OrNone(Missions)]

ASSUME CurriculumAssumption ==
    /\ KindOf \in [Missions -> Kinds]
    /\ Trees \in Seq(Seq(Missions) \ {<<>>})
ASSUME SecretsAssumption ==
    /\ Pasted \subseteq Secrets /\ Earlier \in OrNone(Secrets)
    /\ None \notin Secrets \cup Missions \cup Nat \cup Events
ASSUME BoundsAssumption == {MaxLost, MaxNews} \subseteq Nat

VARIABLES
    ledger,   \* server: the proof of each mission, written as the lesson whose Do step made it
    npub,     \* server: the registered public key
    posted,   \* relays: the last event published, of which lesson and after which question
    nsec,     \* browser storage: the secret key
    seed,     \* browser storage: the seed phrase
    view,     \* the LearnerView component
    acts,     \* runs of handleDo in flight, of this screen and of screens left
    news,     \* badge refreshes in flight
    lost      \* how many requests or answers were lost

serverVars == <<ledger, npub, posted>>
storageVars == <<nsec, seed>>
vars == <<serverVars, storageVars, view, acts, news, lost>>

TreeIds == 1..Len(Trees)
Lessons(t) == {Trees[t][i] : i \in 1..Len(Trees[t])}

\* The first lesson of a tree that is not in a set, or none.
FirstOutside(t, done) ==
    IF Lessons(t) \subseteq done THEN None
    ELSE Trees[t][CHOOSE i \in 1..Len(Trees[t]) :
                    /\ Trees[t][i] \notin done
                    /\ \A j \in 1..(i - 1) : Trees[t][j] \in done]

IndexIn(t, m) == CHOOSE i \in 1..Len(Trees[t]) : Trees[t][i] = m

Credited == {m \in Missions : ledger[m] # None}
EarnedTrees == {t \in TreeIds : Lessons(t) \subseteq Credited}

\* A proof is made by a lesson (by), with a secret if the kind needs one (key).
NoAct == [step |-> "none", mission |-> None, by |-> None, key |-> None, asked |-> None,
          ans |-> "waiting", screen |-> "shown"]

\* A screen just opened: on the picker, every pointer at its tree's first lesson. Whether
\* an answer is confirmed first is a Boolean in the code, here the lesson that was asked
\* about or None; which lesson is history that no guard reads.
Opened == [open |-> TRUE, tree |-> None, idx |-> 1, phase |-> "learn", quiz |-> None,
           timer |-> FALSE, confirming |-> None, outcome |-> FALSE, loading |-> FALSE,
           completed |-> {}, pointer |-> [t \in TreeIds |-> FirstOutside(t, {})],
           badges |-> {}, celebrating |-> None, hydrate |-> "asked", snapshot |-> {}]

Closed == [Opened EXCEPT !.open = FALSE, !.hydrate = "done"]

----------------------------------------------------------------------------
(* Opening and leaving the screen *)

\* After "left" the handler runs on behind the screen, until its last answer, which shows
\* nowhere. After a reload ("dead") only a request already on its way reaches the server.
Unheard(a) ==
    /\ a.ans # "waiting"
    /\ \/ a.screen = "dead"
       \/ a.screen = "left" /\ <<a.step, a.ans>> # <<"service", "ok">>

Heard(a) == IF Unheard(a) THEN NoAct ELSE a

Abandon(how) ==
    acts' = [s \in Slots |->
               IF acts[s].step = "none" \/ acts[s].screen = "dead" THEN acts[s]
               ELSE Heard([acts[s] EXCEPT !.screen = how])]

\* A saved session, or a pairing code of another device, leads back to the same learner.
Mount ==
    /\ ~view.open
    /\ view' = Opened
    /\ UNCHANGED <<serverVars, storageVars, acts, news, lost>>

\* By the logo or Exit in the app's header, which a celebration covers, or by a reload.
\* Exit takes the seed phrase and the secret key out of the browser.
Leave ==
    /\ view.open
    /\ view' = Closed
    /\ news' = {}
    /\ \/ view.celebrating = None /\ Abandon("left") /\ UNCHANGED storageVars
       \/ view.celebrating = None /\ Abandon("left") /\ nsec' = None /\ seed' = None
       \/ Abandon("dead") /\ UNCHANGED storageVars
    /\ UNCHANGED <<serverVars, lost>>

HydrateRead ==
    /\ view.hydrate = "asked"
    /\ view' = [view EXCEPT !.hydrate = "read", !.snapshot = Credited]
    /\ UNCHANGED <<serverVars, storageVars, acts, news, lost>>

\* The answer overwrites what the screen believes, whatever happened since it was read.
Hydrated ==
    /\ view.hydrate = "read"
    /\ view' = [view EXCEPT
                  !.hydrate = "done", !.snapshot = {}, !.completed = view.snapshot,
                  !.pointer = [t \in TreeIds |-> FirstOutside(t, view.snapshot)],
                  !.badges = {t \in TreeIds : Lessons(t) \subseteq view.snapshot}]
    /\ UNCHANGED <<serverVars, storageVars, acts, news, lost>>

HydrateFailed ==
    /\ view.hydrate # "done" /\ lost < MaxLost
    /\ view' = [view EXCEPT !.hydrate = "done", !.snapshot = {}]
    /\ lost' = lost + 1
    /\ UNCHANGED <<serverVars, storageVars, acts, news>>

----------------------------------------------------------------------------
(* The navigation *)

mission == Trees[view.tree][view.idx]
isLast == view.idx = Len(Trees[view.tree])
allDone == \A t \in TreeIds : view.pointer[t] = None

\* A badge being celebrated covers the screen, whichever it is.
FinishedScreen == view.tree # None /\ allDone /\ isLast /\ view.outcome
OnMission == view.open /\ view.celebrating = None /\ view.tree # None /\ ~FinishedScreen
OnPicker == view.open /\ view.celebrating = None /\ view.tree = None

\* What the screen takes for already done: it then offers no action.
isReviewing == ~view.outcome /\ mission \in view.completed

\* The position of the pointer in the tree, its last lesson when there is none.
frontier == IF view.pointer[view.tree] = None THEN Len(Trees[view.tree])
            ELSE IndexIn(view.tree, view.pointer[view.tree])

\* Faulty: moving to another lesson also frees the button of the action that runs.
ResetForNextFreesButton(v) == [v EXCEPT !.phase = "learn", !.quiz = None, !.outcome = FALSE,
                                        !.confirming = None, !.loading = FALSE]

\* Faulty: moving to another lesson keeps the step, and what was being confirmed there.
ResetForNextKeepsStep(v) == [v EXCEPT !.quiz = None, !.outcome = FALSE]

ResetForNext(v) == [v EXCEPT !.phase = "learn", !.quiz = None, !.outcome = FALSE,
                             !.confirming = None]

At(v, t, i) == ResetForNext([v EXCEPT !.tree = t, !.idx = i])

Screen == UNCHANGED <<serverVars, storageVars, acts, news, lost>>

EnterAt(v, t) ==
    At(v, t, IF v.pointer[t] = None THEN Len(Trees[t]) ELSE IndexIn(t, v.pointer[t]))

EnterTree(t) == OnPicker /\ view' = EnterAt(view, t) /\ Screen

ExitToTreePicker == OnMission /\ view' = At(view, None, 1) /\ Screen

GoPrev ==
    /\ OnMission /\ view.idx > 1
    /\ view' = At(view, view.tree, view.idx - 1)
    /\ Screen

GoNextReview ==
    /\ OnMission /\ view.idx < frontier
    /\ view' = At(view, view.tree, view.idx + 1)
    /\ Screen

\* Closing the celebration leads to the next unfinished path after the one just earned.
ContinueAfterBadge ==
    LET v == [view EXCEPT !.celebrating = None]
        after == [i \in TreeIds |-> 1 + ((view.celebrating - 1 + i) % Len(Trees))]
        open == {i \in TreeIds : v.pointer[after[i]] # None}
    IN  /\ view.open /\ view.celebrating # None
        /\ view' = IF open = {} THEN At(v, None, 1)
                   ELSE EnterAt(v, after[CHOOSE i \in open : \A j \in open : i <= j])
        /\ Screen

----------------------------------------------------------------------------
(* Read and quiz *)

\* The Do panel goes away with its half-open confirmation when another step is shown.
ToPhase(p) == [view EXCEPT !.phase = p, !.confirming = IF view.phase = p THEN @ ELSE None]

\* The reading time is over: to the quiz.
Advance ==
    /\ OnMission /\ view.phase = "learn"
    /\ view' = [ToPhase("quiz") EXCEPT !.quiz = None]
    /\ Screen

HandleQuizSubmit ==
    /\ OnMission /\ view.phase = "quiz" /\ view.quiz = None
    /\ \E result \in {"correct", "wrong"} :
         view' = [view EXCEPT !.quiz = result, !.timer = @ \/ result = "correct"]
    /\ Screen

\* 700 ms later the Do step opens, of whatever lesson is shown by then.
OpenDo == view.timer /\ view' = [ToPhase("do") EXCEPT !.timer = FALSE] /\ Screen

OnRetry ==
    /\ OnMission /\ view.phase = "quiz" /\ view.quiz = "wrong"
    /\ view' = [ToPhase("learn") EXCEPT !.quiz = None]
    /\ Screen

PhaseTabs ==
    /\ OnMission
    /\ \E p \in {"learn", "quiz", "do"} \ {view.phase} :
        /\ \/ p = "learn"
           \/ p = "quiz" /\ view.phase = "do" /\ view.quiz = "correct"
           \/ isReviewing
        /\ view' = ToPhase(p)
    /\ Screen

----------------------------------------------------------------------------
(* Do: which kinds need what *)

NeedsPublishConfirm == {"nostr-publish", "nostr-profile", "nostr-follow"}
NeedsSigningKey == NeedsPublishConfirm \cup {"sign-event"}
NeedsSeed == {"derive-address", "passphrase-fork"}
HasSecret == {"seed-words", "nostr-identity"}
CallsService == NeedsPublishConfirm
                \cup {"nostr-identity", "invoice", "pay", "ecash-claim", "ecash-spend",
                      "nostr-zap"}

Kind == KindOf[mission]
MayAct == OnMission /\ view.phase = "do" /\ ~view.outcome /\ ~isReviewing
          /\ ~view.loading

\* "This is public and permanent": asked once there is text to publish.
AskConfirm ==
    /\ MayAct /\ Kind \in NeedsPublishConfirm /\ view.confirming = None
    /\ view' = [view EXCEPT !.confirming = mission]
    /\ Screen

GoBackAndEdit ==
    /\ MayAct /\ view.confirming # None
    /\ view' = [view EXCEPT !.confirming = None]
    /\ Screen

\* Secrets that nothing refers to: generating one never repeats.
Unused == Secrets \ (Pasted \cup {Earlier, npub, nsec, seed}
                     \cup {acts[s].key : s \in Slots})

\* The stored key, else a valid pasted one, which is then stored; a learner may have
\* saved the key they registered.
SigningKey(key) ==
    IF nsec # None THEN key = nsec ELSE key \in (Pasted \cup {npub}) \ {None}

\* The button that runs handleDo: behind the confirmation for what is published, except
\* that an empty text falls through, which only the follow list does not refuse.
Submitted ==
    \/ Kind \notin NeedsPublishConfirm
    \/ view.confirming # None
    \/ Kind = "nostr-follow"

HandleDo(s) ==
    /\ MayAct /\ Submitted
    /\ acts[s].step = "none"
    /\ \E key \in Secrets \cup {None} :
        /\ CASE Kind \in HasSecret -> key \in Unused
             [] Kind \in NeedsSigningKey -> SigningKey(key)
             [] Kind \in NeedsSeed -> key = seed /\ seed # None
             [] OTHER -> key = None
        /\ nsec' = IF Kind \in NeedsSigningKey \cup {"nostr-identity"} THEN key ELSE nsec
        /\ seed' = IF Kind = "seed-words" THEN key ELSE seed
        /\ acts' = [acts EXCEPT ![s] =
                      [NoAct EXCEPT !.step = IF Kind \in CallsService THEN "service"
                                             ELSE "complete",
                                    !.mission = mission, !.by = mission, !.key = key,
                                    !.asked = view.confirming]]
    /\ view' = [view EXCEPT !.loading = TRUE]
    /\ UNCHANGED <<serverVars, news, lost>>

----------------------------------------------------------------------------
(* The server's side of a Do step, and the network *)

Waiting(s, step) == acts[s].step = step /\ acts[s].ans = "waiting"
Clear(s) == [acts EXCEPT ![s] = NoAct]

Reply(s, ans) == acts' = [acts EXCEPT ![s] = Heard([@ EXCEPT !.ans = ans])]

\* Registering replaces the key. An event is on the relays before its author is checked.
\* Any service may also refuse.
Serve(s) ==
    LET a == acts[s]
        kind == KindOf[a.mission]
        event == [mission |-> a.mission, asked |-> a.asked]
    IN  /\ Waiting(s, "service")
        /\ \/ Reply(s, "failed") /\ UNCHANGED <<npub, posted>>
           \/ /\ kind \in NeedsPublishConfirm => npub # None
              /\ Reply(s, IF kind \in NeedsPublishConfirm /\ a.key # npub THEN "failed"
                          ELSE "ok")
              /\ npub' = IF kind = "nostr-identity" THEN a.key ELSE npub
              /\ posted' = IF kind \in NeedsPublishConfirm THEN event
                           ELSE posted
        /\ UNCHANGED <<ledger, storageVars, view, news, lost>>

\* One lesson is recorded once, in its tree's order. A signed event must be of the
\* registered key; the identity lesson is what registers one.
Accepts(m, key) ==
    /\ m \notin Credited
    /\ \E t \in TreeIds : FirstOutside(t, Credited) = m
    /\ KindOf[m] = "sign-event" => key = npub

\* The key is written before the lesson is recorded, which may still fail.
Complete(s) ==
    LET a == acts[s] IN
    /\ Waiting(s, "complete")
    /\ \/ /\ Accepts(a.mission, a.key)
          /\ npub' = IF KindOf[a.mission] = "nostr-identity" THEN a.key ELSE npub
          /\ \/ ledger' = [ledger EXCEPT ![a.mission] = a.by] /\ Reply(s, "ok")
             \/ Reply(s, "failed") /\ UNCHANGED ledger
       \/ Reply(s, "failed") /\ UNCHANGED <<ledger, npub>>
    /\ UNCHANGED <<posted, storageVars, view, news, lost>>

Lose(s) ==
    /\ acts[s].step # "none" /\ acts[s].screen # "dead" /\ acts[s].ans \in {"waiting", "ok"}
    /\ lost < MaxLost
    /\ Reply(s, "failed")
    /\ lost' = lost + 1
    /\ UNCHANGED <<serverVars, storageVars, view, news>>

----------------------------------------------------------------------------
(* The answers *)

\* Faulty: what is completed is the lesson on the screen.
ContinueWithShown(s) ==
    /\ acts[s].step = "service" /\ acts[s].ans = "ok"
    /\ acts' = [acts EXCEPT ![s].step = "complete", ![s].ans = "waiting",
                            ![s].mission = IF OnMission THEN mission ELSE @]
    /\ UNCHANGED <<serverVars, storageVars, view, news, lost>>

Continue(s) ==
    /\ acts[s].step = "service" /\ acts[s].ans = "ok"
    /\ acts' = [acts EXCEPT ![s].step = "complete", ![s].ans = "waiting"]
    /\ UNCHANGED <<serverVars, storageVars, view, news, lost>>

\* The result goes to the screen, whichever lesson it shows by then.
Succeeded(s) ==
    /\ acts[s].step = "complete" /\ acts[s].ans = "ok"
    /\ acts' = Clear(s)
    /\ view' = [view EXCEPT !.outcome = TRUE, !.loading = FALSE,
                            !.completed = @ \cup {acts[s].mission}]
    /\ UNCHANGED <<serverVars, storageVars, news, lost>>

Failed(s) ==
    /\ acts[s].ans = "failed"
    /\ acts' = Clear(s)
    /\ view' = [view EXCEPT !.loading = FALSE]
    /\ UNCHANGED <<serverVars, storageVars, news, lost>>

\* Each refresh is a request of its own; ids tell those in flight apart.
AskForBadges ==
    LET free == (1..MaxNews) \ {n.id : n \in news} IN
    news' = IF free = {} THEN news
            ELSE news \cup {[id |-> CHOOSE i \in free : \A j \in free : i <= j,
                             read |-> FALSE, trees |-> {}]}

\* Faulty: the last lesson of a path is not treated apart.
GoNextMissionPastEnd ==
    LET done == view.completed \cup {mission} IN
    /\ OnMission /\ view.phase = "do" /\ view.outcome
    /\ view' = At([view EXCEPT !.completed = done,
                               !.pointer[view.tree] = FirstOutside(view.tree, done)],
                  view.tree, view.idx + 1)
    /\ AskForBadges
    /\ UNCHANGED <<serverVars, storageVars, acts, lost>>

\* The Next button of a result: credit the lesson shown, move the pointer, ask for badges.
GoNextMission ==
    LET done == view.completed \cup {mission}
        v == [view EXCEPT !.completed = done,
                          !.pointer[view.tree] = FirstOutside(view.tree, done)]
    IN  /\ OnMission /\ view.phase = "do" /\ view.outcome
        /\ view' = IF isLast THEN v ELSE At(v, view.tree, view.idx + 1)
        /\ AskForBadges
        /\ UNCHANGED <<serverVars, storageVars, acts, lost>>

BadgesRead ==
    \E n \in news :
        /\ ~n.read
        /\ news' = (news \ {n}) \cup {[n EXCEPT !.read = TRUE, !.trees = EarnedTrees]}
        /\ UNCHANGED <<serverVars, storageVars, view, acts, lost>>

\* Faulty: a badge is celebrated when the pointer of its path runs out.
BadgesShownFromPointers ==
    \E n \in news :
        LET fresh == {t \in TreeIds : view.pointer[t] = None} \ view.badges IN
        /\ n.read
        /\ news' = news \ {n}
        /\ view' = [view EXCEPT !.badges = n.trees,
                                !.celebrating = IF fresh = {} THEN @
                                                ELSE CHOOSE t \in fresh : \A u \in fresh : t <= u]
        /\ UNCHANGED <<serverVars, storageVars, acts, lost>>

\* One badge that is new to the screen is celebrated, the first in curriculum order.
BadgesShown ==
    \E n \in news :
        LET fresh == n.trees \ view.badges IN
        /\ n.read
        /\ news' = news \ {n}
        /\ view' = [view EXCEPT !.badges = n.trees,
                                !.celebrating = IF fresh = {} THEN @
                                                ELSE CHOOSE t \in fresh : \A u \in fresh : t <= u]
        /\ UNCHANGED <<serverVars, storageVars, acts, lost>>

BadgesLost ==
    \E n \in news :
        /\ lost < MaxLost
        /\ news' = news \ {n}
        /\ lost' = lost + 1
        /\ UNCHANGED <<serverVars, storageVars, view, acts>>

----------------------------------------------------------------------------
\* What a learner who comes here from another device did there: the tree of the identity
\* lesson, up to that lesson.
Before == {m \in Missions : \E t \in TreeIds : \E i \in 1..Len(Trees[t]) :
                              /\ KindOf[Trees[t][i]] = "nostr-identity"
                              /\ \E j \in 1..i : m = Trees[t][j]}

Init ==
    /\ ledger = [m \in Missions |-> IF Earlier # None /\ m \in Before THEN m ELSE None]
    /\ npub = Earlier
    /\ posted = None
    /\ nsec = None /\ seed = None
    /\ view = Closed
    /\ acts = [s \in Slots |-> NoAct]
    /\ news = {}
    /\ lost = 0

Navigate ==
    \/ Mount \/ Leave \/ HydrateRead \/ Hydrated \/ HydrateFailed
    \/ \E t \in TreeIds : EnterTree(t)
    \/ ExitToTreePicker \/ GoPrev \/ GoNextReview \/ ContinueAfterBadge
    \/ Advance \/ HandleQuizSubmit \/ OpenDo \/ OnRetry \/ PhaseTabs
    \/ AskConfirm \/ GoBackAndEdit
    \/ GoNextMission \/ BadgesRead \/ BadgesShown \/ BadgesLost

Act(s) ==
    \/ HandleDo(s) \/ Serve(s) \/ Complete(s) \/ Lose(s)
    \/ Continue(s) \/ Succeeded(s) \/ Failed(s)

Next == Navigate \/ \E s \in Slots : Act(s)

Spec == Init /\ [][Next]_vars

----------------------------------------------------------------------------
(* Properties *)

Views == [open : BOOLEAN, tree : OrNone(TreeIds), idx : Nat \ {0},
          phase : {"learn", "quiz", "do"}, quiz : OrNone({"correct", "wrong"}),
          timer : BOOLEAN, confirming : OrNone(Missions), outcome : BOOLEAN,
          loading : BOOLEAN, completed : SUBSET Missions,
          pointer : [TreeIds -> OrNone(Missions)], badges : SUBSET TreeIds,
          celebrating : OrNone(TreeIds), hydrate : {"asked", "read", "done"},
          snapshot : SUBSET Missions]

\* The screen is at a lesson that exists, and its pointers are at lessons of their trees.
ViewOK(v) ==
    /\ v \in Views
    /\ v.tree # None => v.idx <= Len(Trees[v.tree])
    /\ \A t \in TreeIds : v.pointer[t] \in OrNone(Lessons(t))

Acts == [step : {"none", "service", "complete"}, mission : OrNone(Missions),
         by : OrNone(Missions), key : OrNone(Secrets), asked : OrNone(Missions),
         ans : {"waiting", "ok", "failed"}, screen : {"shown", "left", "dead"}]

\* Types of every variable.
TypeOK ==
    /\ ledger \in [Missions -> OrNone(Missions)]
    /\ npub \in OrNone(Secrets)
    /\ posted \in OrNone(Events)
    /\ nsec \in OrNone(Secrets) /\ seed \in OrNone(Secrets)
    /\ ViewOK(view)
    /\ acts \in [Slots -> Acts]
    /\ news \subseteq [id : 1..MaxNews, read : BOOLEAN, trees : SUBSET TreeIds]
    /\ lost \in 0..MaxLost

running == {s \in Slots : acts[s].step # "none" /\ acts[s].screen = "shown"}

\* The screen runs one action at a time, and shows it as running exactly until it ends:
\* navigation, results and reloads neither free the button early nor leave it disabled.
OneAtATime ==
    /\ \A s, u \in running : s = u
    /\ view.loading <=> running # {}
    /\ running # {} => view.open

\* A badge on the screen, and above all one that is celebrated, is backed by the server's
\* ledger, although the screen credits lessons on its own account (see CreditEarned) and
\* answers about badges may come late or in another order.
BadgesEarned ==
    /\ view.badges \subseteq EarnedTrees
    /\ view.celebrating # None => view.celebrating \in EarnedTrees

\* LearnerView.tsx, line 788: "Only credit the mission after the action succeeded": a
\* lesson the screen takes for done is on record.
CreditEarned == view.completed \subseteq Credited

\* What the server holds as proof of a lesson was made by that lesson's own action, even
\* when the learner moved on, left or reloaded while it ran.
OwnProof == \A m \in Credited : ledger[m] = m

AskedAbout(m, asked) == asked = m \/ (KindOf[m] = "nostr-follow" /\ asked = None)

\* LearnerView.tsx, lines 2231-2232: "a half-open confirmation can never carry over". A
\* note or a profile, permanent once out, was asked about on its own lesson; the follow
\* list may go out unasked (an empty text falls through), never on another's question.
AskedFirst == posted # None => AskedAbout(posted.mission, posted.asked)

\* The recovery field exists "so they aren't dead-ended" (lines 116-119): it is shown only
\* while no key is stored, so a stored key must be the registered one.
NotDeadEnded ==
    (\A s \in Slots : acts[s].step = "none") /\ nsec # None /\ npub # None => nsec = npub

=============================================================================
