---------------------------- MODULE LearnerProofs ----------------------------
(***************************************************************************)
(* What LearnerFlow guarantees for every curriculum, every number of       *)
(* actions in flight and of losses, and every set of keys.                 *)
(***************************************************************************)
EXTENDS LearnerFlow, LeastNumber

-----------------------------------------------------------------------------
(* The curriculum.                                                         *)

LEMMA TreesType ==
    ASSUME NEW t \in TreeIds
    PROVE  /\ Trees[t] \in Seq(Missions) /\ Len(Trees[t]) \in Nat \ {0}
           /\ \A i \in 1..Len(Trees[t]) : Trees[t][i] \in Lessons(t)
           /\ Lessons(t) \subseteq Missions
           /\ t \in Nat /\ t # None
<1>1. Trees \in Seq(Seq(Missions) \ {<<>>}) /\ Len(Trees) \in Nat
  BY CurriculumAssumption
<1>2. Trees[t] \in Seq(Missions) \ {<<>>}
  BY <1>1 DEF TreeIds
<1>3. Trees[t] \in Seq(Missions) /\ Len(Trees[t]) \in Nat \ {0}
  BY <1>2
<1>4. \A i \in 1..Len(Trees[t]) : Trees[t][i] \in Missions
  BY <1>3
<1>5. t \in Nat /\ t # None
  BY <1>1, SecretsAssumption DEF TreeIds
<1> QED
  BY <1>3, <1>4, <1>5 DEF Lessons

\* The pointer computed from what is done is at a lesson of its tree, or nowhere.
LEMMA FirstOutsideType ==
    ASSUME NEW t \in TreeIds, NEW done
    PROVE  FirstOutside(t, done) \in OrNone(Lessons(t))
<1> DEFINE open == {i \in 1..Len(Trees[t]) : Trees[t][i] \notin done}
           IsFirst(i) == /\ Trees[t][i] \notin done
                         /\ \A j \in 1..(i - 1) : Trees[t][j] \in done
<1> SUFFICES ASSUME ~(Lessons(t) \subseteq done)
             PROVE  Trees[t][CHOOSE i \in 1..Len(Trees[t]) : IsFirst(i)] \in Lessons(t)
  BY DEF FirstOutside, OrNone
<1>1. open # {} /\ open \in SUBSET Nat
  BY TreesType DEF Lessons
<1>2. PICK i \in open : \A j \in open : i <= j
  BY <1>1, HasLeast
<1>3. \A j \in 1..(i - 1) : j \in 1..Len(Trees[t]) /\ ~(i <= j)
  BY <1>2, TreesType
<1>4. i \in 1..Len(Trees[t]) /\ IsFirst(i)
  BY <1>2, <1>3
<1> HIDE DEF IsFirst
<1> QED
  BY <1>4, TreesType

LEMMA IndexInType ==
    ASSUME NEW t \in TreeIds, NEW m \in Lessons(t)
    PROVE  IndexIn(t, m) \in 1..Len(Trees[t])
  BY DEF Lessons, IndexIn

-----------------------------------------------------------------------------
(* The navigation.                                                         *)

\* What opening a lesson leaves of the view.
LEMMA AtEffect ==
    ASSUME NEW v, ViewOK(v), NEW t \in OrNone(TreeIds), NEW i \in Nat \ {0},
           t # None => i <= Len(Trees[t])
    PROVE  /\ ViewOK(At(v, t, i))
           /\ At(v, t, i).open = v.open /\ At(v, t, i).loading = v.loading
           /\ At(v, t, i).confirming = None
           /\ At(v, t, i).celebrating = v.celebrating
           /\ At(v, t, i).badges = v.badges /\ At(v, t, i).snapshot = v.snapshot
  BY DEF At, ResetForNext, ViewOK, Views, OrNone

LEMMA EnterAtEffect ==
    ASSUME NEW v, ViewOK(v), NEW t \in TreeIds
    PROVE  /\ ViewOK(EnterAt(v, t))
           /\ EnterAt(v, t).open = v.open /\ EnterAt(v, t).loading = v.loading
           /\ EnterAt(v, t).confirming = None
           /\ EnterAt(v, t).celebrating = v.celebrating
           /\ EnterAt(v, t).badges = v.badges /\ EnterAt(v, t).snapshot = v.snapshot
<1> DEFINE i == IF v.pointer[t] = None THEN Len(Trees[t]) ELSE IndexIn(t, v.pointer[t])
<1>1. v.pointer[t] \in OrNone(Lessons(t))
  BY DEF ViewOK
<1>2. i \in 1..Len(Trees[t]) /\ Len(Trees[t]) \in Nat \ {0}
  BY <1>1, TreesType, IndexInType DEF OrNone
<1>3. i \in Nat \ {0} /\ i <= Len(Trees[t]) /\ t \in OrNone(TreeIds)
  BY <1>2 DEF OrNone
<1> HIDE DEF i
<1> QED
  BY <1>3, AtEffect DEF EnterAt, i

LEMMA OpenedType == ViewOK(Opened) /\ ViewOK(Closed)
<1>1. \A t \in TreeIds : FirstOutside(t, {}) \in OrNone(Lessons(t))
  BY FirstOutsideType
<1>2. \A t \in TreeIds : FirstOutside(t, {}) \in OrNone(Missions)
  BY <1>1, TreesType DEF OrNone
<1> DEFINE pointers == [t \in TreeIds |-> FirstOutside(t, {})]
<1>3. /\ pointers \in [TreeIds -> OrNone(Missions)]
      /\ \A t \in TreeIds : pointers[t] \in OrNone(Lessons(t))
  BY <1>1, <1>2
<1> HIDE DEF pointers
<1>4. /\ Opened.pointer = pointers
      /\ Opened \in Views
  BY <1>3 DEF Opened, Views, OrNone, pointers
<1>5. ViewOK(Opened)
  BY <1>3, <1>4 DEF ViewOK, Opened
<1>6. ViewOK(Closed)
  BY <1>5 DEF ViewOK, Views, Closed, Opened
<1> QED
  BY <1>5, <1>6

\* The lesson shown is a lesson of the tree shown.
LEMMA MissionType ==
    ASSUME ViewOK(view), OnMission
    PROVE  /\ mission \in Lessons(view.tree) /\ mission \in Missions
           /\ view.tree \in TreeIds /\ view.idx \in 1..Len(Trees[view.tree])
<1>1. view.tree \in TreeIds /\ view.idx \in Nat \ {0} /\ view.idx <= Len(Trees[view.tree])
  BY DEF ViewOK, Views, OnMission, OrNone
<1>2. view.idx \in 1..Len(Trees[view.tree])
  BY <1>1, TreesType
<1> QED
  BY <1>1, <1>2, TreesType DEF mission

\* A confirmation that is open is about the lesson shown, in its Do step.
AsksHere(v) ==
    v.confirming # None =>
        v.tree # None /\ v.phase = "do" /\ v.confirming = Trees[v.tree][v.idx]

\* What every step of the learner about the screen keeps: it neither starts nor ends an
\* action, celebrates nothing, and carries no confirmation to another lesson.
Keeps(v) ==
    /\ ViewOK(v) /\ AsksHere(v)
    /\ v.open = view.open /\ v.loading = view.loading
    /\ v.celebrating \in {None, view.celebrating}
    /\ v.badges \subseteq view.badges \cup EarnedTrees
    /\ v.snapshot \subseteq view.snapshot \cup Credited

LEMMA MoveKeeps ==
    ASSUME ViewOK(view),
           \/ \E t \in TreeIds : EnterTree(t)
           \/ ExitToTreePicker \/ GoPrev \/ GoNextReview
    PROVE  Keeps(view') /\ Screen
<1>1. ASSUME NEW t \in TreeIds, EnterTree(t) PROVE Keeps(view')
  BY <1>1, EnterAtEffect DEF EnterTree, Keeps, AsksHere
<1>2. ASSUME ExitToTreePicker PROVE Keeps(view')
  <2>1. None \in OrNone(TreeIds) /\ 1 \in Nat \ {0}
    BY DEF OrNone
  <2> QED
    BY <1>2, <2>1, AtEffect DEF ExitToTreePicker, Keeps, AsksHere
<1>3. ASSUME GoPrev PROVE Keeps(view')
  <2>1. /\ view.tree \in OrNone(TreeIds) /\ view.idx - 1 \in Nat \ {0}
        /\ view.idx - 1 <= Len(Trees[view.tree])
    BY <1>3, MissionType, TreesType DEF GoPrev, OrNone
  <2> QED
    BY <1>3, <2>1, AtEffect DEF GoPrev, Keeps, AsksHere
<1>4. ASSUME GoNextReview PROVE Keeps(view')
  <2>1. view.tree \in TreeIds /\ view.idx \in 1..Len(Trees[view.tree])
    BY <1>4, MissionType DEF GoNextReview
  <2>2. frontier \in 1..Len(Trees[view.tree])
    <3>1. view.pointer[view.tree] \in OrNone(Lessons(view.tree))
      BY <2>1 DEF ViewOK
    <3> QED
      BY <2>1, <3>1, TreesType, IndexInType DEF frontier, OrNone
  <2>3. /\ view.tree \in OrNone(TreeIds) /\ view.idx + 1 \in Nat \ {0}
        /\ view.idx + 1 <= Len(Trees[view.tree])
    BY <1>4, <2>1, <2>2, TreesType DEF GoNextReview, OrNone
  <2> QED
    BY <1>4, <2>3, AtEffect DEF GoNextReview, Keeps, AsksHere
<1> QED
  BY <1>1, <1>2, <1>3, <1>4 DEF EnterTree, ExitToTreePicker, GoPrev, GoNextReview

LEMMA LessonKeeps ==
    ASSUME ViewOK(view), AsksHere(view),
           \/ Advance \/ HandleQuizSubmit \/ OpenDo \/ OnRetry \/ PhaseTabs
           \/ AskConfirm \/ GoBackAndEdit
    PROVE  Keeps(view') /\ Screen
<1>1. ASSUME NEW p \in {"learn", "quiz", "do"}
      PROVE  /\ Keeps(ToPhase(p))
             /\ \A q \in OrNone({"correct", "wrong"}) :
                   Keeps([ToPhase(p) EXCEPT !.quiz = q])
             /\ Keeps([ToPhase(p) EXCEPT !.timer = FALSE])
  <2>1. /\ ViewOK(ToPhase(p)) /\ AsksHere(ToPhase(p))
        /\ ToPhase(p).open = view.open /\ ToPhase(p).loading = view.loading
        /\ ToPhase(p).celebrating = view.celebrating
        /\ ToPhase(p).badges = view.badges /\ ToPhase(p).snapshot = view.snapshot
    <3>1. CASE view.phase = p
      <4>1. ToPhase(p) = [view EXCEPT !.phase = p]
        BY <3>1 DEF ToPhase, ViewOK, Views
      <4> QED
        BY <3>1, <4>1 DEF AsksHere, ViewOK, Views
    <3>2. CASE view.phase # p
      <4>1. ToPhase(p) = [view EXCEPT !.phase = p, !.confirming = None]
        BY <3>2 DEF ToPhase
      <4> QED
        BY <4>1 DEF AsksHere, ViewOK, Views, OrNone
    <3> QED
      BY <3>1, <3>2
  <2> QED
    BY <2>1 DEF Keeps, AsksHere, ViewOK, Views
<1>2. None \in OrNone({"correct", "wrong"})
  BY DEF OrNone
<1>3. CASE Advance
  BY <1>1, <1>2, <1>3 DEF Advance
<1>4. CASE HandleQuizSubmit
  <2>1. PICK result \in {"correct", "wrong"} :
           view' = [view EXCEPT !.quiz = result, !.timer = @ \/ result = "correct"]
    BY <1>4 DEF HandleQuizSubmit
  <2> DEFINE timer == view.timer \/ result = "correct"
  <2>2. timer \in BOOLEAN /\ view' = [view EXCEPT !.quiz = result, !.timer = timer]
    BY <2>1
  <2> HIDE DEF timer
  <2>3. Keeps(view')
    BY <2>2 DEF Keeps, AsksHere, ViewOK, Views, OrNone
  <2> QED
    BY <1>4, <2>3 DEF HandleQuizSubmit
<1>5. CASE OpenDo
  BY <1>1, <1>5 DEF OpenDo
<1>6. CASE OnRetry
  BY <1>1, <1>2, <1>6 DEF OnRetry
<1>7. CASE PhaseTabs
  BY <1>1, <1>7 DEF PhaseTabs
<1>8. CASE AskConfirm
  <2>1. /\ mission \in Missions /\ view.tree # None /\ view.phase = "do"
        /\ view' = [view EXCEPT !.confirming = mission]
    BY <1>8, MissionType DEF AskConfirm, MayAct, OnMission
  <2> QED
    BY <1>8, <2>1 DEF AskConfirm, Keeps, AsksHere, ViewOK, Views, OrNone, mission
<1>9. CASE GoBackAndEdit
  BY <1>9 DEF GoBackAndEdit, Keeps, AsksHere, ViewOK, Views, OrNone
<1> QED
  BY <1>3, <1>4, <1>5, <1>6, <1>7, <1>8, <1>9

LEMMA ContinueAfterBadgeKeeps ==
    ASSUME ViewOK(view), ContinueAfterBadge
    PROVE  Keeps(view') /\ Screen
<1> DEFINE v == [view EXCEPT !.celebrating = None]
           after == [i \in TreeIds |-> 1 + ((view.celebrating - 1 + i) % Len(Trees))]
           open == {i \in TreeIds : v.pointer[after[i]] # None}
           next == CHOOSE i \in open : \A j \in open : i <= j
<1>1. /\ ViewOK(v) /\ v.celebrating = None /\ v.open = view.open
      /\ v.loading = view.loading
      /\ v.badges = view.badges /\ v.snapshot = view.snapshot
  BY DEF ViewOK, Views, OrNone
<1>2. view.celebrating \in TreeIds /\ Len(Trees) \in Nat
  BY CurriculumAssumption DEF ContinueAfterBadge, ViewOK, Views, OrNone
<1>3. view' = (IF open = {} THEN At(v, None, 1) ELSE EnterAt(v, after[next])) /\ Screen
  BY DEF ContinueAfterBadge
<1>4. open \in SUBSET Nat
  BY <1>2 DEF TreeIds
<1>5. ASSUME open # {} PROVE next \in TreeIds
  <2>1. \E i \in open : \A j \in open : i <= j
    BY <1>4, <1>5, HasLeast
  <2> QED
    BY <2>1
<1>6. ASSUME NEW i \in TreeIds PROVE after[i] \in TreeIds
  BY <1>2, <1>6 DEF TreeIds
<1> HIDE DEF v, after, open, next
<1>7. CASE open = {}
  <2>1. None \in OrNone(TreeIds) /\ 1 \in Nat \ {0}
    BY DEF OrNone
  <2> QED
    BY <1>1, <1>3, <1>7, <2>1, AtEffect DEF Keeps, AsksHere
<1>8. CASE open # {}
  BY <1>1, <1>3, <1>5, <1>6, <1>8, EnterAtEffect DEF Keeps, AsksHere
<1> QED
  BY <1>7, <1>8

LEMMA GoNextMissionKeeps ==
    ASSUME ViewOK(view), AsksHere(view), GoNextMission
    PROVE  Keeps(view')
<1> DEFINE done == view.completed \cup {mission}
           first == FirstOutside(view.tree, done)
           v == [view EXCEPT !.completed = done, !.pointer[view.tree] = first]
<1>1. /\ mission \in Missions /\ view.tree \in TreeIds
      /\ view.idx \in 1..Len(Trees[view.tree])
  BY MissionType DEF GoNextMission
<1>2. first \in OrNone(Lessons(view.tree)) /\ first \in OrNone(Missions)
  BY <1>1, FirstOutsideType, TreesType DEF OrNone
<1>3. done \in SUBSET Missions
  BY <1>1 DEF ViewOK, Views
<1> HIDE DEF first, done
<1>4. Keeps(v)
  BY <1>1, <1>2, <1>3 DEF Keeps, AsksHere, ViewOK, Views
<1>5. view' = IF isLast THEN v ELSE At(v, view.tree, view.idx + 1)
  BY DEF GoNextMission, first, done
<1> HIDE DEF v
<1>6. CASE isLast
  BY <1>4, <1>5, <1>6
<1>7. CASE ~isLast
  <2>1. /\ view.tree \in OrNone(TreeIds) /\ view.idx + 1 \in Nat \ {0}
        /\ view.idx + 1 <= Len(Trees[view.tree])
    BY <1>1, <1>7, TreesType DEF isLast, OrNone
  <2> QED
    BY <1>4, <1>5, <1>7, <2>1, AtEffect DEF Keeps, AsksHere
<1> QED
  BY <1>6, <1>7

LEMMA HydrateKeeps ==
    ASSUME ViewOK(view), AsksHere(view), view.snapshot \subseteq Credited,
           HydrateRead \/ Hydrated \/ HydrateFailed
    PROVE  Keeps(view')
<1>1. CASE HydrateRead
  BY <1>1 DEF HydrateRead, Keeps, AsksHere, ViewOK, Views, Credited
<1>2. CASE Hydrated
  <2> DEFINE snapshot == view.snapshot
             pointers == [t \in TreeIds |-> FirstOutside(t, snapshot)]
  <2>1. snapshot \in SUBSET Missions
    BY DEF ViewOK, Views
  <2>2. /\ pointers \in [TreeIds -> OrNone(Missions)]
        /\ \A t \in TreeIds : pointers[t] \in OrNone(Lessons(t))
    BY FirstOutsideType, TreesType DEF OrNone
  <2>3. view' = [view EXCEPT
                   !.hydrate = "done", !.snapshot = {}, !.completed = snapshot,
                   !.pointer = pointers,
                   !.badges = {t \in TreeIds : Lessons(t) \subseteq snapshot}]
    BY <1>2 DEF Hydrated
  <2>4. {t \in TreeIds : Lessons(t) \subseteq snapshot} \subseteq EarnedTrees
    BY DEF EarnedTrees
  <2> HIDE DEF pointers, snapshot
  <2> QED
    BY <2>1, <2>2, <2>3, <2>4 DEF Keeps, AsksHere, ViewOK, Views
<1>3. CASE HydrateFailed
  BY <1>3 DEF HydrateFailed, Keeps, AsksHere, ViewOK, Views
<1> QED
  BY <1>1, <1>2, <1>3

-----------------------------------------------------------------------------
(* The invariant.                                                          *)

\* An action in flight is the lesson's own, was asked about if it publishes, and its last
\* answer is for a screen that is there; a completion that is answered "ok" is on record.
ActOK(a, recorded) ==
    /\ a.step = "none" => a.ans = "waiting"
    /\ ~Unheard(a)
    /\ a.step # "none" =>
          /\ a.mission \in Missions /\ a.by = a.mission
          /\ KindOf[a.mission] \in NeedsPublishConfirm => AskedAbout(a.mission, a.asked)
          /\ a.step = "complete" /\ a.ans = "ok" => a.mission \in recorded

ActsOK == \A s \in Slots : ActOK(acts[s], Credited)

NewsEarned == \A n \in news : n.trees \subseteq EarnedTrees

ViewSound == AsksHere(view) /\ view.snapshot \subseteq Credited

Inv == /\ TypeOK /\ OneAtATime /\ ActsOK /\ NewsEarned /\ ViewSound
       /\ BadgesEarned /\ OwnProof /\ AskedFirst

\* What is recorded stays so, and so does what rests on it.
Grows == Credited \subseteq Credited'

LEMMA GrowsKeeps ==
    ASSUME Grows
    PROVE  /\ EarnedTrees \subseteq EarnedTrees'
           /\ ActsOK /\ UNCHANGED acts => ActsOK'
           /\ NewsEarned /\ UNCHANGED news => NewsEarned'
  BY DEF Grows, EarnedTrees, ActsOK, ActOK, NewsEarned

LEMMA NoActType ==
    /\ NoAct \in Acts /\ NoAct.step = "none" /\ NoAct.screen = "shown"
    /\ \A recorded : ActOK(NoAct, recorded)
  BY DEF NoAct, Acts, OrNone, ActOK, Unheard

LEMMA InitInv == Init => Inv
<1> SUFFICES ASSUME Init PROVE Inv
  OBVIOUS
<1>1. /\ ledger \in [Missions -> OrNone(Missions)] /\ npub \in OrNone(Secrets)
      /\ OwnProof
  BY SecretsAssumption DEF Init, OrNone, OwnProof, Credited
<1>2. acts \in [Slots -> Acts] /\ ActsOK /\ running = {}
  BY NoActType DEF Init, ActsOK, running
<1>3. ViewOK(view) /\ ~view.open /\ ~view.loading
      /\ view.celebrating = None /\ view.badges = {} /\ ViewSound
  BY OpenedType DEF Init, Closed, Opened, ViewSound, AsksHere
<1>4. TypeOK
  BY <1>1, <1>2, <1>3, BoundsAssumption DEF Init, TypeOK, OrNone
<1> QED
  BY <1>1, <1>2, <1>3, <1>4
  DEF Init, Inv, OneAtATime, NewsEarned, BadgesEarned, AskedFirst

-----------------------------------------------------------------------------
(* Steps of the screen.                                                    *)

LEMMA ScreenStep ==
    ASSUME Inv, Keeps(view'), UNCHANGED <<serverVars, storageVars, acts>>,
           lost' \in 0..MaxLost,
           news' \subseteq [id : 1..MaxNews, read : BOOLEAN, trees : SUBSET TreeIds],
           \A n \in news' : n \in news \/ n.trees = {}
    PROVE  Inv'
<1>1. TypeOK'
  BY DEF Inv, TypeOK, Keeps, serverVars, storageVars
<1>2. OneAtATime'
  BY DEF Inv, OneAtATime, Keeps, running
<1>3. /\ Grows /\ OwnProof' /\ AskedFirst'
      /\ Credited' = Credited /\ EarnedTrees' = EarnedTrees
  BY DEF Inv, Grows, Credited, EarnedTrees, OwnProof, AskedFirst, serverVars
<1>4. ActsOK' /\ NewsEarned'
  BY <1>3, GrowsKeeps DEF Inv, NewsEarned
<1>5. BadgesEarned' /\ ViewSound'
  BY <1>3 DEF Inv, BadgesEarned, ViewSound, AsksHere, Keeps
<1> QED
  BY <1>1, <1>2, <1>3, <1>4, <1>5 DEF Inv

LEMMA MountStep == ASSUME Inv, Mount PROVE Inv'
<1>1. ~view.open /\ running = {} /\ view' = Opened
  BY DEF Inv, OneAtATime, Mount
<1>2. /\ Opened.loading = FALSE /\ Opened.celebrating = None /\ Opened.badges = {}
      /\ Opened.confirming = None /\ Opened.snapshot = {}
  BY DEF Opened
<1>3. TypeOK'
  BY <1>1, OpenedType DEF Inv, TypeOK, Mount, serverVars, storageVars
<1>4. OneAtATime'
  BY <1>1, <1>2 DEF OneAtATime, running, Mount
<1>5. BadgesEarned' /\ ViewSound'
  BY <1>1, <1>2 DEF BadgesEarned, ViewSound, AsksHere
<1> QED
  BY <1>3, <1>4, <1>5
  DEF Inv, Mount, serverVars, ActsOK, ActOK, NewsEarned, OwnProof, AskedFirst,
      EarnedTrees, Credited

LEMMA AbandonEffect ==
    ASSUME TypeOK, ActsOK, NEW how \in {"left", "dead"}, Abandon(how), UNCHANGED ledger
    PROVE  acts' \in [Slots -> Acts] /\ ActsOK' /\ running' = {}
<1>1. ASSUME NEW s \in Slots
      PROVE  /\ acts'[s] \in Acts /\ ActOK(acts'[s], Credited') /\ s \notin running'
  <2> DEFINE a == acts[s]
  <2>1. a \in Acts /\ ActOK(a, Credited)
    BY DEF TypeOK, ActsOK
  <2>2. \/ acts'[s] = a /\ (a.step = "none" \/ a.screen = "dead")
        \/ acts'[s] = Heard([a EXCEPT !.screen = how]) /\ a.step # "none"
    BY DEF Abandon
  <2>3. CASE acts'[s] = a /\ (a.step = "none" \/ a.screen = "dead")
    BY <2>1, <2>3 DEF ActOK, running, Credited
  <2>4. CASE acts'[s] = Heard([a EXCEPT !.screen = how]) /\ a.step # "none"
    <3>1. PICK b : b = [a EXCEPT !.screen = how]
      OBVIOUS
    <3>2. /\ b \in Acts /\ b.screen = how /\ b.step = a.step /\ b.mission = a.mission
          /\ b.by = a.by /\ b.asked = a.asked /\ b.ans = a.ans
      BY <2>1, <3>1 DEF Acts
    <3>3. acts'[s] = NoAct \/ (acts'[s] = b /\ ~Unheard(b))
      BY <2>4, <3>1 DEF Heard
    <3>4. CASE acts'[s] = NoAct
      BY <3>4, NoActType DEF running
    <3>5. CASE acts'[s] = b /\ ~Unheard(b)
      BY <2>1, <3>2, <3>5 DEF ActOK, running, Credited
    <3> QED
      BY <3>3, <3>4, <3>5
  <2> QED
    BY <2>2, <2>3, <2>4
<1>2. acts' = [s \in Slots |-> acts'[s]]
  BY DEF Abandon
<1>3. running' = {}
  BY <1>1 DEF running
<1> QED
  BY <1>1, <1>2, <1>3 DEF ActsOK

LEMMA LeaveStep == ASSUME Inv, Leave PROVE Inv'
<1>1. acts' \in [Slots -> Acts] /\ ActsOK' /\ running' = {}
  BY AbandonEffect DEF Inv, Leave, serverVars
<1>2. /\ Closed.loading = FALSE /\ Closed.celebrating = None /\ Closed.badges = {}
      /\ Closed.confirming = None /\ Closed.snapshot = {}
  BY DEF Closed, Opened
<1>3. TypeOK'
  <2>1. nsec' \in OrNone(Secrets) /\ seed' \in OrNone(Secrets)
    BY DEF Leave, storageVars, Inv, TypeOK, OrNone
  <2> QED
    BY <1>1, <2>1, OpenedType DEF Inv, TypeOK, Leave, serverVars
<1>4. OneAtATime' /\ BadgesEarned' /\ NewsEarned' /\ ViewSound'
  BY <1>1, <1>2 DEF Leave, OneAtATime, BadgesEarned, NewsEarned, ViewSound, AsksHere
<1> QED
  BY <1>1, <1>3, <1>4
  DEF Inv, Leave, serverVars, OwnProof, AskedFirst, Credited

\* A badge is celebrated only out of an answer that holds it.
LEMMA BadgesShownStep == ASSUME Inv, BadgesShown PROVE Inv'
<1>1. PICK n \in news :
         LET fresh == n.trees \ view.badges IN
         /\ news' = news \ {n}
         /\ view' = [view EXCEPT !.badges = n.trees,
                                 !.celebrating = IF fresh = {} THEN @
                                     ELSE CHOOSE t \in fresh : \A u \in fresh : t <= u]
         /\ UNCHANGED <<serverVars, storageVars, acts, lost>>
  BY DEF BadgesShown
<1> DEFINE fresh == n.trees \ view.badges
           first == CHOOSE t \in fresh : \A u \in fresh : t <= u
           shown == IF fresh = {} THEN view.celebrating ELSE first
<1>2. n.trees \in SUBSET TreeIds /\ n.trees \subseteq EarnedTrees
  BY DEF Inv, TypeOK, NewsEarned
<1>3. ASSUME fresh # {} PROVE first \in fresh
  <2>1. fresh \in SUBSET Nat
    BY <1>2 DEF TreeIds
  <2>2. \E t \in fresh : \A u \in fresh : t <= u
    BY <1>3, <2>1, HasLeast
  <2> QED
    BY <2>2
<1>4. shown \in OrNone(TreeIds) /\ (shown # None => shown \in EarnedTrees)
  BY <1>2, <1>3 DEF Inv, TypeOK, ViewOK, Views, BadgesEarned, OrNone
<1>5. view' = [view EXCEPT !.badges = n.trees, !.celebrating = shown]
  BY <1>1
<1> HIDE DEF shown
<1>6. /\ ViewOK(view') /\ view'.loading = view.loading /\ view'.open = view.open
      /\ view'.celebrating = shown /\ view'.badges = n.trees
      /\ AsksHere(view') /\ view'.snapshot = view.snapshot
  BY <1>2, <1>4, <1>5 DEF Inv, TypeOK, ViewOK, Views, ViewSound, AsksHere
<1>7. TypeOK'
  BY <1>1, <1>6 DEF Inv, TypeOK, serverVars, storageVars
<1>8. OneAtATime'
  BY <1>1, <1>6 DEF Inv, OneAtATime, running
<1>9. Grows /\ EarnedTrees' = EarnedTrees /\ Credited' = Credited
  BY <1>1 DEF Grows, EarnedTrees, Credited, serverVars
<1>10. ActsOK' /\ NewsEarned' /\ BadgesEarned' /\ ViewSound'
  BY <1>1, <1>2, <1>4, <1>6, <1>9, GrowsKeeps DEF Inv, NewsEarned, BadgesEarned, ViewSound
<1> QED
  BY <1>1, <1>7, <1>8, <1>10
  DEF Inv, OwnProof, AskedFirst, Credited, serverVars

LEMMA BadgesReadStep == ASSUME Inv, BadgesRead \/ BadgesLost PROVE Inv'
<1> DEFINE News == [id : 1..MaxNews, read : BOOLEAN, trees : SUBSET TreeIds]
<1>1. /\ UNCHANGED <<serverVars, storageVars, view, acts>> /\ lost' \in 0..MaxLost
      /\ news' \subseteq News /\ \A n \in news' : n \in news \/ n.trees = EarnedTrees
  <2>1. CASE BadgesRead
    <3>1. PICK n \in news :
             news' = (news \ {n}) \cup {[n EXCEPT !.read = TRUE, !.trees = EarnedTrees]}
      BY <2>1 DEF BadgesRead
    <3>2. PICK b : b = [n EXCEPT !.read = TRUE, !.trees = EarnedTrees]
      OBVIOUS
    <3>3. n \in News /\ EarnedTrees \in SUBSET TreeIds
      BY DEF Inv, TypeOK, EarnedTrees
    <3>4. b \in News /\ b.trees = EarnedTrees
      BY <3>2, <3>3
    <3> QED
      BY <2>1, <3>1, <3>2, <3>4 DEF BadgesRead, Inv, TypeOK
  <2>2. CASE BadgesLost
    BY <2>2, BoundsAssumption DEF BadgesLost, Inv, TypeOK
  <2> QED
    BY <2>1, <2>2
<1>2. TypeOK'
  BY <1>1 DEF Inv, TypeOK, serverVars, storageVars
<1>3. Credited' = Credited /\ EarnedTrees' = EarnedTrees
  BY <1>1 DEF Credited, EarnedTrees, serverVars
<1>4. NewsEarned'
  BY <1>1, <1>3 DEF Inv, NewsEarned
<1> QED
  BY <1>1, <1>2, <1>3, <1>4
  DEF Inv, OneAtATime, running, ActsOK, ActOK, BadgesEarned, ViewSound, OwnProof,
      AskedFirst, serverVars

-----------------------------------------------------------------------------
(* Steps of an action.                                                     *)

\* A slot that changes, among others that do not.
LEMMA SlotStep ==
    ASSUME Inv, NEW s \in Slots, NEW a \in Acts, acts' = [acts EXCEPT ![s] = a],
           ActOK(a, Credited'), Grows
    PROVE  acts' \in [Slots -> Acts] /\ ActsOK'
<1>1. \A u \in Slots : ActOK(acts[u], Credited)
  BY DEF Inv, ActsOK
<1>2. \A u \in Slots : ActOK(acts'[u], Credited')
  BY <1>1 DEF ActOK, Grows, Inv, TypeOK
<1> QED
  BY <1>2 DEF ActsOK, Inv, TypeOK

LEMMA HandleDoStep == ASSUME Inv, NEW s \in Slots, HandleDo(s) PROVE Inv'
<1>1. /\ mission \in Missions /\ Kind \in Kinds
      /\ running = {} /\ view.open
  BY MissionType, CurriculumAssumption
  DEF HandleDo, MayAct, OnMission, Inv, TypeOK, OneAtATime, Kind
<1>2. PICK key \in Secrets \cup {None} :
        /\ nsec' = IF Kind \in NeedsSigningKey \cup {"nostr-identity"} THEN key ELSE nsec
        /\ seed' = IF Kind = "seed-words" THEN key ELSE seed
        /\ acts' = [acts EXCEPT ![s] =
                      [NoAct EXCEPT !.step = IF Kind \in CallsService THEN "service"
                                             ELSE "complete",
                                    !.mission = mission, !.by = mission, !.key = key,
                                    !.asked = view.confirming]]
  BY DEF HandleDo
<1>4. PICK a \in Acts :
        /\ a.step # "none" /\ a.screen = "shown" /\ a.ans = "waiting"
        /\ a.mission = mission /\ a.by = mission /\ a.asked = view.confirming
        /\ acts' = [acts EXCEPT ![s] = a]
  <2> DEFINE started == [NoAct EXCEPT !.step = IF Kind \in CallsService THEN "service"
                                              ELSE "complete",
                                     !.mission = mission, !.by = mission, !.key = key,
                                     !.asked = view.confirming]
  <2>1. /\ started \in Acts /\ started.step # "none" /\ started.screen = "shown"
        /\ started.ans = "waiting" /\ started.mission = mission /\ started.by = mission
        /\ started.asked = view.confirming
    BY <1>1 DEF NoAct, Acts, OrNone, Inv, TypeOK, ViewOK, Views
  <2>2. acts' = [acts EXCEPT ![s] = started]
    BY <1>2
  <2> HIDE DEF started
  <2> QED
    BY <2>1, <2>2
<1>6. /\ UNCHANGED <<serverVars, news, lost>> /\ Grows
      /\ view' = [view EXCEPT !.loading = TRUE]
  BY DEF HandleDo, Grows, serverVars, Credited
<1>7. ActOK(a, Credited')
  <2>1. ASSUME Kind \in NeedsPublishConfirm PROVE AskedAbout(mission, view.confirming)
    <3>1. view.confirming # None \/ Kind = "nostr-follow"
      BY <2>1 DEF HandleDo, Submitted
    <3>2. view.confirming # None => view.confirming = mission
      BY DEF Inv, ViewSound, AsksHere, mission
    <3> QED
      BY <3>1, <3>2 DEF AskedAbout, Kind
  <2> QED
    BY <1>1, <1>4, <2>1 DEF ActOK, Kind, Unheard
<1>8. acts' \in [Slots -> Acts] /\ ActsOK'
  BY <1>4, <1>6, <1>7, SlotStep
<1>9. /\ ViewOK(view') /\ view'.loading = TRUE /\ view'.open = view.open
      /\ view'.badges = view.badges /\ view'.celebrating = view.celebrating
      /\ AsksHere(view') /\ view'.snapshot = view.snapshot
  BY <1>6 DEF Inv, TypeOK, ViewOK, Views, ViewSound, AsksHere
<1>10. TypeOK'
  BY <1>2, <1>6, <1>8, <1>9 DEF Inv, TypeOK, serverVars, OrNone
<1>11. running' = {s}
  BY <1>1, <1>4 DEF running, Inv, TypeOK
<1>12. OneAtATime'
  BY <1>1, <1>9, <1>11 DEF OneAtATime
<1> QED
  BY <1>6, <1>8, <1>9, <1>10, <1>12
  DEF Inv, NewsEarned, BadgesEarned, ViewSound, OwnProof, AskedFirst, Credited, EarnedTrees,
      serverVars

LEMMA ReplyEffect ==
    ASSUME Inv, Grows, NEW s \in Slots, acts[s].step # "none",
           NEW ans \in {"ok", "failed"}, Reply(s, ans),
           acts[s].step = "complete" /\ ans = "ok" => acts[s].mission \in Credited'
    PROVE  acts' \in [Slots -> Acts] /\ ActsOK' /\ running' = running
<1>1. acts \in [Slots -> Acts] /\ ActOK(acts[s], Credited)
  BY DEF Inv, TypeOK, ActsOK
<1>2. PICK a \in Acts : a = [acts[s] EXCEPT !.ans = ans]
  BY <1>1 DEF Acts
<1>3. /\ a.step = acts[s].step /\ a.mission = acts[s].mission /\ a.by = acts[s].by
      /\ a.asked = acts[s].asked /\ a.screen = acts[s].screen /\ a.ans = ans
  BY <1>1, <1>2 DEF Acts
<1>4. acts' = [acts EXCEPT ![s] = Heard(a)]
  BY <1>1, <1>2 DEF Reply
<1>5. CASE Unheard(a)
  <2>1. acts' = [acts EXCEPT ![s] = NoAct] /\ acts[s].screen # "shown"
    BY <1>3, <1>4, <1>5 DEF Heard, Unheard
  <2>2. acts' \in [Slots -> Acts] /\ ActsOK'
    BY <2>1, NoActType, SlotStep
  <2> QED
    BY <1>1, <2>1, <2>2, NoActType DEF running
<1>6. CASE ~Unheard(a)
  <2>1. acts' = [acts EXCEPT ![s] = a]
    BY <1>4, <1>6 DEF Heard
  <2>2. ActOK(a, Credited')
    BY <1>1, <1>3, <1>6 DEF ActOK
  <2>3. acts' \in [Slots -> Acts] /\ ActsOK'
    BY <2>1, <2>2, SlotStep
  <2> QED
    BY <1>1, <1>3, <2>1, <2>3 DEF running
<1> QED
  BY <1>5, <1>6

\* Steps behind the screen: the view is left alone and so is what runs on it.
LEMMA BehindStep ==
    ASSUME Inv, acts' \in [Slots -> Acts], ActsOK', running' = running, Grows,
           UNCHANGED <<storageVars, view, news>>, lost' \in 0..MaxLost,
           ledger' \in [Missions -> OrNone(Missions)], npub' \in OrNone(Secrets),
           posted' \in OrNone(Events), OwnProof', AskedFirst'
    PROVE  Inv'
<1>1. TypeOK'
  BY DEF Inv, TypeOK, storageVars
<1>2. OneAtATime'
  BY DEF Inv, OneAtATime
<1>3. EarnedTrees \subseteq EarnedTrees' /\ NewsEarned'
  BY GrowsKeeps DEF Inv
<1>4. BadgesEarned' /\ ViewSound'
  BY <1>3 DEF Inv, BadgesEarned, ViewSound, AsksHere, Grows
<1> QED
  BY <1>1, <1>2, <1>3, <1>4 DEF Inv

LEMMA ServeStep == ASSUME Inv, NEW s \in Slots, Serve(s) PROVE Inv'
<1> DEFINE a == acts[s]
           kind == KindOf[a.mission]
           event == [mission |-> a.mission, asked |-> a.asked]
<1>1. /\ a.step = "service" /\ a \in Acts /\ ActOK(a, Credited)
      /\ UNCHANGED <<ledger, storageVars, view, news, lost>>
  BY DEF Serve, Waiting, Inv, TypeOK, ActsOK
<1>2. Grows /\ OwnProof'
  BY <1>1 DEF Grows, Credited, Inv, OwnProof
<1>3. /\ npub' \in {npub, a.key}
      /\ \/ posted' = posted
         \/ posted' = event /\ kind \in NeedsPublishConfirm
      /\ \E ans \in {"ok", "failed"} : Reply(s, ans)
  BY DEF Serve
<1>4. acts' \in [Slots -> Acts] /\ ActsOK' /\ running' = running
  BY <1>1, <1>2, <1>3, ReplyEffect
<1>5. npub' \in OrNone(Secrets)
  BY <1>1, <1>3 DEF Inv, TypeOK, Acts
<1>6. /\ event \in Events
      /\ kind \in NeedsPublishConfirm => AskedAbout(event.mission, event.asked)
  BY <1>1 DEF ActOK, Acts, Events
<1>7. posted' \in OrNone(Events) /\ AskedFirst'
  BY <1>3, <1>6 DEF Inv, TypeOK, AskedFirst, OrNone
<1> QED
  BY <1>1, <1>2, <1>4, <1>5, <1>7, BehindStep DEF Inv, TypeOK

LEMMA CompleteStep == ASSUME Inv, NEW s \in Slots, Complete(s) PROVE Inv'
<1> DEFINE a == acts[s]
<1>1. /\ a.step = "complete" /\ a \in Acts /\ ActOK(a, Credited)
      /\ UNCHANGED <<posted, storageVars, view, news, lost>>
  BY DEF Complete, Waiting, Inv, TypeOK, ActsOK
<1>2. a.mission \in Missions /\ a.by = a.mission /\ a.by # None
  BY <1>1, SecretsAssumption DEF ActOK
<1>3. npub' \in OrNone(Secrets)
  BY <1>1 DEF Complete, Inv, TypeOK, Acts
<1>4. /\ AskedFirst' /\ ledger \in [Missions -> OrNone(Missions)]
      /\ posted' \in OrNone(Events)
  BY <1>1 DEF Inv, TypeOK, AskedFirst
<1>5. CASE ledger' = [ledger EXCEPT ![a.mission] = a.by] /\ Reply(s, "ok")
  <2>1. ledger' \in [Missions -> OrNone(Missions)]
    BY <1>2, <1>4, <1>5 DEF OrNone
  <2>2. Grows /\ a.mission \in Credited' /\ OwnProof'
    BY <1>2, <1>4, <1>5 DEF Grows, Credited, Inv, OwnProof
  <2>3. acts' \in [Slots -> Acts] /\ ActsOK' /\ running' = running
    BY <1>1, <1>5, <2>2, ReplyEffect
  <2> QED
    BY <1>1, <1>3, <1>4, <2>1, <2>2, <2>3, BehindStep DEF Inv, TypeOK
<1>6. CASE UNCHANGED ledger /\ Reply(s, "failed")
  <2>1. Grows /\ OwnProof'
    BY <1>6 DEF Grows, Credited, Inv, OwnProof
  <2>2. acts' \in [Slots -> Acts] /\ ActsOK' /\ running' = running
    BY <1>1, <1>6, <2>1, ReplyEffect
  <2> QED
    BY <1>1, <1>3, <1>4, <1>6, <2>1, <2>2, BehindStep DEF Inv, TypeOK
<1> QED
  BY <1>5, <1>6 DEF Complete

LEMMA LoseStep == ASSUME Inv, NEW s \in Slots, Lose(s) PROVE Inv'
<1>1. /\ acts[s].step # "none" /\ Reply(s, "failed") /\ lost' \in 0..MaxLost
      /\ UNCHANGED <<serverVars, storageVars, view, news>>
  BY BoundsAssumption DEF Lose, Inv, TypeOK
<1>2. Grows /\ OwnProof' /\ AskedFirst'
  BY <1>1 DEF Grows, Credited, Inv, OwnProof, AskedFirst, serverVars
<1>3. acts' \in [Slots -> Acts] /\ ActsOK' /\ running' = running
  BY <1>1, <1>2, ReplyEffect
<1> QED
  BY <1>1, <1>2, <1>3, BehindStep DEF Inv, TypeOK, serverVars

LEMMA ContinueStep == ASSUME Inv, NEW s \in Slots, Continue(s) PROVE Inv'
<1>1. /\ acts[s] \in Acts /\ ActOK(acts[s], Credited) /\ acts[s].step = "service"
      /\ UNCHANGED <<serverVars, storageVars, view, news, lost>>
  BY DEF Continue, Inv, TypeOK, ActsOK
<1>2. Grows /\ OwnProof' /\ AskedFirst' /\ Credited' = Credited
  BY <1>1 DEF Grows, Credited, Inv, OwnProof, AskedFirst, serverVars
<1>3. PICK a \in Acts : a = [acts[s] EXCEPT !.step = "complete", !.ans = "waiting"]
  BY <1>1 DEF Acts
<1>4. /\ a.step = "complete" /\ a.ans = "waiting" /\ a.mission = acts[s].mission
      /\ a.by = acts[s].by /\ a.asked = acts[s].asked /\ a.screen = acts[s].screen
  BY <1>1, <1>3 DEF Acts
<1>5. acts' = [acts EXCEPT ![s] = a]
  BY <1>3 DEF Continue, Inv, TypeOK
<1>6. acts' \in [Slots -> Acts] /\ ActsOK'
  BY <1>1, <1>2, <1>4, <1>5, SlotStep DEF ActOK, Unheard
<1>7. running' = running
  BY <1>1, <1>4, <1>5 DEF running, Inv, TypeOK
<1> QED
  BY <1>1, <1>2, <1>6, <1>7, BehindStep DEF Inv, TypeOK, serverVars

LEMMA AnswerStep == ASSUME Inv, NEW s \in Slots, Succeeded(s) \/ Failed(s) PROVE Inv'
<1>1. /\ acts' = [acts EXCEPT ![s] = NoAct] /\ acts[s] \in Acts
      /\ UNCHANGED <<serverVars, storageVars, news, lost>>
  BY DEF Succeeded, Failed, Clear, Inv, TypeOK
<1>2. acts[s].step # "none" /\ acts[s].screen = "shown"
  BY <1>1 DEF Inv, Succeeded, Failed, ActsOK, ActOK, Unheard, Acts
<1>3. Grows /\ OwnProof' /\ AskedFirst' /\ Credited' = Credited
      /\ EarnedTrees' = EarnedTrees
  BY <1>1 DEF Grows, Credited, EarnedTrees, Inv, OwnProof, AskedFirst, serverVars
<1>4. acts' \in [Slots -> Acts] /\ ActsOK' /\ NewsEarned'
  BY <1>1, <1>3, NoActType, SlotStep, GrowsKeeps DEF Inv
<1>5. running' = {} /\ view.open
  <2>1. running' = running \ {s} /\ s \in running
    BY <1>1, <1>2, NoActType DEF running, Inv, TypeOK
  <2> QED
    BY <2>1 DEF Inv, OneAtATime
<1>6. /\ ViewOK(view') /\ view'.loading = FALSE
      /\ view'.celebrating = view.celebrating /\ view'.badges = view.badges
      /\ AsksHere(view') /\ view'.snapshot = view.snapshot
  <2>1. CASE Succeeded(s)
    <3> DEFINE m == acts[s].mission
    <3>1. m \in Missions
      BY <1>2 DEF Inv, ActsOK, ActOK
    <3>2. view' = [view EXCEPT !.outcome = TRUE, !.loading = FALSE,
                               !.completed = @ \cup {m}]
      BY <2>1 DEF Succeeded
    <3> HIDE DEF m
    <3> QED
      BY <3>1, <3>2 DEF Inv, TypeOK, ViewOK, Views, ViewSound, AsksHere
  <2>2. CASE Failed(s)
    BY <2>2 DEF Failed, Inv, TypeOK, ViewOK, Views, ViewSound, AsksHere
  <2> QED
    BY <2>1, <2>2
<1>7. TypeOK'
  BY <1>1, <1>4, <1>6 DEF Inv, TypeOK, serverVars, storageVars
<1>8. OneAtATime' /\ BadgesEarned' /\ ViewSound'
  BY <1>3, <1>5, <1>6 DEF Inv, OneAtATime, BadgesEarned, ViewSound
<1> QED
  BY <1>3, <1>4, <1>7, <1>8 DEF Inv

-----------------------------------------------------------------------------
(* The theorems.                                                           *)

\* A refresh asked for is a new request, that has brought nothing yet.
LEMMA AskForBadgesEffect ==
    ASSUME TypeOK, AskForBadges
    PROVE  /\ news' \subseteq [id : 1..MaxNews, read : BOOLEAN, trees : SUBSET TreeIds]
           /\ \A n \in news' : n \in news \/ n.trees = {}
<1> DEFINE free == (1..MaxNews) \ {n.id : n \in news}
           first == CHOOSE i \in free : \A j \in free : i <= j
<1>1. news \subseteq [id : 1..MaxNews, read : BOOLEAN, trees : SUBSET TreeIds]
  BY DEF TypeOK
<1>2. news' = IF free = {} THEN news
              ELSE news \cup {[id |-> first, read |-> FALSE, trees |-> {}]}
  BY DEF AskForBadges
<1>3. ASSUME free # {} PROVE first \in free
  <2>1. free \in SUBSET Nat
    BY BoundsAssumption
  <2>2. \E i \in free : \A j \in free : i <= j
    BY <1>3, <2>1, HasLeast
  <2> QED
    BY <2>2
<1>4. free \subseteq 1..MaxNews
  OBVIOUS
<1> HIDE DEF free, first
<1>5. CASE free = {}
  BY <1>1, <1>2, <1>5
<1>6. CASE free # {}
  <2>1. PICK b : b = [id |-> first, read |-> FALSE, trees |-> {}]
    OBVIOUS
  <2>2. b \in [id : 1..MaxNews, read : BOOLEAN, trees : SUBSET TreeIds] /\ b.trees = {}
    BY <1>3, <1>4, <1>6, <2>1
  <2>3. news' = news \cup {b}
    BY <1>2, <1>6, <2>1
  <2> QED
    BY <1>1, <2>2, <2>3
<1> QED
  BY <1>5, <1>6

LEMMA NavigateStep == ASSUME Inv, Navigate PROVE Inv'
<1>1. ViewOK(view) /\ AsksHere(view) /\ view.snapshot \subseteq Credited
  BY DEF Inv, TypeOK, ViewSound
<1>2. CASE Mount \/ Leave
  BY <1>2, MountStep, LeaveStep
<1>3. CASE HydrateRead \/ Hydrated \/ HydrateFailed
  <2>1. /\ UNCHANGED <<serverVars, storageVars, acts, news>> /\ lost' \in 0..MaxLost
        /\ news \subseteq [id : 1..MaxNews, read : BOOLEAN, trees : SUBSET TreeIds]
    BY <1>3, BoundsAssumption DEF HydrateRead, Hydrated, HydrateFailed, Inv, TypeOK
  <2> QED
    BY <1>1, <1>3, <2>1, HydrateKeeps, ScreenStep
<1>4. ASSUME Keeps(view'), Screen PROVE Inv'
  BY <1>4, ScreenStep DEF Screen, Inv, TypeOK
<1>5. CASE (\E t \in TreeIds : EnterTree(t)) \/ ExitToTreePicker \/ GoPrev \/ GoNextReview
  BY <1>1, <1>4, <1>5, MoveKeeps
<1>6. CASE \/ Advance \/ HandleQuizSubmit \/ OpenDo \/ OnRetry \/ PhaseTabs
           \/ AskConfirm \/ GoBackAndEdit
  BY <1>1, <1>4, <1>6, LessonKeeps
<1>7. CASE ContinueAfterBadge
  BY <1>1, <1>4, <1>7, ContinueAfterBadgeKeeps
<1>8. CASE GoNextMission
  <2>1. /\ UNCHANGED <<serverVars, storageVars, acts, lost>> /\ lost' \in 0..MaxLost
        /\ news' \subseteq [id : 1..MaxNews, read : BOOLEAN, trees : SUBSET TreeIds]
        /\ \A n \in news' : n \in news \/ n.trees = {}
    BY <1>8, AskForBadgesEffect DEF GoNextMission, Inv, TypeOK
  <2> QED
    BY <1>1, <1>8, <2>1, GoNextMissionKeeps, ScreenStep
<1>9. CASE BadgesRead \/ BadgesShown \/ BadgesLost
  BY <1>9, BadgesReadStep, BadgesShownStep
<1> QED
  BY <1>2, <1>3, <1>5, <1>6, <1>7, <1>8, <1>9 DEF Navigate

LEMMA StepInv == Inv /\ [Next]_vars => Inv'
<1> SUFFICES ASSUME Inv, [Next]_vars PROVE Inv'
  OBVIOUS
<1>1. CASE Navigate
  BY <1>1, NavigateStep
<1>2. ASSUME NEW s \in Slots, Act(s) PROVE Inv'
  BY <1>2, HandleDoStep, ServeStep, CompleteStep, LoseStep, ContinueStep, AnswerStep
  DEF Act
<1>3. CASE UNCHANGED vars
  BY <1>3 DEF vars, serverVars, storageVars, Inv, TypeOK, OneAtATime, running, ActsOK,
              NewsEarned, ViewSound, BadgesEarned, OwnProof, AskedFirst, EarnedTrees,
              Credited
<1> QED
  BY <1>1, <1>2, <1>3 DEF Next

\* The inductive invariant holds in every state.
THEOREM Invariance == Spec => []Inv
  BY InitInv, StepInv, PTL DEF Spec

\* Every variable keeps its type; above all, the lesson on the screen and the pointers
\* are always lessons of their tree.
THEOREM TypeCorrect == Spec => []TypeOK
<1>1. Inv => TypeOK
  BY DEF Inv
<1> QED
  BY <1>1, Invariance, PTL

\* The button of the Do step is disabled exactly while the one action of this screen runs.
THEOREM ActionsOneAtATime == Spec => []OneAtATime
<1>1. Inv => OneAtATime
  BY DEF Inv
<1> QED
  BY <1>1, Invariance, PTL

\* A badge on the screen, celebrated or not, is backed by the server's ledger.
THEOREM BadgesAlwaysEarned == Spec => []BadgesEarned
<1>1. Inv => BadgesEarned
  BY DEF Inv
<1> QED
  BY <1>1, Invariance, PTL

\* A recorded proof was made by the lesson it is recorded for.
THEOREM ProofsOwn == Spec => []OwnProof
<1>1. Inv => OwnProof
  BY DEF Inv
<1> QED
  BY <1>1, Invariance, PTL

\* Nothing is published on the question of another lesson, and no note and no profile
\* without a question: a confirmation never outlives the Do step that asked it.
THEOREM QuestionsNotCarried == Spec => []AskedFirst
<1>1. Inv => AskedFirst
  BY DEF Inv
<1> QED
  BY <1>1, Invariance, PTL
=============================================================================
