---------------------------- MODULE ShellProofs ----------------------------
(***************************************************************************)
(* What Shell guarantees for every number of tabs, requests, sessions and  *)
(* learners, however late or lost the answers are.                         *)
(***************************************************************************)
EXTENDS Shell, TLAPS

-----------------------------------------------------------------------------
(* Type correctness *)

StoredRecord == [auth : OrNone(Participants), fac : OrNone(FacTokens),
                 sid : OrNone(Sessions), pid : OrNone(Participants)]
TabRecord == [screen : Screens \cup {"closed"}, view : Views,
              sid : OrNone(Sessions), pid : OrNone(Participants),
              join : OrNone(Sessions), challenge : OrNone(Sessions),
              access : OrNone(Sessions), created : OrNone(Sessions)]
CallRecord == [op : Ops, tab : OrNone(Tabs), for : OrNone(Sessions),
               linked : BOOLEAN, token : OrNone(FacTokens), prev : OrNone(FacTokens),
               ans : {"waiting", "ok", "refused", "lost"},
               got : OrNone(Sessions \cup Participants)]

ServerOK ==
    /\ session \in [Sessions -> {"unborn", "plain", "challenge", "pruned"}]
    /\ member \in [Participants -> OrNone(Sessions)]
    /\ codes \subseteq Participants

\* An answer that came is one the request asked for, and belongs to a tab.
CallTrue(x) ==
    /\ x.op # "none" => x.tab \in Tabs
    /\ x.op = "join" => x.for \in Sessions
    /\ x.ans = "ok" =>
        /\ x.op = "create" => x.got \in Sessions
        /\ x.op = "join" => x.got \in Participants /\ member[x.got] = x.for
        /\ x.op = "redeem" => x.got \in Participants /\ member[x.got] \in Sessions

CallsTrue == \A c \in Calls : CallTrue(calls[c])
CodesJoined == \A p \in codes : member[p] \in Sessions

\* What the types rest on: the answers in flight are true.
TypeInv == TypeOK /\ CallsTrue /\ CodesJoined

LEMMA TypeShape ==
    TypeOK <=> /\ ServerOK
               /\ stored \in StoredRecord
               /\ tab \in [Tabs -> TabRecord]
               /\ calls \in [Calls -> CallRecord]
               /\ submits \in 0..MaxSubmits
  BY DEF TypeOK, ServerOK, StoredRecord, TabRecord, CallRecord

LEMMA TypeShapeNext ==
    ASSUME ServerOK', stored' \in StoredRecord, tab' \in [Tabs -> TabRecord],
           calls' \in [Calls -> CallRecord], submits' \in 0..MaxSubmits
    PROVE  TypeOK'
  BY DEF TypeOK, ServerOK, StoredRecord, TabRecord, CallRecord

LEMMA NoneApart == None \notin Tabs /\ None \notin Sessions /\ None \notin Participants
  BY IdsApart

LEMMA NoCallType == NoCall \in CallRecord /\ CallTrue(NoCall) /\ NoCall.op = "none"
  BY DEF NoCall, CallRecord, CallTrue, OrNone, Ops

LEMMA ClosedType == ClosedTab \in TabRecord
  BY DEF ClosedTab, TabRecord, OrNone, Views, Screens

LEMMA ClearedType == ClearedStorage \in StoredRecord
  BY DEF ClearedStorage, StoredRecord, OrNone

\* A step that replaces one request by a true one.
LEMMA CallsStep ==
    ASSUME TypeInv, NEW c \in Calls, NEW x \in CallRecord, CallTrue(x),
           calls' = [calls EXCEPT ![c] = x], UNCHANGED member
    PROVE  calls' \in [Calls -> CallRecord] /\ CallsTrue'
<1>1. calls' \in [Calls -> CallRecord] /\ calls'[c] = x
      /\ \A d \in Calls \ {c} : calls'[d] = calls[d]
  BY TypeShape DEF TypeInv
<1>2. \A d \in Calls : CallTrue(calls[d])' <=> CallTrue(calls'[d])
  BY DEF CallTrue
<1>3. \A d \in Calls : CallTrue(calls'[d])
  BY <1>1 DEF TypeInv, CallsTrue
<1> QED
  BY <1>1, <1>2, <1>3 DEF CallsTrue

\* A step of the tabs and the storage only.
LEMMA LocalStep ==
    ASSUME TypeInv, UNCHANGED <<serverVars, calls, submits>>,
           stored' \in StoredRecord, tab' \in [Tabs -> TabRecord]
    PROVE  TypeInv'
<1>1. TypeOK'
  BY TypeShape, TypeShapeNext DEF TypeInv, serverVars, ServerOK
<1>2. CallsTrue' /\ CodesJoined'
  BY DEF TypeInv, serverVars, CallsTrue, CallTrue, CodesJoined
<1> QED
  BY <1>1, <1>2 DEF TypeInv

\* A step of one tab.
LEMMA TabStep ==
    ASSUME TypeInv, NEW t \in Tabs, NEW x \in TabRecord, tab' = [tab EXCEPT ![t] = x],
           UNCHANGED <<serverVars, calls, submits>>, stored' \in StoredRecord
    PROVE  TypeInv'
<1>1. tab' \in [Tabs -> TabRecord]
  BY TypeShape DEF TypeInv
<1> QED
  BY <1>1, LocalStep

\* A step of one request, that may also write the storage and a tab.
LEMMA RequestStep ==
    ASSUME TypeInv, NEW c \in Calls, NEW x \in CallRecord, CallTrue(x),
           calls' = [calls EXCEPT ![c] = x], UNCHANGED serverVars,
           submits' \in 0..MaxSubmits,
           stored' \in StoredRecord, tab' \in [Tabs -> TabRecord]
    PROVE  TypeInv'
<1>1. calls' \in [Calls -> CallRecord] /\ CallsTrue'
  BY CallsStep DEF serverVars
<1>2. ServerOK' /\ CodesJoined'
  BY TypeShape DEF TypeInv, serverVars, ServerOK, CodesJoined
<1> QED
  BY <1>1, <1>2, TypeShapeNext DEF TypeInv

LEMMA InitType == Init => TypeInv
<1> SUFFICES ASSUME Init PROVE TypeInv
  OBVIOUS
<1>1. TypeOK
  <2>1. session \in [Sessions -> {"unborn", "plain", "challenge", "pruned"}]
    BY DEF Init
  <2>2. member \in [Participants -> OrNone(Sessions)] /\ codes \subseteq Participants
    BY WorldAssumption DEF Init, OrNone
  <2>3. submits \in 0..MaxSubmits
    BY WorldAssumption DEF Init
  <2> QED
    BY <2>1, <2>2, <2>3, TypeShape, NoCallType, ClosedType, ClearedType DEF Init, ServerOK
<1>2. CallsTrue
  BY NoCallType DEF Init, CallsTrue
<1>3. CodesJoined
  BY WorldAssumption DEF Init, CodesJoined
<1> QED
  BY <1>1, <1>2, <1>3 DEF TypeInv

LEMMA LoadType ==
    ASSUME TypeInv, NEW t \in Tabs, Load(t), UNCHANGED submits
    PROVE  TypeInv'
<1>1. PICK link \in Links :
        tab' = [tab EXCEPT ![t] =
                  [ClosedTab EXCEPT !.screen = link.to,
                                    !.sid = IF Rehydrated THEN stored.sid ELSE None,
                                    !.pid = IF Rehydrated THEN stored.pid ELSE None,
                                    !.join = IF link.to = "setup" THEN link.id ELSE None,
                                    !.challenge = IF link.to = "challenge" THEN link.id
                                                  ELSE None]]
  BY DEF Load
<1>2. /\ link.to \in Screens
      /\ link.to \in {"setup", "challenge"} => link.id \in Sessions
  BY WorldAssumption DEF Links, Screens
<1>3. /\ stored.sid \in OrNone(Sessions) /\ stored.pid \in OrNone(Participants)
  BY TypeShape DEF TypeInv, StoredRecord
<1>4. tab' \in [Tabs -> TabRecord]
  BY <1>1, <1>2, <1>3, TypeShape DEF TypeInv, TabRecord, ClosedTab, OrNone, Views, Screens
<1>5. calls' \in [Calls -> CallRecord] /\ CallsTrue'
  <2>1. calls' = [c \in Calls |-> IF calls[c].tab = t THEN NoCall ELSE calls[c]]
        /\ member' = member
    BY DEF Load, serverVars
  <2>2. \A c \in Calls : calls'[c] \in CallRecord /\ CallTrue(calls'[c])
    BY <2>1, NoCallType, TypeShape DEF TypeInv, CallsTrue
  <2> QED
    BY <2>1, <2>2 DEF CallsTrue, CallTrue
<1>6. ServerOK' /\ CodesJoined' /\ stored' = stored
  BY TypeShape DEF TypeInv, Load, serverVars, ServerOK, CodesJoined
<1> QED
  BY <1>4, <1>5, <1>6, TypeShape, TypeShapeNext DEF TypeInv

LEMMA ShowType ==
    ASSUME TypeInv, NEW t \in Tabs, NEW screen \in Screens,
           Show(t, screen) \/ \E v \in Views : ShowAs(t, v, screen)
    PROVE  tab' \in [Tabs -> TabRecord]
  BY TypeShape DEF TypeInv, Show, ShowAs, TabRecord

LEMMA OpenType ==
    ASSUME TypeInv, NEW t \in Tabs,
           OpenDashboard(t) \/ \E s \in Sessions : OpenChallenge(t, s)
    PROVE  tab' \in [Tabs -> TabRecord]
<1>1. tab \in [Tabs -> TabRecord] /\ tab[t] \in TabRecord
  BY TypeShape DEF TypeInv
<1>2. CASE OpenDashboard(t)
  <2>1. [tab[t] EXCEPT !.screen = "dashboard", !.created = None] \in TabRecord
    BY <1>1 DEF TabRecord, OrNone, Screens
  <2>2. tab' = [tab EXCEPT ![t] = [tab[t] EXCEPT !.screen = "dashboard", !.created = None]]
    BY <1>2, <1>1 DEF OpenDashboard
  <2> QED
    BY <1>1, <2>1, <2>2
<1>3. ASSUME NEW s \in Sessions, OpenChallenge(t, s) PROVE tab' \in [Tabs -> TabRecord]
  <2> DEFINE x == [tab[t] EXCEPT !.challenge = s, !.screen = "challenge", !.created = None]
  <2>1. x \in TabRecord
    BY <1>1 DEF TabRecord, OrNone, Screens
  <2>2. tab' = [tab EXCEPT ![t] = x]
    BY <1>1, <1>3 DEF OpenChallenge
  <2> QED
    BY <1>1, <2>1, <2>2
<1> QED
  BY <1>2, <1>3

LEMMA ExitType ==
    ASSUME TypeInv, NEW t \in Tabs, Exit(t), UNCHANGED submits
    PROVE  TypeInv'
<1>1. tab' \in [Tabs -> TabRecord]
  <2> DEFINE x == [tab[t] EXCEPT !.sid = None, !.pid = None, !.join = None,
                                 !.screen = "landing"]
  <2>1. tab \in [Tabs -> TabRecord] /\ tab[t] \in TabRecord
    BY TypeShape DEF TypeInv
  <2>2. x \in TabRecord
    BY <2>1 DEF TabRecord, OrNone, Screens
  <2>3. tab' = [tab EXCEPT ![t] = x]
    BY <2>1 DEF Exit
  <2> QED
    BY <2>1, <2>2, <2>3
<1> QED
  BY <1>1, ClearedType, LocalStep DEF Exit

LEMMA CreateChallengeType ==
    ASSUME TypeInv, NEW t \in Tabs, CreateChallenge(t), UNCHANGED submits
    PROVE  TypeInv'
<1>1. PICK s \in Unborn :
        /\ session' = [session EXCEPT ![s] = "challenge"]
        /\ tab' = [tab EXCEPT ![t].created = s] \/ Show(t, "landing") \/ tab' = tab
  BY DEF CreateChallenge
<1>2. s \in Sessions
  BY DEF Unborn
<1>3. tab' \in [Tabs -> TabRecord]
  <2>1. CASE tab' = [tab EXCEPT ![t].created = s] \/ tab' = tab
    <3>1. tab \in [Tabs -> TabRecord] /\ tab[t] \in TabRecord
      BY TypeShape DEF TypeInv
    <3>2. [tab[t] EXCEPT !.created = s] \in TabRecord
      BY <1>2, <3>1 DEF TabRecord, OrNone
    <3> QED
      BY <2>1, <3>1, <3>2
  <2> QED
    BY <1>1, <2>1, ShowType DEF Screens
<1>4. ServerOK' /\ CodesJoined' /\ CallsTrue'
  BY <1>1, TypeShape DEF TypeInv, ServerOK, CodesJoined, CallsTrue, CallTrue, CreateChallenge
<1> QED
  BY <1>3, <1>4, TypeShape, TypeShapeNext DEF TypeInv, CreateChallenge

LEMMA ControlsType ==
    ASSUME TypeInv, NEW t \in Tabs, Controls(t), UNCHANGED submits
    PROVE  TypeInv'
<1> USE DEF Quiet, Screens
<1>0. stored \in StoredRecord /\ tab \in [Tabs -> TabRecord]
  BY TypeShape DEF TypeInv
<1>1. CASE Load(t)
  BY <1>1, LoadType
<1>2. CASE Landing(t)
  <2>1. Quiet
    BY <1>2 DEF Landing
  <2>2. CASE tab' = [tab EXCEPT ![t].access = None, ![t].screen = "facilitator-access"]
    <3>1. tab' \in [Tabs -> TabRecord]
      <4> DEFINE x == [tab[t] EXCEPT !.access = None, !.screen = "facilitator-access"]
      <4>1. x \in TabRecord
        BY <1>0 DEF TabRecord, OrNone
      <4>2. tab' = [tab EXCEPT ![t] = x]
        BY <1>0, <2>2
      <4> QED
        BY <1>0, <4>1, <4>2
    <3> QED
      BY <1>0, <2>1, <3>1, LocalStep
  <2>3. CASE OpenDashboard(t) \/ \E s \in Sessions : OpenChallenge(t, s)
    BY <1>0, <2>1, <2>3, OpenType, LocalStep
  <2>4. CASE \E x \in Screens : Show(t, x) \/ \E v \in Views : ShowAs(t, v, x)
    BY <1>0, <2>1, <2>4, ShowType, LocalStep
  <2> QED
    BY <1>2, <2>2, <2>3, <2>4 DEF Landing, ContinueExisting, Views
<1>3. CASE ChooseMode(t) \/ ChooseGoal(t) \/ LeaveSetup(t) \/ LeavePair(t)
           \/ LeaveDashboard(t) \/ LeaveCertificate(t)
  <2>1. Quiet /\ \E x \in Screens : Show(t, x) \/ \E v \in Views : ShowAs(t, v, x)
    BY <1>3 DEF ChooseMode, ChooseGoal, LeaveSetup, LeavePair, LeaveDashboard,
                LeaveCertificate, Views
  <2> QED
    BY <1>0, <2>1, ShowType, LocalStep
<1>4. CASE LeaveAccess(t) \/ LeaveCreate(t)
  <2>1. tab' \in [Tabs -> TabRecord]
    BY <1>0, <1>4 DEF LeaveAccess, LeaveCreate, TabRecord, OrNone
  <2> QED
    BY <1>0, <1>4, <2>1, LocalStep DEF LeaveAccess, LeaveCreate
<1>5. CASE Challenge(t)
  <2>1. tab[t].challenge \in OrNone(Sessions)
    BY <1>0 DEF TabRecord
  <2>2. tab' \in [Tabs -> TabRecord]
    BY <1>0, <1>5, <2>1 DEF Challenge, Show, TabRecord, OrNone, Views
  <2> QED
    BY <1>0, <1>5, <2>2, LocalStep DEF Challenge
<1>6. CASE StartFresh(t) \/ Exit(t)
  BY <1>6, ExitType DEF StartFresh
<1>7. CASE AppShell(t)
  BY <1>0, <1>7, ExitType, ShowType, LocalStep DEF AppShell, Views
<1>8. CASE CreateChallenge(t)
  BY <1>8, CreateChallengeType
<1>9. CASE ChallengeCreated(t)
  <2>1. tab[t].created \in Sessions
    BY <1>0, <1>9 DEF ChallengeCreated, TabRecord, OrNone
  <2>2. tab' \in [Tabs -> TabRecord]
    BY <1>9, <2>1, OpenType DEF ChallengeCreated
  <2>3. stored' \in StoredRecord
    BY <1>0, <1>9, <2>1 DEF ChallengeCreated, StoredRecord, OrNone, FacTokens
  <2> QED
    BY <1>9, <2>2, <2>3, LocalStep DEF ChallengeCreated
<1> QED
  BY <1>1, <1>2, <1>3, <1>4, <1>5, <1>6, <1>7, <1>8, <1>9 DEF Controls

LEMMA SubmitsType ==
    ASSUME TypeInv, NEW t \in Tabs, NEW c \in Calls, Submits(t, c)
    PROVE  TypeInv'
<1>0. /\ stored \in StoredRecord /\ tab \in [Tabs -> TabRecord] /\ tab[t] \in TabRecord
      /\ submits' \in 0..MaxSubmits
  BY TypeShape, WorldAssumption DEF TypeInv, Submits
<1>1. CASE Start(t, c)
  <2> DEFINE x == [NoCall EXCEPT !.op = IF tab[t].join # None THEN "join" ELSE "create",
                                 !.tab = t, !.for = tab[t].join,
                                 !.linked = tab[t].join # None]
  <2>1. tab[t].join \in OrNone(Sessions)
    BY <1>0 DEF TabRecord
  <2>2. x \in CallRecord /\ CallTrue(x)
    BY <2>1 DEF NoCall, CallRecord, CallTrue, OrNone, Ops
  <2> HIDE DEF x
  <2>3. calls' = [calls EXCEPT ![c] = x] /\ UNCHANGED serverVars
        /\ stored' \in StoredRecord /\ tab' \in [Tabs -> TabRecord]
    BY <1>0, <1>1, ClearedType DEF Start, x
  <2> QED
    BY <1>0, <2>2, <2>3, RequestStep
<1>2. CASE SubmitCode(t, c)
  <2> DEFINE x == [NoCall EXCEPT !.op = "redeem", !.tab = t]
  <2>1. x \in CallRecord /\ CallTrue(x)
    BY DEF NoCall, CallRecord, CallTrue, OrNone, Ops
  <2> HIDE DEF x
  <2> QED
    BY <1>0, <1>2, <2>1, RequestStep DEF SubmitCode, x
<1>3. CASE SubmitToken(t, c)
  <2>1. PICK token \in (IF tab[t].access # None THEN {tab[t].access} ELSE Live) \cup {Typo} :
          LET call == [NoCall EXCEPT !.op = "probe", !.tab = t, !.token = token,
                                     !.prev = stored.fac]
          IN  \/ SwapIn(c, call)
              \/ /\ calls' = [calls EXCEPT ![c] = call]
                 /\ UNCHANGED stored
    BY <1>3 DEF SubmitToken
  <2> DEFINE x == [NoCall EXCEPT !.op = "probe", !.tab = t, !.token = token,
                                 !.prev = stored.fac]
             y == [x EXCEPT !.op = "access", !.ans = "waiting"]
  <2>2. token \in FacTokens /\ stored.fac \in OrNone(FacTokens)
    BY <1>0 DEF TabRecord, StoredRecord, OrNone, Live, FacTokens
  <2>3. x \in CallRecord /\ CallTrue(x) /\ x.token = token
    BY <2>2 DEF NoCall, CallRecord, CallTrue, OrNone, Ops
  <2>4. y \in CallRecord /\ CallTrue(y)
    BY <2>2 DEF NoCall, CallRecord, CallTrue, OrNone, Ops
  <2> HIDE DEF x, y
  <2>5. [stored EXCEPT !.fac = token] \in StoredRecord
    BY <1>0, <2>2 DEF StoredRecord, OrNone
  <2>6. \/ calls' = [calls EXCEPT ![c] = y] /\ stored' = [stored EXCEPT !.fac = token]
        \/ calls' = [calls EXCEPT ![c] = x] /\ stored' = stored
    BY <2>1, <2>3 DEF SwapIn, x, y
  <2>7. UNCHANGED serverVars /\ tab' = tab
    BY <1>3 DEF SubmitToken
  <2> QED
    BY <1>0, <2>3, <2>4, <2>5, <2>6, <2>7, RequestStep
<1> QED
  BY <1>1, <1>2, <1>3 DEF Submits

LEMMA AnswerType ==
    ASSUME TypeInv, NEW c \in Calls, Answer(c), UNCHANGED submits
    PROVE  TypeInv'
<1> DEFINE t == calls[c].tab
           got == calls[c].got
<1>0. /\ stored \in StoredRecord /\ tab \in [Tabs -> TabRecord]
      /\ calls[c] \in CallRecord /\ CallTrue(calls[c])
      /\ submits' \in 0..MaxSubmits
  BY TypeShape DEF TypeInv, CallsTrue
<1>1. /\ calls[c].op # "none" /\ UNCHANGED serverVars
      /\ t \in Tabs /\ tab[t] \in TabRecord
  <2>1. calls[c].op # "none"
    BY DEF Answer, Answered, CreateAnswered, JoinAnswered, StartFailed, Paired, CodeFailed,
           Probed, Opened, Refused
  <2>2. UNCHANGED serverVars
    BY DEF Answer, CreateAnswered, JoinAnswered, StartFailed, Paired, CodeFailed,
           Probed, Opened, Refused
  <2> QED
    BY <1>0, <2>1, <2>2 DEF CallTrue
<1>2. CASE CreateAnswered(c)
  <2> DEFINE x == [NoCall EXCEPT !.op = "join", !.tab = t, !.for = got]
  <2>1. got \in Sessions
    BY <1>0, <1>2 DEF CreateAnswered, Answered, CallTrue
  <2>2. x \in CallRecord /\ CallTrue(x)
    BY <1>1, <2>1 DEF NoCall, CallRecord, CallTrue, OrNone, Ops
  <2>3. [stored EXCEPT !.fac = got] \in StoredRecord
    BY <1>0, <2>1 DEF StoredRecord, OrNone, FacTokens
  <2>4. /\ calls' = [calls EXCEPT ![c] = x]
        /\ stored' = [stored EXCEPT !.fac = got] /\ tab' = tab
    BY <1>2 DEF CreateAnswered
  <2> HIDE DEF x
  <2> QED
    BY <1>0, <1>1, <2>2, <2>3, <2>4, RequestStep
<1>3. CASE JoinAnswered(c)
  <2> DEFINE s == calls[c].for
             x == [tab[t] EXCEPT !.sid = s, !.pid = got, !.screen = "app", !.created = None]
  <2>1. got \in Participants /\ s \in Sessions
    BY <1>0, <1>3 DEF JoinAnswered, Answered, CallTrue
  <2>2. x \in TabRecord
    BY <1>1, <2>1 DEF TabRecord, OrNone, Screens
  <2>3. [stored EXCEPT !.auth = got, !.sid = s, !.pid = got] \in StoredRecord
    BY <1>0, <2>1 DEF StoredRecord, OrNone
  <2>4. /\ calls' = [calls EXCEPT ![c] = NoCall]
        /\ stored' = [stored EXCEPT !.auth = got, !.sid = s, !.pid = got]
        /\ tab' = [tab EXCEPT ![t] = x]
    BY <1>0, <1>1, <1>3 DEF JoinAnswered
  <2> HIDE DEF x
  <2>5. tab' \in [Tabs -> TabRecord]
    BY <1>0, <2>2, <2>4
  <2> QED
    BY <1>0, <1>1, <2>3, <2>4, <2>5, NoCallType, RequestStep
<1>4. CASE StartFailed(c)
  <2> DEFINE x == [tab[t] EXCEPT !.screen = "session-not-found", !.created = None]
  <2>1. x \in TabRecord
    BY <1>1 DEF TabRecord, OrNone, Screens
  <2>2. tab' = tab \/ tab' = [tab EXCEPT ![t] = x]
    BY <1>0, <1>1, <1>4 DEF StartFailed
  <2> HIDE DEF x
  <2>3. tab' \in [Tabs -> TabRecord]
    BY <1>0, <2>1, <2>2
  <2> QED
    BY <1>0, <1>1, <1>4, <2>3, NoCallType, RequestStep DEF StartFailed
<1>5. CASE Paired(c)
  <2> DEFINE x == [tab[t] EXCEPT !.sid = member[got], !.pid = got, !.view = "learner",
                                 !.screen = "app", !.created = None]
  <2>1. got \in Participants /\ member[got] \in Sessions
    BY <1>0, <1>5 DEF Paired, Answered, CallTrue
  <2>2. x \in TabRecord
    BY <1>1, <2>1 DEF TabRecord, OrNone, Screens, Views
  <2>3. [stored EXCEPT !.auth = got, !.sid = member[got], !.pid = got] \in StoredRecord
    BY <1>0, <2>1 DEF StoredRecord, OrNone
  <2>4. /\ calls' = [calls EXCEPT ![c] = NoCall]
        /\ stored' = [stored EXCEPT !.auth = got, !.sid = member[got], !.pid = got]
        /\ tab' = [tab EXCEPT ![t] = x]
    BY <1>0, <1>1, <1>5 DEF Paired, OnPaired
  <2> HIDE DEF x
  <2>5. tab' \in [Tabs -> TabRecord]
    BY <1>0, <2>2, <2>4
  <2> QED
    BY <1>0, <1>1, <2>3, <2>4, <2>5, NoCallType, RequestStep
<1>6. CASE CodeFailed(c)
  BY <1>0, <1>1, <1>6, NoCallType, RequestStep DEF CodeFailed
<1>7. CASE Probed(c)
  <2> DEFINE x == [calls[c] EXCEPT !.op = "access", !.ans = "waiting"]
  <2>1. x \in CallRecord /\ CallTrue(x)
    BY <1>0, <1>1 DEF CallRecord, CallTrue, Ops
  <2>2. [stored EXCEPT !.fac = calls[c].token] \in StoredRecord
    BY <1>0 DEF StoredRecord, CallRecord
  <2>3. /\ calls' = [calls EXCEPT ![c] = x] /\ tab' = tab
        /\ stored' = [stored EXCEPT !.fac = calls[c].token]
    BY <1>7 DEF Probed, SwapIn
  <2> HIDE DEF x
  <2> QED
    BY <1>0, <1>1, <2>1, <2>2, <2>3, RequestStep
<1>8. CASE Opened(c)
  <2>1. tab' \in [Tabs -> TabRecord]
    BY <1>1, <1>8, OpenType DEF Opened
  <2> QED
    BY <1>0, <1>1, <1>8, <2>1, NoCallType, RequestStep DEF Opened
<1>9. CASE Refused(c)
  <2>1. [stored EXCEPT !.fac = calls[c].prev] \in StoredRecord
    BY <1>0 DEF StoredRecord, CallRecord
  <2> QED
    BY <1>0, <1>1, <1>9, <2>1, NoCallType, RequestStep DEF Refused
<1> QED
  BY <1>2, <1>3, <1>4, <1>5, <1>6, <1>7, <1>8, <1>9 DEF Answer

\* An answer leaves the rest of the request as it was.
LEMMA ReplyType ==
    ASSUME TypeInv, NEW c \in Calls, NEW ans \in {"waiting", "ok", "refused", "lost"},
           NEW got \in OrNone(Sessions \cup Participants)
    PROVE  [calls[c] EXCEPT !.ans = ans, !.got = got] \in CallRecord
<1>1. calls[c] \in CallRecord
  BY TypeShape DEF TypeInv
<1> QED
  BY <1>1 DEF CallRecord

\* Whoever joined has joined for good: a new member is one that no answer names yet.
LEMMA MemberStep ==
    ASSUME TypeInv, NEW p \in Fresh, NEW s \in Sessions,
           member' = [member EXCEPT ![p] = s]
    PROVE  /\ member' \in [Participants -> OrNone(Sessions)] /\ p \in Participants
           /\ member'[p] = s
           /\ \A q \in Participants : member[q] # None => member'[q] = member[q]
           /\ \A x \in CallRecord : CallTrue(x) => CallTrue(x)'
           /\ \A q \in codes : member'[q] \in Sessions
<1>1. p \in Participants /\ member[p] = None
  BY DEF Fresh
<1>2. member \in [Participants -> OrNone(Sessions)] /\ codes \subseteq Participants
  BY TypeShape DEF TypeInv, ServerOK
<1>3. /\ member' \in [Participants -> OrNone(Sessions)] /\ member'[p] = s
      /\ \A q \in Participants : member[q] # None => member'[q] = member[q]
  BY <1>1, <1>2 DEF OrNone
<1>4. \A q \in codes : member'[q] \in Sessions
  BY <1>2, <1>3, NoneApart DEF TypeInv, CodesJoined
<1>5. ASSUME NEW x \in CallRecord, CallTrue(x) PROVE CallTrue(x)'
  <2>1. ASSUME x.ans = "ok", x.op \in {"join", "redeem"}
        PROVE  x.got \in Participants /\ member'[x.got] = member[x.got]
    BY <1>3, <1>5, <2>1, NoneApart DEF CallTrue
  <2> QED
    BY <1>5, <2>1 DEF CallTrue
<1> QED
  BY <1>1, <1>3, <1>4, <1>5

LEMMA ServeType ==
    ASSUME TypeInv, NEW c \in Calls, Serve(c), UNCHANGED submits
    PROVE  TypeInv'
<1>0. /\ stored \in StoredRecord /\ tab \in [Tabs -> TabRecord] /\ ServerOK
      /\ calls \in [Calls -> CallRecord] /\ calls[c] \in CallRecord
      /\ CallTrue(calls[c]) /\ submits' \in 0..MaxSubmits
      /\ UNCHANGED <<stored, tab>>
  BY TypeShape DEF TypeInv, CallsTrue, Serve, ServeCreate, ServeJoin, ServeRedeem, ServeRead,
                   Lose
<1>1. CASE ServeCreate(c)
  <2>1. PICK s \in Unborn : session' = [session EXCEPT ![s] = "plain"] /\ Reply(c, "ok", s)
    BY <1>1 DEF ServeCreate
  <2> DEFINE x == [calls[c] EXCEPT !.ans = "ok", !.got = s]
  <2>2. s \in Sessions
    BY DEF Unborn
  <2>3. x \in CallRecord
    BY <2>2, ReplyType DEF OrNone
  <2>4. CallTrue(x)
    BY <1>0, <1>1, <2>2 DEF CallTrue, ServeCreate, Waiting, Answered, CallRecord
  <2>5. calls' = [calls EXCEPT ![c] = x]
    BY <1>0, <2>1 DEF Reply
  <2> HIDE DEF x
  <2>6. calls' \in [Calls -> CallRecord] /\ CallsTrue'
    BY <1>1, <2>3, <2>4, <2>5, CallsStep DEF ServeCreate
  <2>7. ServerOK' /\ CodesJoined'
    BY <1>0, <1>1, <2>1 DEF TypeInv, ServerOK, CodesJoined, ServeCreate
  <2> QED
    BY <1>0, <2>6, <2>7, TypeShapeNext DEF TypeInv
<1>2. CASE ServeJoin(c) /\ calls[c].for \in Live
  <2>1. PICK p \in Fresh : member' = [member EXCEPT ![p] = calls[c].for] /\ Reply(c, "ok", p)
    BY <1>2 DEF ServeJoin
  <2> DEFINE x == [calls[c] EXCEPT !.ans = "ok", !.got = p]
  <2>2. calls[c].for \in Sessions
    BY <1>2 DEF Live
  <2>3. /\ member' \in [Participants -> OrNone(Sessions)] /\ p \in Participants
        /\ member'[p] = calls[c].for
        /\ \A y \in CallRecord : CallTrue(y) => CallTrue(y)'
        /\ \A q \in codes : member'[q] \in Sessions
    BY <2>1, <2>2, MemberStep
  <2>4. x \in CallRecord
    BY <2>3, ReplyType DEF OrNone
  <2>5. x.op = "join" /\ x.tab = calls[c].tab /\ x.got = p /\ x.for = calls[c].for
    BY <1>0, <1>2 DEF ServeJoin, Waiting, Answered, CallRecord
  <2>6. calls' = [calls EXCEPT ![c] = x]
    BY <1>0, <2>1 DEF Reply
  <2>8. CallTrue(calls[c])'
    <3>1. calls'[c] = x /\ x.tab \in Tabs
      BY <1>0, <1>2, <2>5, <2>6 DEF CallTrue, ServeJoin, Waiting, Answered
    <3> HIDE DEF x
    <3> QED
      BY <2>2, <2>3, <2>5, <3>1 DEF CallTrue
  <2> HIDE DEF x
  <2>9. \A d \in Calls : CallTrue(calls[d])'
    <3> SUFFICES ASSUME NEW d \in Calls, d # c PROVE CallTrue(calls[d])'
      BY <2>8
    <3>1. calls'[d] = calls[d] /\ calls[d] \in CallRecord /\ CallTrue(calls[d])
      BY <1>0, <2>6 DEF TypeInv, CallsTrue
    <3> QED
      BY <2>3, <3>1 DEF CallTrue
  <2>10. calls' \in [Calls -> CallRecord]
    BY <1>0, <2>4, <2>6
  <2>11. session' = session /\ codes' = codes
    BY <1>2 DEF ServeJoin
  <2>12. ServerOK' /\ CodesJoined'
    BY <1>0, <2>3, <2>11 DEF ServerOK, CodesJoined
  <2> QED
    BY <1>0, <2>9, <2>10, <2>12, TypeShapeNext DEF TypeInv, CallsTrue
<1>3. ASSUME NEW ans \in {"refused", "lost", "ok"}, UNCHANGED serverVars,
             calls' = [calls EXCEPT ![c].ans = ans, ![c].got = None],
             ans = "ok" => calls[c].op \in {"probe", "access"}
      PROVE  TypeInv'
  <2> DEFINE x == [calls[c] EXCEPT !.ans = ans, !.got = None]
  <2>1. x \in CallRecord
    BY ReplyType DEF OrNone
  <2>2. CallTrue(x)
    BY <1>0, <1>3 DEF CallTrue, CallRecord
  <2>3. calls' = [calls EXCEPT ![c] = x]
    BY <1>0, <1>3
  <2> HIDE DEF x
  <2> QED
    BY <1>0, <1>3, <2>1, <2>2, <2>3, RequestStep
<1>4. CASE ServeJoin(c) /\ calls[c].for \notin Live
  BY <1>3, <1>4 DEF ServeJoin, Reply, serverVars
<1>5. CASE ServeRedeem(c)
  <2>1. CASE Reply(c, "refused", None) /\ UNCHANGED codes
    BY <1>3, <1>5, <2>1 DEF ServeRedeem, Reply, serverVars
  <2>2. ASSUME NEW p \in codes, codes' = codes \ {p}, Reply(c, "ok", p) PROVE TypeInv'
    <3> DEFINE x == [calls[c] EXCEPT !.ans = "ok", !.got = p]
    <3>1. p \in Participants /\ member[p] \in Sessions
      BY <1>0 DEF TypeInv, CodesJoined, ServerOK
    <3>2. x \in CallRecord
      BY <3>1, ReplyType DEF OrNone
    <3>3. CallTrue(x)
      BY <1>0, <1>5, <3>1 DEF CallTrue, CallRecord, ServeRedeem, Waiting, Answered
    <3>4. calls' = [calls EXCEPT ![c] = x]
      BY <1>0, <2>2 DEF Reply
    <3> HIDE DEF x
    <3>5. calls' \in [Calls -> CallRecord] /\ CallsTrue'
      BY <1>5, <3>2, <3>3, <3>4, CallsStep DEF ServeRedeem
    <3>6. ServerOK' /\ CodesJoined'
      BY <1>0, <1>5, <2>2 DEF TypeInv, ServerOK, CodesJoined, ServeRedeem
    <3> QED
      BY <1>0, <3>5, <3>6, TypeShapeNext DEF TypeInv
  <2> QED
    BY <1>5, <2>1, <2>2 DEF ServeRedeem
<1>6. CASE ServeRead(c)
  BY <1>3, <1>6 DEF ServeRead, Reply, Waiting, Answered
<1>7. CASE Lose(c)
  <2> DEFINE x == [calls[c] EXCEPT !.ans = "lost"]
  <2>1. x \in CallRecord /\ CallTrue(x)
    BY <1>0 DEF CallTrue, CallRecord
  <2>2. calls' = [calls EXCEPT ![c] = x]
    BY <1>0, <1>7 DEF Lose
  <2> HIDE DEF x
  <2> QED
    BY <1>0, <1>7, <2>1, <2>2, RequestStep DEF Lose
<1> QED
  BY <1>1, <1>2, <1>4, <1>5, <1>6, <1>7 DEF Serve, ServeJoin

LEMMA PruneType ==
    ASSUME TypeInv, NEW s \in Sessions, Prune(s), UNCHANGED submits
    PROVE  TypeInv'
<1>1. ServerOK' /\ CodesJoined'
  BY TypeShape DEF TypeInv, ServerOK, CodesJoined, Prune
<1>2. CallsTrue'
  BY DEF TypeInv, CallsTrue, CallTrue, Prune
<1> QED
  BY <1>1, <1>2, TypeShape, TypeShapeNext DEF TypeInv, Prune

LEMMA TypeStep == TypeInv /\ [Next]_vars => TypeInv'
<1> SUFFICES ASSUME TypeInv, [Next]_vars PROVE TypeInv'
  OBVIOUS
<1>1. CASE UNCHANGED vars
  <2>1. UNCHANGED <<serverVars, stored, tab, calls, submits>>
    BY <1>1 DEF vars, serverVars
  <2> QED
    BY <2>1, TypeShape, LocalStep DEF TypeInv
<1> QED
  BY <1>1, SubmitsType, ControlsType, ServeType, AnswerType, PruneType DEF Next

\* Every variable keeps its type, whatever is lost, late, repeated or reloaded.
THEOREM TypeCorrect == Spec => []TypeOK
<1>1. TypeInv => TypeOK
  BY DEF TypeInv
<1> QED
  BY <1>1, InitType, TypeStep, PTL DEF Spec

-----------------------------------------------------------------------------
(* No screen without what it shows *)

FullRow(x) ==
    /\ x.screen = "app" => x.sid # None /\ x.pid # None
    /\ x.screen = "challenge" => x.challenge # None

LEMMA FullRows == NeverBlank <=> \A t \in Tabs : FullRow(tab[t])
  BY DEF NeverBlank, FullRow, At, HasResumable

\* A step of one tab, to a full row.
LEMMA RowStep ==
    ASSUME TypeInv, NeverBlank, NEW t \in Tabs, NEW x, FullRow(x),
           tab' = [tab EXCEPT ![t] = x]
    PROVE  NeverBlank'
<1>1. \A u \in Tabs : tab'[u] = IF u = t THEN x ELSE tab[u]
  BY TypeShape DEF TypeInv
<1>2. \A u \in Tabs : FullRow(tab'[u])
  BY <1>1, FullRows
<1> QED
  BY <1>2 DEF NeverBlank, FullRow, At, HasResumable

LEMMA ControlsBlank ==
    ASSUME TypeInv, NeverBlank, NEW t \in Tabs, Controls(t)
    PROVE  NeverBlank'
<1>0. tab \in [Tabs -> TabRecord] /\ tab[t] \in TabRecord /\ FullRow(tab[t])
  BY TypeShape, FullRows DEF TypeInv
<1> USE <1>0
<1>1. ASSUME NEW screen \in Screens,
             Show(t, screen) \/ \E v \in Views : ShowAs(t, v, screen),
             screen = "app" => HasResumable(t), screen # "challenge" \/ tab[t].challenge # None
      PROVE  NeverBlank'
  <2>1. CASE Show(t, screen)
    <3>1. tab' = [tab EXCEPT ![t] = [tab[t] EXCEPT !.screen = screen]]
      BY <2>1 DEF Show
    <3>2. FullRow([tab[t] EXCEPT !.screen = screen])
      BY <1>1 DEF FullRow, TabRecord, HasResumable
    <3> QED
      BY <3>1, <3>2, RowStep
  <2>2. ASSUME NEW v \in Views, ShowAs(t, v, screen) PROVE NeverBlank'
    <3>1. tab' = [tab EXCEPT ![t] = [tab[t] EXCEPT !.screen = screen, !.view = v]]
      BY <2>2 DEF ShowAs
    <3>2. FullRow([tab[t] EXCEPT !.screen = screen, !.view = v])
      BY <1>1 DEF FullRow, TabRecord, HasResumable
    <3> QED
      BY <3>1, <3>2, RowStep
  <2> QED
    BY <1>1, <2>1, <2>2
<1>2. ASSUME \E s \in Sessions : OpenChallenge(t, s) PROVE NeverBlank'
  <2>1. PICK s \in Sessions :
          tab' = [tab EXCEPT ![t] = [tab[t] EXCEPT !.challenge = s, !.screen = "challenge",
                                                   !.created = None]]
    BY <1>2 DEF OpenChallenge
  <2>2. FullRow([tab[t] EXCEPT !.challenge = s, !.screen = "challenge", !.created = None])
    BY NoneApart DEF FullRow, TabRecord
  <2> QED
    BY <2>1, <2>2, RowStep
<1>3. ASSUME OpenDashboard(t) PROVE NeverBlank'
  <2>1. FullRow([tab[t] EXCEPT !.screen = "dashboard", !.created = None])
    BY DEF FullRow, TabRecord
  <2>2. tab' = [tab EXCEPT ![t] = [tab[t] EXCEPT !.screen = "dashboard", !.created = None]]
    BY <1>3 DEF OpenDashboard
  <2> QED
    BY <2>1, <2>2, RowStep
<1>4. ASSUME Exit(t) PROVE NeverBlank'
  <2> DEFINE x == [tab[t] EXCEPT !.sid = None, !.pid = None, !.join = None,
                                 !.screen = "landing"]
  <2>1. FullRow(x)
    BY DEF FullRow, TabRecord
  <2>2. tab' = [tab EXCEPT ![t] = x]
    BY <1>4 DEF Exit
  <2> QED
    BY <2>1, <2>2, RowStep
<1>5. CASE Load(t)
  <2>1. PICK link \in Links :
          tab' = [tab EXCEPT ![t] =
                    [ClosedTab EXCEPT !.screen = link.to,
                                      !.sid = IF Rehydrated THEN stored.sid ELSE None,
                                      !.pid = IF Rehydrated THEN stored.pid ELSE None,
                                      !.join = IF link.to = "setup" THEN link.id ELSE None,
                                      !.challenge = IF link.to = "challenge" THEN link.id
                                                    ELSE None]]
    BY <1>5 DEF Load
  <2> DEFINE x == [ClosedTab EXCEPT !.screen = link.to,
                                    !.sid = IF Rehydrated THEN stored.sid ELSE None,
                                    !.pid = IF Rehydrated THEN stored.pid ELSE None,
                                    !.join = IF link.to = "setup" THEN link.id ELSE None,
                                    !.challenge = IF link.to = "challenge" THEN link.id
                                                  ELSE None]
  <2>2. link.to # "app" /\ (link.to = "challenge" => link.id # None)
    BY NoneApart DEF Links
  <2>3. FullRow(x)
    BY <2>2 DEF FullRow, ClosedTab
  <2> QED
    BY <2>1, <2>3, RowStep
<1>6. CASE Landing(t)
  <2>1. CASE tab' = [tab EXCEPT ![t].access = None, ![t].screen = "facilitator-access"]
    <3>1. FullRow([tab[t] EXCEPT !.access = None, !.screen = "facilitator-access"])
      BY DEF FullRow, TabRecord
    <3>2. tab' = [tab EXCEPT ![t] = [tab[t] EXCEPT !.access = None,
                                                   !.screen = "facilitator-access"]]
      BY <2>1
    <3> QED
      BY <3>1, <3>2, RowStep
  <2> QED
    BY <1>1, <1>2, <1>6, <2>1 DEF Landing, ContinueExisting, Views, Screens
<1>7. CASE ChooseMode(t) \/ ChooseGoal(t) \/ LeaveSetup(t) \/ LeavePair(t)
           \/ LeaveDashboard(t) \/ LeaveCertificate(t)
  BY <1>1, <1>7 DEF ChooseMode, ChooseGoal, LeaveSetup, LeavePair, LeaveDashboard,
                    LeaveCertificate, Views, Screens
<1>8. CASE LeaveAccess(t)
  <2> DEFINE x == [tab[t] EXCEPT !.access = None,
                     !.screen = IF tab[t].access # None /\ tab[t].challenge # None
                                THEN "challenge" ELSE "landing"]
  <2>1. FullRow(x)
    BY DEF FullRow, TabRecord
  <2>2. tab' = [tab EXCEPT ![t] = x]
    BY <1>8 DEF LeaveAccess
  <2> QED
    BY <2>1, <2>2, RowStep
<1>9. CASE LeaveCreate(t)
  <2>1. FullRow([tab[t] EXCEPT !.screen = "landing", !.created = None])
    BY DEF FullRow, TabRecord
  <2>2. tab' = [tab EXCEPT ![t] = [tab[t] EXCEPT !.screen = "landing", !.created = None]]
    BY <1>9 DEF LeaveCreate
  <2> QED
    BY <2>1, <2>2, RowStep
<1>10. CASE Challenge(t)
  <2> DEFINE x == [tab[t] EXCEPT !.join = tab[t].challenge, !.view = "learner",
                                 !.screen = "setup"]
             y == [tab[t] EXCEPT !.access = tab[t].challenge,
                                 !.screen = "facilitator-access"]
  <2>1. FullRow(x) /\ FullRow(y)
    BY DEF FullRow, TabRecord
  <2>2. Show(t, "landing") \/ tab' = [tab EXCEPT ![t] = x] \/ tab' = [tab EXCEPT ![t] = y]
    BY <1>10 DEF Challenge
  <2> QED
    BY <1>1, <2>1, <2>2, RowStep DEF Screens
<1>11. CASE StartFresh(t)
  BY <1>4, <1>11 DEF StartFresh
<1>12. CASE AppShell(t)
  BY <1>1, <1>4, <1>12, FullRows DEF AppShell, Screens, Views, FullRow, At, HasResumable
<1>13. CASE CreateChallenge(t)
  <2>1. ASSUME NEW s \in Unborn, tab' = [tab EXCEPT ![t].created = s] PROVE NeverBlank'
    <3>1. FullRow([tab[t] EXCEPT !.created = s])
      BY DEF FullRow, TabRecord
    <3>2. tab' = [tab EXCEPT ![t] = [tab[t] EXCEPT !.created = s]]
      BY <2>1
    <3> QED
      BY <3>1, <3>2, RowStep
  <2>2. CASE tab' = tab
    BY <2>2 DEF NeverBlank, At, HasResumable
  <2> QED
    BY <1>1, <1>13, <2>1, <2>2 DEF CreateChallenge, Screens
<1>14. CASE ChallengeCreated(t)
  <2>1. tab[t].created \in Sessions
    BY <1>14 DEF ChallengeCreated, TabRecord, OrNone
  <2> QED
    BY <1>2, <1>3, <1>14, <2>1 DEF ChallengeCreated
<1> QED
  BY <1>5, <1>6, <1>7, <1>8, <1>9, <1>10, <1>11, <1>12, <1>13, <1>14 DEF Controls

LEMMA AnswerBlank ==
    ASSUME TypeInv, NeverBlank, NEW c \in Calls, Answer(c)
    PROVE  NeverBlank'
<1> DEFINE t == calls[c].tab
           got == calls[c].got
<1>0. CallTrue(calls[c]) /\ tab \in [Tabs -> TabRecord]
  BY TypeShape DEF TypeInv, CallsTrue
<1>1. CASE tab' = tab
  BY <1>1 DEF NeverBlank, At, HasResumable
<1>2. CASE JoinAnswered(c)
  <2> DEFINE x == [tab[t] EXCEPT !.sid = calls[c].for, !.pid = got, !.screen = "app",
                                 !.created = None]
  <2>1. t \in Tabs /\ got \in Participants /\ calls[c].for \in Sessions
    BY <1>0, <1>2 DEF JoinAnswered, Answered, CallTrue
  <2>2. FullRow(x)
    BY <1>0, <2>1, NoneApart DEF FullRow, TabRecord
  <2>3. tab' = [tab EXCEPT ![t] = x]
    BY <1>0, <1>2, <2>1 DEF JoinAnswered
  <2> QED
    BY <2>1, <2>2, <2>3, RowStep
<1>3. CASE StartFailed(c)
  <2> DEFINE x == [tab[t] EXCEPT !.screen = "session-not-found", !.created = None]
  <2>1. t \in Tabs
    BY <1>0, <1>3 DEF StartFailed, CallTrue
  <2>2. FullRow(x)
    BY <1>0, <2>1 DEF FullRow, TabRecord
  <2>3. tab' = tab \/ tab' = [tab EXCEPT ![t] = x]
    BY <1>0, <1>3, <2>1 DEF StartFailed
  <2> QED
    BY <1>1, <2>1, <2>2, <2>3, RowStep
<1>4. CASE Paired(c)
  <2> DEFINE x == [tab[t] EXCEPT !.sid = member[got], !.pid = got, !.view = "learner",
                                 !.screen = "app", !.created = None]
  <2>1. t \in Tabs /\ got \in Participants /\ member[got] \in Sessions
    BY <1>0, <1>4 DEF Paired, Answered, CallTrue
  <2>2. FullRow(x)
    BY <1>0, <2>1, NoneApart DEF FullRow, TabRecord
  <2>3. tab' = [tab EXCEPT ![t] = x]
    BY <1>0, <1>4, <2>1 DEF Paired, OnPaired
  <2> QED
    BY <2>1, <2>2, <2>3, RowStep
<1>5. CASE Opened(c)
  <2> DEFINE x == [tab[t] EXCEPT !.screen = "dashboard", !.created = None]
  <2>1. t \in Tabs
    BY <1>0, <1>5 DEF Opened, Answered, CallTrue
  <2>2. FullRow(x)
    BY <1>0, <2>1 DEF FullRow, TabRecord
  <2>3. tab' = [tab EXCEPT ![t] = x]
    BY <1>0, <1>5, <2>1 DEF Opened, OpenDashboard
  <2> QED
    BY <2>1, <2>2, <2>3, RowStep
<1>6. CASE CreateAnswered(c) \/ CodeFailed(c) \/ Probed(c) \/ Refused(c)
  BY <1>1, <1>6 DEF CreateAnswered, CodeFailed, Probed, Refused
<1> QED
  BY <1>2, <1>3, <1>4, <1>5, <1>6 DEF Answer

LEMMA BlankStep == TypeInv /\ NeverBlank /\ [Next]_vars => NeverBlank'
<1> SUFFICES ASSUME TypeInv, NeverBlank, [Next]_vars PROVE NeverBlank'
  OBVIOUS
<1>1. CASE tab' = tab
  BY <1>1 DEF NeverBlank, At, HasResumable
<1>2. ASSUME NEW t \in Tabs, NEW c \in Calls, Submits(t, c) PROVE NeverBlank'
  BY <1>1, <1>2 DEF Submits, Start, SubmitCode, SubmitToken
<1>3. ASSUME NEW c \in Calls, Serve(c) PROVE NeverBlank'
  BY <1>1, <1>3 DEF Serve, ServeCreate, ServeJoin, ServeRedeem, ServeRead, Lose
<1>4. ASSUME NEW s \in Sessions, Prune(s) PROVE NeverBlank'
  BY <1>1, <1>4 DEF Prune
<1>5. CASE UNCHANGED vars
  BY <1>1, <1>5 DEF vars
<1> QED
  BY <1>2, <1>3, <1>4, <1>5, ControlsBlank, AnswerBlank DEF Next

\* No order of late answers, exits and reloads leaves a screen without what it shows.
THEOREM ScreensFilled == Spec => []NeverBlank
<1>1. Init => NeverBlank
  BY DEF Init, NeverBlank, At, ClosedTab
<1> QED
  BY <1>1, InitType, TypeStep, BlankStep, PTL DEF Spec

-----------------------------------------------------------------------------
(* What is stored, and what acts                                             *)

\* A participant whose token is stored has joined, so no later join can name them.
StoredInv == StoredTogether /\ (stored.auth # None => stored.sid \in Sessions)

SameIds == stored'.auth = stored.auth /\ stored'.sid = stored.sid /\ stored'.pid = stored.pid

\* A step that brings no participant: the ids are kept or forgotten, and a page shows the
\* participant it showed, none, or the one that is stored.
Plain ==
    /\ \A p \in Participants : member[p] # None => member'[p] = member[p]
    /\ SameIds \/ stored' = ClearedStorage
    /\ \A u \in Tabs :
        /\ tab'[u].screen = "closed" => tab[u].screen = "closed"
        /\ \/ tab'[u].pid \in {None, tab[u].pid}
           \/ Rehydrated /\ tab'[u].pid = stored.pid

LEMMA PlainStep ==
    ASSUME TypeInv, StoredInv, ActsAsShown, Plain
    PROVE  StoredInv' /\ ActsAsShown'
<1>1. StoredInv'
  <2>1. CASE stored' = ClearedStorage
    BY <2>1 DEF StoredInv, StoredTogether, ClearedStorage
  <2>2. CASE SameIds
    <3>1. stored \in StoredRecord
      BY TypeShape DEF TypeInv
    <3>2. stored.auth # None => /\ stored.pid \in Participants /\ stored.pid = stored.auth
                                /\ stored.sid = member[stored.pid]
                                /\ member'[stored.pid] = member[stored.pid]
      BY <3>1, NoneApart DEF StoredRecord, OrNone, StoredInv, StoredTogether, Plain
    <3> QED
      BY <2>2, <3>2 DEF StoredInv, StoredTogether, SameIds
  <2> QED
    BY <2>1, <2>2 DEF Plain
<1>2. ActsAsShown'
  <2> SUFFICES ASSUME NEW t \in Tabs,
                      \A u \in Tabs \ {t} : tab'[u].screen = "closed",
                      stored'.auth # None, tab'[t].pid # None
               PROVE  stored'.auth = tab'[t].pid
    BY DEF ActsAsShown, At
  <2>1. stored'.auth = stored.auth
    BY DEF Plain, SameIds, ClearedStorage
  <2>2. stored.auth # None /\ \A u \in Tabs \ {t} : At(u, "closed")
    BY <2>1 DEF Plain, At
  <2>3. CASE tab'[t].pid = tab[t].pid
    BY <2>1, <2>2, <2>3 DEF ActsAsShown
  <2>4. CASE tab'[t].pid = stored.pid
    BY <2>1, <2>2, <2>4 DEF StoredInv, StoredTogether
  <2> QED
    BY <2>3, <2>4 DEF Plain
<1> QED
  BY <1>1, <1>2

\* A step of one tab that keeps or forgets the ids.
LEMMA PlainTab ==
    ASSUME TypeInv, NEW t \in Tabs, NEW x, tab' = [tab EXCEPT ![t] = x],
           UNCHANGED member, SameIds \/ stored' = ClearedStorage,
           x.screen = "closed" => tab[t].screen = "closed",
           x.pid \in {None, tab[t].pid} \/ (Rehydrated /\ x.pid = stored.pid)
    PROVE  Plain
<1>1. \A u \in Tabs : tab'[u] = IF u = t THEN x ELSE tab[u]
  BY TypeShape DEF TypeInv
<1> QED
  BY <1>1 DEF Plain

LEMMA ControlsPlain ==
    ASSUME TypeInv, NEW t \in Tabs, Controls(t)
    PROVE  Plain
<1>0. tab \in [Tabs -> TabRecord] /\ tab[t] \in TabRecord
  BY TypeShape DEF TypeInv
<1> USE <1>0
<1>1. UNCHANGED member /\ (SameIds \/ stored' = ClearedStorage)
  <2>1. stored \in StoredRecord
    BY TypeShape DEF TypeInv
  <2>2. CASE ChallengeCreated(t)
    BY <2>1, <2>2 DEF ChallengeCreated, SameIds, StoredRecord, serverVars
  <2>3. CASE AppShell(t) \/ StartFresh(t)
    BY <2>3 DEF AppShell, StartFresh, Exit, Quiet, SameIds, serverVars
  <2>4. CASE CreateChallenge(t)
    BY <2>4 DEF CreateChallenge, SameIds
  <2> QED
    BY <2>2, <2>3, <2>4 DEF Controls, Load, Landing, ChooseMode, ChooseGoal, LeaveSetup,
       LeavePair, LeaveDashboard, LeaveAccess, LeaveCertificate, Challenge, LeaveCreate,
       Quiet, SameIds, serverVars
<1>2. ASSUME NEW x \in TabRecord, tab' = [tab EXCEPT ![t] = x], x.screen # "closed",
             x.pid \in {None, tab[t].pid} \/ (Rehydrated /\ x.pid = stored.pid)
      PROVE  Plain
  BY <1>1, <1>2, PlainTab
<1>3. ASSUME NEW screen \in Screens,
             Show(t, screen) \/ \E v \in Views : ShowAs(t, v, screen)
      PROVE  Plain
  <2>1. CASE Show(t, screen)
    <3>1. tab' = [tab EXCEPT ![t] = [tab[t] EXCEPT !.screen = screen]]
      BY <2>1 DEF Show
    <3>2. /\ [tab[t] EXCEPT !.screen = screen].screen # "closed"
          /\ [tab[t] EXCEPT !.screen = screen].pid = tab[t].pid
      BY DEF TabRecord, Screens
    <3> QED
      BY <1>1, <3>1, <3>2, PlainTab
  <2>2. ASSUME NEW v \in Views, ShowAs(t, v, screen) PROVE Plain
    <3> DEFINE x == [tab[t] EXCEPT !.screen = screen, !.view = v]
    <3>1. tab' = [tab EXCEPT ![t] = x]
      BY <2>2 DEF ShowAs
    <3>2. x.screen # "closed" /\ x.pid = tab[t].pid
      BY DEF TabRecord, Screens
    <3> QED
      BY <1>1, <3>1, <3>2, PlainTab
  <2> QED
    BY <1>3, <2>1, <2>2
<1>4. ASSUME NEW s \in Sessions, OpenChallenge(t, s) PROVE Plain
  <2> DEFINE x == [tab[t] EXCEPT !.challenge = s, !.screen = "challenge", !.created = None]
  <2>1. tab' = [tab EXCEPT ![t] = x]
    BY <1>4 DEF OpenChallenge
  <2>2. x.screen # "closed" /\ x.pid = tab[t].pid
    BY DEF TabRecord
  <2> QED
    BY <1>1, <2>1, <2>2, PlainTab
<1>5. ASSUME OpenDashboard(t) PROVE Plain
  <2> DEFINE x == [tab[t] EXCEPT !.screen = "dashboard", !.created = None]
  <2>1. tab' = [tab EXCEPT ![t] = x]
    BY <1>5 DEF OpenDashboard
  <2>2. x.screen # "closed" /\ x.pid = tab[t].pid
    BY DEF TabRecord
  <2> QED
    BY <1>1, <2>1, <2>2, PlainTab
<1>6. ASSUME Exit(t) PROVE Plain
  <2> DEFINE x == [tab[t] EXCEPT !.sid = None, !.pid = None, !.join = None,
                                 !.screen = "landing"]
  <2>1. tab' = [tab EXCEPT ![t] = x]
    BY <1>6 DEF Exit
  <2>2. x.screen # "closed" /\ x.pid = None
    BY DEF TabRecord
  <2> QED
    BY <1>1, <2>1, <2>2, PlainTab
<1>7. CASE Load(t)
  <2>1. PICK link \in Links :
          tab' = [tab EXCEPT ![t] =
                    [ClosedTab EXCEPT !.screen = link.to,
                                      !.sid = IF Rehydrated THEN stored.sid ELSE None,
                                      !.pid = IF Rehydrated THEN stored.pid ELSE None,
                                      !.join = IF link.to = "setup" THEN link.id ELSE None,
                                      !.challenge = IF link.to = "challenge" THEN link.id
                                                    ELSE None]]
    BY <1>7 DEF Load
  <2> DEFINE x == [ClosedTab EXCEPT !.screen = link.to,
                                    !.sid = IF Rehydrated THEN stored.sid ELSE None,
                                    !.pid = IF Rehydrated THEN stored.pid ELSE None,
                                    !.join = IF link.to = "setup" THEN link.id ELSE None,
                                    !.challenge = IF link.to = "challenge" THEN link.id
                                                  ELSE None]
  <2>2. x.screen # "closed" /\ x.pid = (IF Rehydrated THEN stored.pid ELSE None)
    BY DEF ClosedTab, Links
  <2>3. x.pid \in {None, tab[t].pid} \/ (Rehydrated /\ x.pid = stored.pid)
    BY <2>2
  <2>4. tab' = [tab EXCEPT ![t] = x]
    BY <2>1
  <2> HIDE DEF x
  <2> QED
    BY <1>1, <2>2, <2>3, <2>4, PlainTab
<1>10. CASE Landing(t)
  <2>1. CASE tab' = [tab EXCEPT ![t].access = None, ![t].screen = "facilitator-access"]
    <3> DEFINE x == [tab[t] EXCEPT !.access = None, !.screen = "facilitator-access"]
    <3>1. x.screen # "closed" /\ x.pid = tab[t].pid
      BY DEF TabRecord
    <3>2. tab' = [tab EXCEPT ![t] = x]
      BY <2>1
    <3> QED
      BY <1>1, <3>1, <3>2, PlainTab
  <2> QED
    BY <1>3, <1>4, <1>10, <2>1 DEF Landing, ContinueExisting, Views, Screens
<1>11. CASE ChooseMode(t) \/ ChooseGoal(t) \/ LeaveSetup(t) \/ LeavePair(t)
            \/ LeaveDashboard(t) \/ LeaveCertificate(t)
  BY <1>3, <1>11 DEF ChooseMode, ChooseGoal, LeaveSetup, LeavePair, LeaveDashboard,
                     LeaveCertificate, Views, Screens
<1>12. CASE LeaveAccess(t) \/ LeaveCreate(t)
  <2> DEFINE screen == IF tab[t].access # None /\ tab[t].challenge # None
                       THEN "challenge" ELSE "landing"
             x == [tab[t] EXCEPT !.access = None, !.screen = screen]
             y == [tab[t] EXCEPT !.screen = "landing", !.created = None]
  <2>1. tab' = [tab EXCEPT ![t] = x] \/ tab' = [tab EXCEPT ![t] = y]
    BY <1>12 DEF LeaveAccess, LeaveCreate
  <2>2. x.screen # "closed" /\ x.pid = tab[t].pid /\ y.screen # "closed" /\ y.pid = tab[t].pid
    BY DEF TabRecord
  <2> QED
    BY <1>1, <2>1, <2>2, PlainTab
<1>13. CASE Challenge(t)
  <2> DEFINE x == [tab[t] EXCEPT !.join = tab[t].challenge, !.view = "learner",
                                 !.screen = "setup"]
             y == [tab[t] EXCEPT !.access = tab[t].challenge,
                                 !.screen = "facilitator-access"]
  <2>1. Show(t, "landing") \/ tab' = [tab EXCEPT ![t] = x] \/ tab' = [tab EXCEPT ![t] = y]
    BY <1>13 DEF Challenge
  <2>2. x.screen # "closed" /\ x.pid = tab[t].pid /\ y.screen # "closed" /\ y.pid = tab[t].pid
    BY DEF TabRecord
  <2> QED
    BY <1>1, <1>3, <2>1, <2>2, PlainTab DEF Screens
<1>14. CASE StartFresh(t)
  BY <1>6, <1>14 DEF StartFresh
<1>15. CASE AppShell(t)
  BY <1>3, <1>6, <1>15 DEF AppShell, Screens, Views
<1>16. CASE CreateChallenge(t)
  <2>1. ASSUME NEW s \in Unborn, tab' = [tab EXCEPT ![t].created = s] PROVE Plain
    <3> DEFINE x == [tab[t] EXCEPT !.created = s]
    <3>1. x.screen = tab[t].screen /\ x.pid = tab[t].pid
      BY DEF TabRecord
    <3>2. tab' = [tab EXCEPT ![t] = x]
      BY <2>1
    <3> QED
      BY <1>1, <3>1, <3>2, PlainTab
  <2>2. CASE tab' = tab
    BY <1>1, <2>2 DEF Plain
  <2> QED
    BY <1>3, <1>16, <2>1, <2>2 DEF CreateChallenge, Screens
<1>17. CASE ChallengeCreated(t)
  <2>1. tab[t].created \in Sessions
    BY <1>17 DEF ChallengeCreated, TabRecord, OrNone
  <2> QED
    BY <1>4, <1>5, <1>17, <2>1 DEF ChallengeCreated
<1> QED
  BY <1>7, <1>10, <1>11, <1>12, <1>13, <1>14, <1>15, <1>16, <1>17 DEF Controls

\* An answer that brings a participant stores what it shows, on an open page.
LEMMA Brought ==
    ASSUME TypeInv, NEW t \in Tabs, NEW p \in Participants, UNCHANGED member,
           member[p] \in Sessions,
           stored' = [stored EXCEPT !.auth = p, !.sid = member[p], !.pid = p],
           tab'[t].screen = "app", tab'[t].pid = p
    PROVE  StoredInv' /\ ActsAsShown'
<1>1. stored'.auth = p /\ stored'.sid = member[p] /\ stored'.pid = p /\ p # None
  BY TypeShape, NoneApart DEF TypeInv, StoredRecord
<1>2. StoredInv'
  BY <1>1 DEF StoredInv, StoredTogether
<1>3. ActsAsShown'
  <2> SUFFICES ASSUME NEW u \in Tabs, \A v \in Tabs \ {u} : tab'[v].screen = "closed"
               PROVE  stored'.auth = tab'[u].pid
    BY DEF ActsAsShown, At
  <2>1. u = t
    OBVIOUS
  <2> QED
    BY <1>1, <2>1
<1> QED
  BY <1>2, <1>3

LEMMA AnswerStored ==
    ASSUME TypeInv, StoredInv, ActsAsShown, NEW c \in Calls, Answer(c)
    PROVE  StoredInv' /\ ActsAsShown'
<1> DEFINE t == calls[c].tab
           p == calls[c].got
<1>0. /\ CallTrue(calls[c]) /\ tab \in [Tabs -> TabRecord] /\ stored \in StoredRecord
      /\ UNCHANGED member
  BY TypeShape DEF TypeInv, CallsTrue, serverVars, Answer, CreateAnswered, JoinAnswered,
                   StartFailed, Paired, CodeFailed, Probed, Opened, Refused
<1>1. CASE JoinAnswered(c)
  <2>1. t \in Tabs /\ p \in Participants /\ member[p] = calls[c].for /\ member[p] \in Sessions
    BY <1>0, <1>1 DEF JoinAnswered, Answered, CallTrue
  <2>2. stored' = [stored EXCEPT !.auth = p, !.sid = member[p], !.pid = p]
    BY <1>1, <2>1 DEF JoinAnswered
  <2> DEFINE x == [tab[t] EXCEPT !.sid = calls[c].for, !.pid = p, !.screen = "app",
                                 !.created = None]
  <2>3. x.screen = "app" /\ x.pid = p
    BY <1>0, <2>1 DEF TabRecord
  <2>4. tab' = [tab EXCEPT ![t] = x]
    BY <1>0, <1>1, <2>1 DEF JoinAnswered
  <2> HIDE DEF x
  <2>5. tab'[t].screen = "app" /\ tab'[t].pid = p
    BY <1>0, <2>1, <2>3, <2>4
  <2> QED
    BY <1>0, <2>1, <2>2, <2>5, Brought
<1>2. CASE Paired(c)
  <2>1. t \in Tabs /\ p \in Participants /\ member[p] \in Sessions
    BY <1>0, <1>2 DEF Paired, Answered, CallTrue
  <2>2. stored' = [stored EXCEPT !.auth = p, !.sid = member[p], !.pid = p]
    BY <1>2 DEF Paired
  <2> DEFINE x == [tab[t] EXCEPT !.sid = member[p], !.pid = p, !.view = "learner",
                                 !.screen = "app", !.created = None]
  <2>3. x.screen = "app" /\ x.pid = p
    BY <1>0, <2>1 DEF TabRecord
  <2>4. tab' = [tab EXCEPT ![t] = x]
    BY <1>0, <1>2, <2>1 DEF Paired, OnPaired
  <2> HIDE DEF x
  <2>5. tab'[t].screen = "app" /\ tab'[t].pid = p
    BY <1>0, <2>1, <2>3, <2>4
  <2> QED
    BY <1>0, <2>1, <2>2, <2>5, Brought
<1>3. CASE CreateAnswered(c) \/ StartFailed(c) \/ CodeFailed(c) \/ Probed(c) \/ Opened(c)
           \/ Refused(c)
  <2>1. SameIds
    BY <1>0, <1>3 DEF CreateAnswered, StartFailed, CodeFailed, Probed, SwapIn, Opened,
                      Refused, SameIds, StoredRecord
  <2>2. t \in Tabs /\ tab[t] \in TabRecord
    BY <1>0, <1>3 DEF CreateAnswered, StartFailed, CodeFailed, Probed, Opened, Refused,
                      Answered, CallTrue
  <2>3. ASSUME NEW screen, screen # "closed",
               tab' = [tab EXCEPT ![t] = [tab[t] EXCEPT !.screen = screen, !.created = None]]
        PROVE  Plain
    <3> DEFINE x == [tab[t] EXCEPT !.screen = screen, !.created = None]
    <3>1. x.screen = screen /\ x.pid = tab[t].pid
      BY <2>2 DEF TabRecord
    <3> QED
      BY <1>0, <2>1, <2>2, <2>3, <3>1, PlainTab
  <2>4. ASSUME tab' = tab PROVE Plain
    BY <1>0, <2>1, <2>4 DEF Plain
  <2>5. CASE StartFailed(c)
    <3>1. \/ tab' = tab
          \/ tab' = [tab EXCEPT ![t] = [tab[t] EXCEPT !.screen = "session-not-found",
                                                      !.created = None]]
      BY <1>0, <2>2, <2>5 DEF StartFailed
    <3> QED
      BY <2>3, <2>4, <3>1, PlainStep
  <2>6. CASE Opened(c)
    <3>1. tab' = [tab EXCEPT ![t] = [tab[t] EXCEPT !.screen = "dashboard", !.created = None]]
      BY <1>0, <2>2, <2>6 DEF Opened, OpenDashboard
    <3> QED
      BY <2>3, <3>1, PlainStep
  <2> QED
    BY <1>3, <2>4, <2>5, <2>6, PlainStep DEF CreateAnswered, CodeFailed, Probed, Refused
<1> QED
  BY <1>1, <1>2, <1>3 DEF Answer

LEMMA StoredStep ==
    TypeInv /\ StoredInv /\ ActsAsShown /\ [Next]_vars => StoredInv' /\ ActsAsShown'
<1> SUFFICES ASSUME TypeInv, StoredInv, ActsAsShown, [Next]_vars
             PROVE  StoredInv' /\ ActsAsShown'
  OBVIOUS
<1>0. /\ stored \in StoredRecord
      /\ \A p \in Fresh, s \in Sessions : member' = [member EXCEPT ![p] = s] =>
            \A q \in Participants : member[q] # None => member'[q] = member[q]
  BY TypeShape, MemberStep DEF TypeInv
<1>1. ASSUME NEW t \in Tabs, NEW c \in Calls, Submits(t, c) PROVE Plain
  <2>1. tab' = tab /\ member' = member
    BY <1>1 DEF Submits, Start, SubmitCode, SubmitToken, serverVars
  <2>2. SameIds \/ stored' = ClearedStorage
    BY <1>0, <1>1 DEF Submits, Start, SubmitCode, SubmitToken, SwapIn, SameIds, StoredRecord
  <2> QED
    BY <2>1, <2>2 DEF Plain
<1>2. ASSUME NEW c \in Calls, Serve(c) PROVE Plain
  <2>1. tab' = tab /\ stored' = stored
    BY <1>2 DEF Serve, ServeCreate, ServeJoin, ServeRedeem, ServeRead, Lose
  <2>2. \A p \in Participants : member[p] # None => member'[p] = member[p]
    BY <1>0, <1>2 DEF Serve, ServeCreate, ServeJoin, ServeRedeem, ServeRead, Lose, serverVars,
                      Live
  <2> QED
    BY <2>1, <2>2 DEF Plain, SameIds
<1>3. ASSUME NEW s \in Sessions, Prune(s) PROVE Plain
  BY <1>3 DEF Prune, Plain, SameIds
<1>4. ASSUME UNCHANGED vars PROVE Plain
  BY <1>4 DEF vars, serverVars, Plain, SameIds
<1> QED
  BY <1>1, <1>2, <1>3, <1>4, ControlsPlain, AnswerStored, PlainStep DEF Next

LEMMA InitStored == Init => StoredInv /\ ActsAsShown
  BY DEF Init, StoredInv, StoredTogether, ActsAsShown, ClearedStorage

\* The three stored keys are always of one participant, or all absent.
THEOREM StoredOfOne == Spec => []StoredTogether
<1>1. StoredInv => StoredTogether
  BY DEF StoredInv
<1> QED
  BY <1>1, InitType, TypeStep, InitStored, StoredStep, PTL DEF Spec

\* A page that is the only one open acts as the participant it shows.
THEOREM NeverAsAnother == Spec => []ActsAsShown
  BY InitType, TypeStep, InitStored, StoredStep, PTL DEF Spec
=============================================================================
