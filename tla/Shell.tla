------------------------------- MODULE Shell -------------------------------
(***************************************************************************)
(* The browser's shell (App.tsx, lib/auth.ts, lib/api.ts): which screen    *)
(* each tab shows, which ids it holds, the one localStorage record that    *)
(* all tabs share, and the requests whose answers change them. An answer   *)
(* may come late, after the user has moved on, or never; Enter submits a   *)
(* form again while its request is still running.                          *)
(*                                                                         *)
(* A participant token is written as the participant it belongs to, a      *)
(* facilitator token as its session, a challenge as its backing session.   *)
(***************************************************************************)
EXTENDS Naturals, FiniteSets

CONSTANTS
    Tabs,          \* browser tabs on this origin
    Calls,         \* slots for requests in flight
    Sessions,      \* session ids
    Participants,  \* participant ids
    Workshop,      \* a challenge's session that others run
    Gone,          \* a session that was pruned, whose link still circulates
    Remote,        \* learners of Workshop with a pairing code on another device
    Typo,          \* a facilitator token that opens nothing
    None,
    MaxSubmits     \* bound: forms submitted

ASSUME IdsApart == None \notin Tabs \cup Sessions \cup Participants \cup {Typo}
ASSUME WorldAssumption ==
    /\ {Workshop, Gone} \subseteq Sessions
    /\ Workshop # Gone
    /\ Remote \subseteq Participants
    /\ Typo \notin Sessions
    /\ MaxSubmits \in Nat

VARIABLES
    session,   \* server: the state of each session id
    member,    \* server: the session each participant joined
    codes,     \* server: learners with an outstanding pairing code
    stored,    \* the localStorage record, shared by the tabs
    tab,       \* the App component of each tab
    calls,     \* requests in flight
    submits    \* how many forms were submitted

serverVars == <<session, member, codes>>
vars == <<session, member, codes, stored, tab, calls, submits>>

Screens == {"landing", "mode", "goal", "setup", "session-not-found", "app", "pair",
            "challenge", "create-challenge", "facilitator-access", "dashboard", "certificate"}
Views == {"learner", "facilitator"}
Ops == {"none", "create", "join", "redeem", "probe", "access"}
FacTokens == Sessions \cup {Typo}

Live == {s \in Sessions : session[s] \in {"plain", "challenge"}}
Unborn == {s \in Sessions : session[s] = "unborn"}
Fresh == {p \in Participants : member[p] = None}

\* The addresses a page is loaded from: bare, ?cert=, ?session= of a session that once
\* existed or ?challenge=. A reload is one of them: which parameters the app has taken out
\* of the address bar by then is left open.
Links == [to : {"landing", "certificate"}, id : {None}]
         \cup [to : {"setup"}, id : {Workshop, Gone}]
         \cup [to : {"challenge"}, id : {s \in Sessions : session[s] = "challenge"}]

ClearedStorage == [auth |-> None, fac |-> None, sid |-> None, pid |-> None]

ClosedTab == [screen |-> "closed", view |-> "learner", sid |-> None, pid |-> None,
              join |-> None, challenge |-> None, access |-> None, created |-> None]

NoCall == [op |-> "none", tab |-> None, for |-> None, linked |-> FALSE, token |-> None,
           prev |-> None, ans |-> "waiting", got |-> None]

Free(c) == calls[c].op = "none"
At(t, screen) == tab[t].screen = screen

----------------------------------------------------------------------------
(* Opening and reloading a page *)

\* The ids are restored only when the token and both ids are stored.
Rehydrated == stored.auth # None /\ stored.pid # None /\ stored.sid # None

\* A page load, of a closed tab or over what a tab shows. The requests of the page that was
\* there are abandoned.
Load(t) ==
    /\ \E link \in Links :
        tab' = [tab EXCEPT ![t] =
                  [ClosedTab EXCEPT !.screen = link.to,
                                    !.sid = IF Rehydrated THEN stored.sid ELSE None,
                                    !.pid = IF Rehydrated THEN stored.pid ELSE None,
                                    !.join = IF link.to = "setup" THEN link.id ELSE None,
                                    !.challenge = IF link.to = "challenge" THEN link.id
                                                  ELSE None]]
    /\ calls' = [c \in Calls |-> IF calls[c].tab = t THEN NoCall ELSE calls[c]]
    /\ UNCHANGED <<serverVars, stored>>

----------------------------------------------------------------------------
(* The controls of each screen that send nothing *)

Quiet == UNCHANGED <<serverVars, stored, calls>>
Show(t, screen) == tab' = [tab EXCEPT ![t].screen = screen]
ShowAs(t, view, screen) == tab' = [tab EXCEPT ![t].screen = screen, ![t].view = view]

HasResumable(t) == tab[t].sid # None /\ tab[t].pid # None

OpenChallenge(t, s) ==
    tab' = [tab EXCEPT ![t].challenge = s, ![t].screen = "challenge", ![t].created = None]

OpenDashboard(t) == tab' = [tab EXCEPT ![t].screen = "dashboard", ![t].created = None]

ContinueExisting(t) == HasResumable(t) /\ Show(t, "app")

Landing(t) ==
    /\ At(t, "landing")
    /\ Quiet
    /\ \/ ShowAs(t, "learner", "mode")
       \/ ShowAs(t, "facilitator", "setup")
       \/ Show(t, "pair")
       \/ ContinueExisting(t)
       \/ \E s \in Sessions : session[s] = "challenge" /\ OpenChallenge(t, s)
       \/ Show(t, "create-challenge")
       \/ tab' = [tab EXCEPT ![t].access = None, ![t].screen = "facilitator-access"]

ChooseMode(t) ==
    /\ At(t, "mode")
    /\ Quiet
    /\ \/ Show(t, "landing")
       \/ ShowAs(t, "learner", "goal")
       \/ ShowAs(t, "facilitator", "setup")

ChooseGoal(t) ==
    /\ At(t, "goal")
    /\ Quiet
    /\ Show(t, "mode") \/ Show(t, "setup")

LeaveSetup(t) ==
    /\ At(t, "setup")
    /\ Quiet
    /\ Show(t, IF tab[t].join # None THEN "landing"
               ELSE IF tab[t].view = "learner" THEN "goal" ELSE "mode")

LeavePair(t) == At(t, "pair") /\ Quiet /\ Show(t, "landing")
LeaveDashboard(t) == At(t, "dashboard") /\ Quiet /\ Show(t, "landing")

LeaveAccess(t) ==
    /\ At(t, "facilitator-access")
    /\ Quiet
    /\ tab' = [tab EXCEPT ![t].access = None,
                 ![t].screen = IF tab[t].access # None /\ tab[t].challenge # None
                               THEN "challenge" ELSE "landing"]

LeaveCertificate(t) == At(t, "certificate") /\ Quiet /\ Show(t, "landing")

\* The page of a challenge; its session is known once the results are loaded.
Challenge(t) ==
    /\ At(t, "challenge")
    /\ Quiet
    /\ \/ Show(t, "landing")
       \/ /\ session[tab[t].challenge] = "challenge"
          /\ \/ tab' = [tab EXCEPT ![t].join = tab[t].challenge, ![t].view = "learner",
                                   ![t].screen = "setup"]
             \/ tab' = [tab EXCEPT ![t].access = tab[t].challenge,
                                   ![t].screen = "facilitator-access"]

\* Faulty: exit forgets to leave the app.
ExitStaysInApp(t) ==
    /\ tab' = [tab EXCEPT ![t].sid = None, ![t].pid = None, ![t].join = None]
    /\ stored' = ClearedStorage
    /\ UNCHANGED <<serverVars, calls>>

\* Exit wipes the storage and the ids of this tab; the logo keeps both.
Exit(t) ==
    /\ tab' = [tab EXCEPT ![t].sid = None, ![t].pid = None, ![t].join = None,
                          ![t].screen = "landing"]
    /\ stored' = ClearedStorage
    /\ UNCHANGED <<serverVars, calls>>

StartFresh(t) == At(t, "session-not-found") /\ Exit(t)

AppShell(t) ==
    /\ At(t, "app")
    /\ \/ Exit(t)
       \/ Show(t, "landing") /\ Quiet
       \/ \E v \in Views \ {tab[t].view} : ShowAs(t, v, "app") /\ Quiet

----------------------------------------------------------------------------
(* Creating a challenge. Its token reaches this page only: an answer that is *)
(* lost, or that comes after the page was left, shows nothing.               *)

CreateChallenge(t) ==
    /\ At(t, "create-challenge") /\ tab[t].created = None
    /\ \E s \in Unborn :
        /\ session' = [session EXCEPT ![s] = "challenge"]
        /\ tab' = [tab EXCEPT ![t].created = s] \/ Show(t, "landing") \/ tab' = tab
    /\ UNCHANGED <<member, codes, stored, calls>>

LeaveCreate(t) ==
    /\ At(t, "create-challenge")
    /\ Quiet
    /\ tab' = [tab EXCEPT ![t].screen = "landing", ![t].created = None]

\* Jump to the new challenge, or stash its token and open its dashboard.
ChallengeCreated(t) ==
    /\ At(t, "create-challenge") /\ tab[t].created # None
    /\ \/ OpenChallenge(t, tab[t].created) /\ UNCHANGED stored
       \/ /\ OpenDashboard(t)
          /\ stored' = [stored EXCEPT !.fac = tab[t].created]
    /\ UNCHANGED <<serverVars, calls>>

----------------------------------------------------------------------------
(* start(): clear, then create a session unless a link named one, then join *)

Start(t, c) ==
    /\ At(t, "setup")
    /\ Free(c)
    /\ stored' = ClearedStorage
    /\ calls' = [calls EXCEPT ![c] =
                   [NoCall EXCEPT !.op = IF tab[t].join # None THEN "join" ELSE "create",
                                  !.tab = t, !.for = tab[t].join,
                                  !.linked = tab[t].join # None]]
    /\ UNCHANGED <<serverVars, tab>>

Answered(c, op, ans) == calls[c].op = op /\ calls[c].ans = ans

CreateAnswered(c) ==
    /\ Answered(c, "create", "ok")
    /\ stored' = [stored EXCEPT !.fac = calls[c].got]
    /\ calls' = [calls EXCEPT ![c] = [NoCall EXCEPT !.op = "join", !.tab = calls[c].tab,
                                                    !.for = calls[c].got]]
    /\ UNCHANGED <<serverVars, tab>>

\* Faulty: the two ids handed over in the wrong order.
JoinAnsweredSwapsIds(c) ==
    /\ Answered(c, "join", "ok")
    /\ stored' = [stored EXCEPT !.auth = calls[c].got, !.sid = calls[c].got,
                                !.pid = calls[c].for]
    /\ calls' = [calls EXCEPT ![c] = NoCall]
    /\ UNCHANGED <<serverVars, tab>>

JoinAnswered(c) ==
    LET t == calls[c].tab
        p == calls[c].got
        s == calls[c].for
    IN  /\ Answered(c, "join", "ok")
        /\ stored' = [stored EXCEPT !.auth = p, !.sid = s, !.pid = p]
        /\ tab' = [tab EXCEPT ![t].sid = s, ![t].pid = p, ![t].screen = "app",
                              ![t].created = None]
        /\ calls' = [calls EXCEPT ![c] = NoCall]
        /\ UNCHANGED serverVars

\* Only a 404 of a linked session gets a screen of its own.
StartFailed(c) ==
    LET t == calls[c].tab
        notFound == calls[c].ans = "refused" /\ calls[c].linked
    IN  /\ calls[c].op \in {"create", "join"} /\ calls[c].ans \in {"refused", "lost"}
        /\ tab' = IF notFound THEN [tab EXCEPT ![t].screen = "session-not-found",
                                               ![t].created = None] ELSE tab
        /\ calls' = [calls EXCEPT ![c] = NoCall]
        /\ UNCHANGED <<serverVars, stored>>

----------------------------------------------------------------------------
(* PairDevice: redeem a code shown on another device *)

SubmitCode(t, c) ==
    /\ At(t, "pair")
    /\ Free(c)
    /\ calls' = [calls EXCEPT ![c] = [NoCall EXCEPT !.op = "redeem", !.tab = t]]
    /\ UNCHANGED <<serverVars, stored, tab>>

\* Faulty: a tab that already holds ids keeps them.
OnPairedKeepsIds(t, p) ==
    tab' = [tab EXCEPT ![t].sid = IF @ = None THEN member[p] ELSE @,
                       ![t].pid = IF @ = None THEN p ELSE @,
                       ![t].view = "learner", ![t].screen = "app", ![t].created = None]

OnPaired(t, p) ==
    tab' = [tab EXCEPT ![t].sid = member[p], ![t].pid = p, ![t].view = "learner",
                       ![t].screen = "app", ![t].created = None]

\* Faulty: redeeming a code stores the token and the participant, not the session.
PairedKeepsSession(c) ==
    LET p == calls[c].got IN
    /\ Answered(c, "redeem", "ok")
    /\ stored' = [stored EXCEPT !.auth = p, !.pid = p]
    /\ tab' = [tab EXCEPT ![calls[c].tab].sid = member[p], ![calls[c].tab].pid = p,
                          ![calls[c].tab].screen = "app"]
    /\ calls' = [calls EXCEPT ![c] = NoCall]
    /\ UNCHANGED serverVars

Paired(c) ==
    LET p == calls[c].got IN
    /\ Answered(c, "redeem", "ok")
    /\ stored' = [stored EXCEPT !.auth = p, !.sid = member[p], !.pid = p]
    /\ OnPaired(calls[c].tab, p)
    /\ calls' = [calls EXCEPT ![c] = NoCall]
    /\ UNCHANGED serverVars

CodeFailed(c) ==
    /\ calls[c].op = "redeem" /\ calls[c].ans \in {"refused", "lost"}
    /\ calls' = [calls EXCEPT ![c] = NoCall]
    /\ UNCHANGED <<serverVars, stored, tab>>

----------------------------------------------------------------------------
(* FacilitatorAccessView: swap the pasted token in, try one read, restore *)

SwapIn(c, call) ==
    /\ stored' = [stored EXCEPT !.fac = call.token]
    /\ calls' = [calls EXCEPT ![c] = [call EXCEPT !.op = "access", !.ans = "waiting"]]

\* A prefilled session or a ?session= link is tried at once; any other id is first
\* probed as a challenge. Pasted: the token of the session named, or one that opens nothing.
SubmitToken(t, c) ==
    /\ At(t, "facilitator-access")
    /\ Free(c)
    /\ \E token \in (IF tab[t].access # None THEN {tab[t].access} ELSE Live) \cup {Typo} :
         LET call == [NoCall EXCEPT !.op = "probe", !.tab = t, !.token = token,
                                    !.prev = stored.fac]
         IN  \/ SwapIn(c, call)
             \/ /\ tab[t].access = None
                /\ calls' = [calls EXCEPT ![c] = call]
                /\ UNCHANGED stored
    /\ UNCHANGED <<serverVars, tab>>

\* Whatever the probe says, the id is then tried as a session.
Probed(c) ==
    /\ calls[c].op = "probe" /\ calls[c].ans # "waiting"
    /\ SwapIn(c, calls[c])
    /\ UNCHANGED <<serverVars, tab>>

Opened(c) ==
    /\ Answered(c, "access", "ok")
    /\ OpenDashboard(calls[c].tab)
    /\ calls' = [calls EXCEPT ![c] = NoCall]
    /\ UNCHANGED <<serverVars, stored>>

Refused(c) ==
    /\ calls[c].op = "access" /\ calls[c].ans \in {"refused", "lost"}
    /\ stored' = [stored EXCEPT !.fac = calls[c].prev]
    /\ calls' = [calls EXCEPT ![c] = NoCall]
    /\ UNCHANGED <<serverVars, tab>>

----------------------------------------------------------------------------
(* The server and the network *)

Reply(c, ans, got) == calls' = [calls EXCEPT ![c].ans = ans, ![c].got = got]
Waiting(c, op) == Answered(c, op, "waiting")

ServeCreate(c) ==
    /\ Waiting(c, "create")
    /\ \E s \in Unborn : session' = [session EXCEPT ![s] = "plain"] /\ Reply(c, "ok", s)
    /\ UNCHANGED <<member, codes, stored, tab>>

ServeJoin(c) ==
    /\ Waiting(c, "join")
    /\ \/ /\ calls[c].for \in Live
          /\ \E p \in Fresh : member' = [member EXCEPT ![p] = calls[c].for] /\ Reply(c, "ok", p)
       \/ calls[c].for \notin Live /\ Reply(c, "refused", None) /\ UNCHANGED member
    /\ UNCHANGED <<session, codes, stored, tab>>

\* The right code is redeemed once; any other is refused.
ServeRedeem(c) ==
    /\ Waiting(c, "redeem")
    /\ \/ \E p \in codes : codes' = codes \ {p} /\ Reply(c, "ok", p)
       \/ Reply(c, "refused", None) /\ UNCHANGED codes
    /\ UNCHANGED <<session, member, stored, tab>>

ServeRead(c) ==
    /\ \/ Waiting(c, "probe") /\ Reply(c, "ok", None)
       \/ /\ Waiting(c, "access")
          /\ Reply(c, IF calls[c].token \in Live THEN "ok" ELSE "refused", None)
    /\ UNCHANGED <<serverVars, stored, tab>>

\* The request is lost, or its answer after the server has acted on it.
Lose(c) ==
    /\ calls[c].op # "none" /\ calls[c].ans # "lost"
    /\ calls' = [calls EXCEPT ![c].ans = "lost"]
    /\ UNCHANGED <<serverVars, stored, tab>>

\* The pruner removes an old session that nobody joined and no challenge uses. A session
\* that a request of this browser has just created is never old.
Prune(s) ==
    /\ session[s] = "plain"
    /\ \A p \in Participants : member[p] # s
    /\ \A c \in Calls : s \in {calls[c].for, calls[c].got} => calls[c].linked
    /\ session' = [session EXCEPT ![s] = "pruned"]
    /\ UNCHANGED <<member, codes, stored, tab, calls>>

----------------------------------------------------------------------------
Init ==
    /\ session = [s \in Sessions |-> CASE s = Workshop -> "challenge"
                                       [] s = Gone -> "pruned"
                                       [] OTHER -> "unborn"]
    /\ member = [p \in Participants |-> IF p \in Remote THEN Workshop ELSE None]
    /\ codes = Remote
    /\ stored = ClearedStorage
    /\ tab = [t \in Tabs |-> ClosedTab]
    /\ calls = [c \in Calls |-> NoCall]
    /\ submits = 0

Controls(t) ==
    \/ Load(t) \/ Landing(t) \/ ChooseMode(t) \/ ChooseGoal(t) \/ LeaveSetup(t)
    \/ LeavePair(t) \/ LeaveDashboard(t) \/ LeaveAccess(t) \/ LeaveCertificate(t)
    \/ Challenge(t) \/ StartFresh(t) \/ AppShell(t)
    \/ CreateChallenge(t) \/ LeaveCreate(t) \/ ChallengeCreated(t)

Submits(t, c) ==
    /\ submits < MaxSubmits
    /\ submits' = submits + 1
    /\ Start(t, c) \/ SubmitCode(t, c) \/ SubmitToken(t, c)

Serve(c) == ServeCreate(c) \/ ServeJoin(c) \/ ServeRedeem(c) \/ ServeRead(c) \/ Lose(c)

Answer(c) ==
    \/ CreateAnswered(c) \/ JoinAnswered(c) \/ StartFailed(c) \/ Paired(c) \/ CodeFailed(c)
    \/ Probed(c) \/ Opened(c) \/ Refused(c)

Next ==
    \/ \E t \in Tabs, c \in Calls : Submits(t, c)
    \/ /\ \/ \E t \in Tabs : Controls(t)
          \/ \E c \in Calls : Serve(c) \/ Answer(c)
          \/ \E s \in Sessions : Prune(s)
       /\ UNCHANGED submits

Spec == Init /\ [][Next]_vars

----------------------------------------------------------------------------
(* Properties *)

OrNone(S) == S \cup {None}

\* Types of every variable.
TypeOK ==
    /\ session \in [Sessions -> {"unborn", "plain", "challenge", "pruned"}]
    /\ member \in [Participants -> OrNone(Sessions)]
    /\ codes \subseteq Participants
    /\ stored \in [auth : OrNone(Participants), fac : OrNone(FacTokens),
                   sid : OrNone(Sessions), pid : OrNone(Participants)]
    /\ tab \in [Tabs -> [screen : Screens \cup {"closed"}, view : Views,
                         sid : OrNone(Sessions), pid : OrNone(Participants),
                         join : OrNone(Sessions), challenge : OrNone(Sessions),
                         access : OrNone(Sessions), created : OrNone(Sessions)]]
    /\ calls \in [Calls -> [op : Ops, tab : OrNone(Tabs), for : OrNone(Sessions),
                            linked : BOOLEAN, token : OrNone(FacTokens),
                            prev : OrNone(FacTokens),
                            ans : {"waiting", "ok", "refused", "lost"},
                            got : OrNone(Sessions \cup Participants)]]
    /\ submits \in 0..MaxSubmits

\* App.tsx renders nothing for a screen whose id is missing, and passes participantId!
\* and sessionId! on: no order of late answers, exits and reloads leaves such a screen.
NeverBlank ==
    \A t \in Tabs :
        /\ At(t, "app") => HasResumable(t)
        /\ At(t, "challenge") => tab[t].challenge # None

\* rehydrate() restores a run from three separate keys: whatever tabs and late answers
\* did, they are the token, the id and the session of one participant, or all absent.
StoredTogether ==
    \/ stored.auth = None /\ stored.pid = None /\ stored.sid = None
    \/ /\ stored.auth # None
       /\ stored.pid = stored.auth
       /\ stored.sid = member[stored.pid]

\* While one tab is open it never acts with the token of another participant than the
\* one it shows (with two tabs it can: the record is shared, the ids are not).
ActsAsShown ==
    \A t \in Tabs :
        /\ \A u \in Tabs \ {t} : At(u, "closed")
        /\ stored.auth # None /\ tab[t].pid # None
        => stored.auth = tab[t].pid

============================================================================
