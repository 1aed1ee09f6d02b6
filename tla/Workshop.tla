------------------------------ MODULE Workshop ------------------------------
(***************************************************************************)
(* What a group shares: sessions and the learners who join them, the sweep *)
(* that deletes empty sessions, challenges with their public leaderboard,  *)
(* and the certificates issued for finished trees.  All of it is read from *)
(* tables that other requests write at the same time, so every handler is  *)
(* split at the points where it awaits the database.                       *)
(*                                                                         *)
(* Which lesson may be completed next is Progress's subject: here a joined *)
(* learner may complete any lesson of the running build, once.             *)
(***************************************************************************)
EXTENDS Integers

CONSTANTS
    Sessions,      \* ids of sessions, plain or behind a challenge
    Learners,      \* ids of participants
    Lessons,       \* every lesson id of every release
    Trees,         \* flight paths: one badge, one certificate each
    Requests,      \* slots for requests in flight
    Contests,      \* challenges that may be asked for: missions and window
    Releases,      \* number of builds deployed one after the other
    TreeMissions,  \* TreeMissions[k][t]: lessons of t in build k
    MinAge,        \* SESSION_PRUNE_AGE_HOURS
    Timeout,       \* the router's request timeout, in ticks of the clock
    LastTime,      \* bound: the last value of the clock
    MaxFaults,     \* bound: dropped requests and failed writes and polls
    None           \* no session, no challenge, no learner, no lesson, no tree

ASSUME WorkshopAssumption ==
    /\ Contests \subseteq
           [missions : SUBSET Lessons, starts_at : Nat, ends_at : Nat]
    /\ Releases \in Nat \ {0}
    /\ TreeMissions \in [1..Releases -> [Trees -> SUBSET Lessons]]
    /\ MinAge \in Nat \ {0} /\ Timeout \in Nat
    /\ LastTime \in Nat \ {0} /\ MaxFaults \in Nat
    /\ None \notin Contests \cup Sessions \cup Learners \cup Lessons \cup Trees

VARIABLES
    clock,     \* the server's clock
    release,   \* the build that is running
    sessions,  \* sessions: created_at, and whether the row is there
    contest,   \* challenges, by the session behind each
    member,    \* participants: session_id
    ledger,    \* mission_completions: completed_at, NotYet without row
    certs,     \* badge_certificates, by learner and tree
    req,       \* what each request in flight holds
    view,      \* the poll of an open ChallengeView
    shown,     \* the leaderboard on its screen
    faults     \* history: faults so far, for the bound MaxFaults

tables == <<sessions, contest, member, ledger, certs>>
vars == <<clock, release, tables, req, view, shown, faults>>

-----------------------------------------------------------------------------
(* Rows and requests.                                                      *)

NotYet == 0
NoCert == [by |-> None, build |-> 0, earned_at |-> 0, issued_at |-> 0]
Unborn == [state |-> "unborn", created_at |-> 0]

Catalogue == UNION {TreeMissions[release][t] : t \in Trees}

Stored(s) == sessions[s].state = "stored"

Done(l) == {m \in Lessons : ledger[l][m] # NotYet}

Free == [pc |-> "free", who |-> None, session |-> None, mission |-> None,
         tree |-> None, stamp |-> 0, cert |-> NoCert, had |-> FALSE]

\* Waiting for the database between two statements.
Pending == {"joinInsert", "write", "certBadge", "certInsert", "certRead"}
\* Answers that the properties speak of; any other just frees the slot.
Answered == {"joined", "issued", "notEarned"}

At(r, pc) == req[r].pc = pc
Become(r, record) == req' = [req EXCEPT ![r] = record]
Goto(r, pc) == Become(r, [req[r] EXCEPT !.pc = pc])

NoBoard == [status |-> "loading", people |-> {},
            cleared |-> [l \in Learners |-> {}]]
Closed == [pc |-> "closed", of |-> None, people |-> {},
           cleared |-> [l \in Learners |-> {}]]

Init ==
    /\ clock = 1
    /\ release = 1
    /\ sessions = [s \in Sessions |-> Unborn]
    /\ contest = [s \in Sessions |-> None]
    /\ member = [l \in Learners |-> None]
    /\ ledger = [l \in Learners |-> [m \in Lessons |-> NotYet]]
    /\ certs = [l \in Learners |-> [t \in Trees |-> NoCert]]
    /\ req = [r \in Requests |-> Free]
    /\ view = Closed
    /\ shown = NoBoard
    /\ faults = 0

-----------------------------------------------------------------------------
(* Sessions, challenges and joins.                                         *)

Insert(s) ==
    sessions' = [sessions EXCEPT
                     ![s] = [state |-> "stored", created_at |-> clock]]

CreateSession(s) ==
    /\ sessions[s] = Unborn
    /\ Insert(s)
    /\ UNCHANGED <<clock, release, contest, member, ledger, certs,
                   req, view, shown, faults>>

\* The session and the challenge are written in one transaction.
CreateChallenge(s, c) ==
    /\ sessions[s] = Unborn
    /\ c.ends_at > c.starts_at
    /\ c.ends_at > clock
    /\ Insert(s)
    /\ contest' = [contest EXCEPT ![s] = c]
    /\ UNCHANGED <<clock, release, member, ledger, certs,
                   req, view, shown, faults>>

Empty(s) == \A l \in Learners : member[l] # s

Prunable(s) ==
    /\ Stored(s)
    /\ sessions[s].created_at + MinAge <= clock
    /\ Empty(s)
    /\ contest[s] = None

\* One DELETE; the sweep may run at any moment.
PruneEmptySessions ==
    /\ \E s \in Sessions : Prunable(s)
    /\ sessions' = [s \in Sessions |->
           IF Prunable(s) THEN [sessions[s] EXCEPT !.state = "pruned"]
                          ELSE sessions[s]]
    /\ UNCHANGED <<clock, release, contest, member, ledger, certs,
                   req, view, shown, faults>>

\* A participant id is drawn by the handler that joins: nobody has it yet.
Unused(l) ==
    member[l] = None /\ \A q \in Requests : At(q, "joinInsert") => req[q].who # l

\* The existence check; without the row the answer is 404 and nothing more.
JoinCheck(r, l, s) ==
    /\ At(r, "free")
    /\ Unused(l)
    /\ Stored(s)
    /\ Become(r, [Free EXCEPT !.pc = "joinInsert", !.who = l, !.session = s])
    /\ UNCHANGED <<clock, release, tables, view, shown, faults>>

\* Faulty: relies on the existence check, with foreign keys left off.
JoinInsertUnchecked(r) ==
    /\ At(r, "joinInsert")
    /\ member' = [member EXCEPT ![req[r].who] = req[r].session]
    /\ Goto(r, "joined")
    /\ UNCHANGED <<clock, release, sessions, contest, ledger, certs,
                   view, shown, faults>>

\* The foreign key judges the session again, at the moment of the INSERT.
JoinInsert(r) ==
    /\ At(r, "joinInsert")
    /\ IF Stored(req[r].session)
       THEN /\ member' = [member EXCEPT ![req[r].who] = req[r].session]
            /\ Goto(r, "joined")
       ELSE Become(r, Free) /\ UNCHANGED member
    /\ UNCHANGED <<clock, release, sessions, contest, ledger, certs,
                   view, shown, faults>>

-----------------------------------------------------------------------------
(* Completions: stamped first, written when the write lock is free.        *)

CompleteStamp(r, l, m) ==
    /\ At(r, "free")
    /\ member[l] # None
    /\ m \in Catalogue \ Done(l)
    /\ Become(r, [Free EXCEPT !.pc = "write", !.who = l, !.mission = m,
                              !.stamp = clock])
    /\ UNCHANGED <<clock, release, tables, view, shown, faults>>

\* Faulty: the second of two requests replaces the row of the first.
CompleteOrReplace(r) ==
    /\ At(r, "write")
    /\ ledger' = [ledger EXCEPT ![req[r].who][req[r].mission] = req[r].stamp]
    /\ Become(r, Free)
    /\ UNCHANGED <<clock, release, sessions, contest, member, certs,
                   view, shown, faults>>

CompleteWrite(r) ==
    /\ At(r, "write")
    /\ ledger' = IF ledger[req[r].who][req[r].mission] = NotYet
                 THEN [ledger EXCEPT
                           ![req[r].who][req[r].mission] = req[r].stamp]
                 ELSE ledger
    /\ Become(r, Free)
    /\ UNCHANGED <<clock, release, sessions, contest, member, certs,
                   view, shown, faults>>

-----------------------------------------------------------------------------
(* issue_certificate: look, judge the badge, sign and insert, read again.  *)

\* Badge::all_for for one tree: judged by the catalogue of this build.
Earned(l, t) ==
    /\ TreeMissions[release][t] # {}
    /\ TreeMissions[release][t] \subseteq Done(l)

Times(l, t) == {ledger[l][m] : m \in TreeMissions[release][t]}

\* Faulty: takes the first completion of the tree instead of the last.
First(l, t) == {at \in Times(l, t) : \A other \in Times(l, t) : at <= other}

\* earned_at: the completion of the tree that no other one follows.
Latest(l, t) == {at \in Times(l, t) : \A other \in Times(l, t) : other <= at}

\* Faulty: judges the badge before it looks for the certificate.
CertLookLate(r, l, t) ==
    /\ At(r, "free")
    /\ member[l] # None
    /\ Become(r, [Free EXCEPT
           !.pc = IF ~Earned(l, t) THEN "notEarned"
                  ELSE IF certs[l][t] # NoCert THEN "issued" ELSE "certBadge",
           !.who = l, !.tree = t,
           !.cert = certs[l][t], !.had = certs[l][t] # NoCert])
    /\ UNCHANGED <<clock, release, tables, view, shown, faults>>

CertLook(r, l, t) ==
    /\ At(r, "free")
    /\ member[l] # None
    /\ Become(r, [Free EXCEPT
           !.pc = IF certs[l][t] # NoCert THEN "issued" ELSE "certBadge",
           !.who = l, !.tree = t,
           !.cert = certs[l][t], !.had = certs[l][t] # NoCert])
    /\ UNCHANGED <<clock, release, tables, view, shown, faults>>

Sign(r, at) ==
    Become(r, [req[r] EXCEPT
        !.pc = "certInsert",
        !.cert = [by |-> r, build |-> release,
                  earned_at |-> at, issued_at |-> clock]])

\* Faulty: believes the caller that the badge is earned.
CertBadgeUnchecked(r) ==
    /\ At(r, "certBadge")
    /\ \E at \in Latest(req[r].who, req[r].tree) : Sign(r, at)
    /\ UNCHANGED <<clock, release, tables, view, shown, faults>>

\* Reads the completions, and the name for the text of the event.
CertBadge(r) ==
    /\ At(r, "certBadge")
    /\ IF Earned(req[r].who, req[r].tree)
       THEN \E at \in Latest(req[r].who, req[r].tree) : Sign(r, at)
       ELSE Goto(r, "notEarned")
    /\ UNCHANGED <<clock, release, tables, view, shown, faults>>

\* ON CONFLICT (participant_id, tree) DO NOTHING.
CertInsert(r) ==
    /\ At(r, "certInsert")
    /\ LET l == req[r].who  t == req[r].tree IN
       certs' = IF certs[l][t] = NoCert
                THEN [certs EXCEPT ![l][t] = req[r].cert]
                ELSE certs
    /\ Goto(r, "certRead")
    /\ UNCHANGED <<clock, release, sessions, contest, member, ledger,
                   view, shown, faults>>

\* Faulty: answers with the event it signed itself.
CertAnswerOwn(r) ==
    /\ At(r, "certRead")
    /\ Goto(r, "issued")
    /\ UNCHANGED <<clock, release, tables, view, shown, faults>>

CertRead(r) ==
    /\ At(r, "certRead")
    /\ Become(r, [req[r] EXCEPT !.pc = "issued",
                      !.cert = certs[req[r].who][req[r].tree]])
    /\ UNCHANGED <<clock, release, tables, view, shown, faults>>

-----------------------------------------------------------------------------
(* The leaderboard and the page that polls it.                             *)

StatusFor(c) ==
    IF clock < c.starts_at THEN "upcoming"
    ELSE IF clock <= c.ends_at THEN "live"
    ELSE "ended"

\* Faulty: the upper end of the window is left out of the filter.
CountedSinceStart(l, c) ==
    {m \in c.missions \cap Done(l) : c.starts_at <= ledger[l][m]}

\* The completions of l that count for challenge c.
Counted(l, c) ==
    {m \in c.missions \cap Done(l) :
        c.starts_at <= ledger[l][m] /\ ledger[l][m] <= c.ends_at}

OpenBoard(s) ==
    /\ view.pc = "closed"
    /\ contest[s] # None
    /\ view' = [view EXCEPT !.pc = "idle", !.of = s]
    /\ UNCHANGED <<clock, release, tables, req, shown, faults>>

\* Faulty: no more polls once the status is "ended".
SeePeopleUntilEnd ==
    /\ view.pc = "idle"
    /\ shown.status # "ended"
    /\ view' = [view EXCEPT
           !.pc = "people", !.people = {l \in Learners : member[l] = view.of}]
    /\ UNCHANGED <<clock, release, tables, req, shown, faults>>

\* A poll: the challenge's row never changes, the participants come first.
SeePeople ==
    /\ view.pc = "idle"
    /\ view' = [view EXCEPT
           !.pc = "people", !.people = {l \in Learners : member[l] = view.of}]
    /\ UNCHANGED <<clock, release, tables, req, shown, faults>>

SeeLedger ==
    /\ view.pc = "people"
    /\ view' = [view EXCEPT
           !.pc = "ledger",
           !.cleared = [l \in Learners |->
                            IF l \in view.people
                            THEN Counted(l, contest[view.of]) ELSE {}]]
    /\ UNCHANGED <<clock, release, tables, req, shown, faults>>

Rest == [view EXCEPT !.pc = "idle", !.people = {},
                     !.cleared = [l \in Learners |-> {}]]

\* The status is taken when the rows are in hand, not when they were read.
ShowBoard ==
    /\ view.pc = "ledger"
    /\ shown' = [status |-> StatusFor(contest[view.of]),
                 people |-> view.people, cleared |-> view.cleared]
    /\ view' = Rest
    /\ UNCHANGED <<clock, release, tables, req, faults>>

-----------------------------------------------------------------------------
(* Faults, deploys and time.                                               *)

Fault == faults < MaxFaults /\ faults' = faults + 1

\* A write that fails, or a handler dropped before its next statement.
Drop(r) ==
    /\ req[r].pc \in Pending
    /\ Fault
    /\ Become(r, Free)
    /\ UNCHANGED <<clock, release, tables, view, shown>>

PollFails ==
    /\ view.pc \in {"people", "ledger"}
    /\ Fault
    /\ view' = Rest
    /\ UNCHANGED <<clock, release, tables, req, shown>>

Forget(r) ==
    /\ req[r].pc \in Answered
    /\ Become(r, Free)
    /\ UNCHANGED <<clock, release, tables, view, shown, faults>>

\* The process restarts as the next build; what was in flight dies with it.
Deploy ==
    /\ release < Releases
    /\ release' = release + 1
    /\ req' = [r \in Requests |->
           IF req[r].pc \in Pending THEN Free ELSE req[r]]
    /\ view' = IF view.pc \in {"people", "ledger"} THEN Rest ELSE view
    /\ UNCHANGED <<clock, tables, shown, faults>>

\* No handler outlives the timeout, so none writes a stamp older than that.
Tick ==
    /\ clock < LastTime
    /\ \A r \in Requests : At(r, "write") => clock < req[r].stamp + Timeout
    /\ clock' = clock + 1
    /\ UNCHANGED <<release, tables, req, view, shown, faults>>

-----------------------------------------------------------------------------

RequestStep(r) ==
    \/ \E l \in Learners, s \in Sessions : JoinCheck(r, l, s)
    \/ JoinInsert(r)
    \/ \E l \in Learners, m \in Lessons : CompleteStamp(r, l, m)
    \/ CompleteWrite(r)
    \/ \E l \in Learners, t \in Trees : CertLook(r, l, t)
    \/ CertBadge(r)
    \/ CertInsert(r)
    \/ CertRead(r)
    \/ Drop(r)
    \/ Forget(r)

ViewStep ==
    \/ \E s \in Sessions : OpenBoard(s)
    \/ SeePeople
    \/ SeeLedger
    \/ ShowBoard
    \/ PollFails

Next ==
    \/ \E s \in Sessions : CreateSession(s)
    \/ \E s \in Sessions, c \in Contests : CreateChallenge(s, c)
    \/ PruneEmptySessions
    \/ \E r \in Requests : RequestStep(r)
    \/ ViewStep
    \/ Deploy
    \/ Tick

Spec == Init /\ [][Next]_vars

\* An open page polls at a fixed interval whatever it was last told, and the
\* server answers what it is asked.
Fairness == WF_vars(SeePeople) /\ WF_vars(SeeLedger) /\ WF_vars(ShowBoard)

LiveSpec == Spec /\ Fairness

-----------------------------------------------------------------------------
(* Properties.                                                             *)

Certificates ==
    [by : Requests, build : 1..Releases,
     earned_at : 1..LastTime, issued_at : 1..LastTime] \cup {NoCert}

Boards == [Learners -> SUBSET Lessons]

\* Every variable keeps its type.
TypeOK ==
    /\ clock \in 1..LastTime
    /\ release \in 1..Releases
    /\ sessions \in [Sessions -> [state : {"unborn", "stored", "pruned"},
                                  created_at : 0..LastTime]]
    /\ contest \in [Sessions -> Contests \cup {None}]
    /\ member \in [Learners -> Sessions \cup {None}]
    /\ ledger \in [Learners -> [Lessons -> 0..LastTime]]
    /\ certs \in [Learners -> [Trees -> Certificates]]
    /\ req \in [Requests ->
           [pc : Pending \cup Answered \cup {"free"},
            who : Learners \cup {None}, session : Sessions \cup {None},
            mission : Lessons \cup {None}, tree : Trees \cup {None},
            stamp : 0..LastTime, cert : Certificates, had : BOOLEAN]]
    /\ view \in [pc : {"closed", "idle", "people", "ledger"},
                 of : Sessions \cup {None}, people : SUBSET Learners,
                 cleared : Boards]
    /\ shown \in [status : {"loading", "upcoming", "live", "ended"},
                  people : SUBSET Learners, cleared : Boards]
    /\ faults \in 0..MaxFaults

\* The sweep may delete a session between the existence check of a join and
\* its INSERT, or before a challenge opens: still every learner and every
\* challenge has its session, and a join that was answered stands.
NobodyOrphaned ==
    /\ \A l \in Learners : member[l] # None => Stored(member[l])
    /\ \A s \in Sessions : contest[s] # None => Stored(s)
    /\ \A r \in Requests :
           At(r, "joined") => member[req[r].who] = req[r].session

\* Of several requests for one certificate all the callers hold the same one:
\* the stored row, now and for as long as the answer is kept.
OneCertificate ==
    \A r \in Requests :
        At(r, "issued") => /\ req[r].cert = certs[req[r].who][req[r].tree]
                           /\ req[r].cert # NoCert

\* A stored certificate says what the ledger says: in the build that signed
\* it every lesson of the tree was completed, the last one at earned_at.
CertificateTrue ==
    \A l \in Learners, t \in Trees :
        LET c == certs[l][t] IN
        c # NoCert =>
            /\ \A m \in TreeMissions[c.build][t] :
                   ledger[l][m] \in 1..c.earned_at
            /\ \E m \in TreeMissions[c.build][t] : ledger[l][m] = c.earned_at
            /\ c.earned_at <= c.issued_at

\* Whoever has a certificate is never told that the badge is not earned, not
\* even after a deploy that added a lesson to the tree.
CertificateHonoured ==
    \A r \in Requests : At(r, "notEarned") => ~req[r].had

\* On an open leaderboard no pilot disappears, no score falls, and the
\* status only moves forward.
BoardOnlyGrows ==
    [][/\ shown.people \subseteq shown'.people
       /\ \A l \in Learners : shown.cleared[l] \subseteq shown'.cleared[l]
       /\ shown.status = "ended" => shown'.status = "ended"
       /\ shown.status = "live" => shown'.status # "upcoming"]_shown

\* No request that was stamped inside the window can still be on its way.
Settled(s) == contest[s] # None /\ clock > contest[s].ends_at + Timeout

\* A completion may still enter after the end of a challenge, but once the
\* request timeout has passed as well no score moves any more.
ScoresSettle ==
    [][\A s \in Sessions, l \in Learners :
           Settled(s) => Counted(l, contest[s])' = Counted(l, contest[s])]_vars

FinalOnScreen ==
    /\ shown.status = "ended"
    /\ \A l \in Learners :
           /\ l \in shown.people <=> member[l] = view.of
           /\ l \in shown.people => shown.cleared[l] = Counted(l, contest[view.of])

\* A page that stays open ends up with the final scores, although a poll may
\* fail, and may be told "ended" with rows that were read before the end.
FinalShown ==
    (view.of # None /\ Settled(view.of)) ~> []FinalOnScreen

=============================================================================
