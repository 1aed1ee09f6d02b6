------------------------------ MODULE Progress ------------------------------
(***************************************************************************)
(* How a learner's progress is recorded: POST /api/missions/complete, with *)
(* any number of requests in flight at once (a second tab, a retry after a *)
(* lost answer, a second device), each one split at the points where the   *)
(* handler awaits the database or the network.                             *)
(*                                                                         *)
(* The database is SQLite in WAL mode: readers see the last commit, and a  *)
(* transaction holds the only write lock from its first statement, which   *)
(* is a write in every transaction of the code, until it ends.             *)
(***************************************************************************)
EXTENDS Integers, Sequences, FiniteSets

CONSTANTS
    Learners,         \* participants, already joined
    Missions,         \* every lesson id of every release
    Trees,            \* skill trees
    Journeys,         \* practical goals: routes that may cross trees
    Requests,         \* slots for in-flight completion requests
    Keys,             \* Nostr public keys a learner can submit
    IdentityMissions, \* missions whose proof is the learner's Nostr key
    Releases,         \* number of builds deployed one after the other
    TreeMissions,     \* TreeMissions[k][t]: ordered lessons of t in build k
    JourneyMissions,  \* JourneyMissions[j]: ordered lessons of j
    FirstDay,         \* UTC day on which the model starts
    LastDay,          \* bound: the last day the clock reaches
    MaxFaults,        \* bound: dropped requests, busy timeouts and restarts
    None              \* no mission, no journey, no key, no request

ASSUME ConstantsAssumption ==
    /\ Releases \in Nat \ {0}
    /\ TreeMissions \in [1..Releases -> [Trees -> Seq(Missions)]]
    /\ JourneyMissions \in [Journeys -> Seq(Missions)]
    /\ IdentityMissions \subseteq Missions
    /\ FirstDay \in Nat /\ FirstDay >= 2
    /\ LastDay \in Nat /\ MaxFaults \in Nat
    /\ None \notin Missions \cup Journeys \cup Keys \cup Requests

VARIABLES
    release,   \* the build that is running
    day,       \* the server's clock, in UTC days (unix seconds / 86400)
    ledger,    \* mission_completions: day of completed_at, NotYet without row
    row,       \* participants: the columns a completion reads or writes
    req,       \* what each in-flight request holds in its local variables
    writer,    \* the request whose transaction holds the write lock, or None
    credited,  \* history: the days on which a completion credited the streak
    faults     \* history: faults so far, for the bound MaxFaults

vars == <<release, day, ledger, row, req, writer, credited, faults>>

-----------------------------------------------------------------------------
(* The catalogue: pure functions of the running build.                     *)

MissionsOf(s) == {s[i] : i \in DOMAIN s}

TreeList(t) == TreeMissions[release][t]

Catalogue == UNION {MissionsOf(TreeList(t)) : t \in Trees}

FromMission(m) == CHOOSE t \in Trees : m \in MissionsOf(TreeList(t))

IsFirstIncomplete(s, done, i) ==
    /\ i \in DOMAIN s
    /\ s[i] \notin done
    /\ \A j \in 1..(i - 1) : s[j] \in done

\* The first mission of the ordered list s that is not completed, or None.
NextIncomplete(s, done) ==
    IF \E i \in DOMAIN s : IsFirstIncomplete(s, done, i)
    THEN s[CHOOSE i \in DOMAIN s : IsFirstIncomplete(s, done, i)]
    ELSE None

\* Faulty: trusts a stored pointer without asking the ledger.
HydrateFromCache(stored, done) ==
    [t \in Trees |->
        IF stored[t] \in MissionsOf(TreeList(t))
        THEN stored[t]
        ELSE NextIncomplete(TreeList(t), done)]

\* Faulty: trusts a stored null, "tree complete", as well.
HydrateTrustsNull(stored, done) ==
    [t \in Trees |->
        IF \/ stored[t] \in MissionsOf(TreeList(t)) \ done
           \/ stored[t] = None /\ done # {}
        THEN stored[t]
        ELSE NextIncomplete(TreeList(t), done)]

\* The pointers a load derives: a stored one is trusted only while it names
\* an outstanding mission of its tree.
HydratePerTree(stored, done) ==
    [t \in Trees |->
        IF stored[t] \in MissionsOf(TreeList(t)) \ done
        THEN stored[t]
        ELSE NextIncomplete(TreeList(t), done)]

JourneyPointer(j, done) ==
    IF j = None THEN None ELSE NextIncomplete(JourneyMissions[j], done)

-----------------------------------------------------------------------------
(* The stored state and the requests.                                      *)

NotYet == 0
NoPointers == [t \in Trees |-> None]

Done(l) == {m \in Missions : ledger[l][m] # NotYet}

\* The pointers any loader returns for l if it runs now.
Pointers(l) == HydratePerTree(row[l].perTree, Done(l))

Pending == {"row", "ledger", "verify", "bind", "insert", "commit",
            "reloadRow", "reloadLedger"}
Answered == {"ok", "already", "failed"}

\* A request record that holds nothing yet but its place, author and mission.
Fresh(pc, l, m) == [pc |-> pc, who |-> l, mission |-> m,
                    perTree |-> NoPointers, journey |-> None, done |-> {},
                    stamp |-> 0, today |-> 0]

Idle == Fresh("idle", None, None)

At(r, pc) == req[r].pc = pc
Me(r) == req[r].who

Become(r, record) == req' = [req EXCEPT ![r] = record]
Goto(r, pc) == Become(r, [req[r] EXCEPT !.pc = pc])
Answer(r, verdict) == Become(r, Fresh(verdict, Me(r), req[r].mission))

Init ==
    /\ release = 1
    /\ day = FirstDay
    /\ ledger = [l \in Learners |-> [m \in Missions |-> NotYet]]
    /\ row \in [Learners -> [perTree : {NoPointers},
                             journey : Journeys \cup {None},
                             streakCount : {0}, streakDay : {0},
                             pubkey : {None}]]
    /\ req = [r \in Requests |-> Idle]
    /\ writer = None
    /\ credited = [l \in Learners |-> {}]
    /\ faults = 0

-----------------------------------------------------------------------------
(* complete_mission, one action per stretch between two awaits.            *)

\* An authenticated request arrives; the mission passes the range check.
Submit(r, l, m) ==
    /\ At(r, "idle")
    /\ m \in Catalogue
    /\ Become(r, Fresh("row", l, m))
    /\ UNCHANGED <<release, day, ledger, row, writer, credited, faults>>

\* load_participant, first query.
LoadRow(r) ==
    /\ At(r, "row")
    /\ Become(r, [req[r] EXCEPT !.pc = "ledger",
                                !.perTree = row[Me(r)].perTree,
                                !.journey = row[Me(r)].journey])
    /\ UNCHANGED <<release, day, ledger, row, writer, credited, faults>>

\* Faulty: any outstanding mission of the journey passes.
AtGateAnywhereOnJourney(perTree, journey, done, m) ==
    \/ perTree[FromMission(m)] = m
    \/ journey # None /\ m \in MissionsOf(JourneyMissions[journey])

\* The gate: the mission is the next one of its tree or of the journey.
AtGate(perTree, journey, done, m) ==
    \/ perTree[FromMission(m)] = m
    \/ JourneyPointer(journey, done) = m

\* load_participant, second query, when the handler refuses the request.
RefuseCompleted(r) ==
    /\ At(r, "ledger")
    /\ req[r].mission \in Done(Me(r))
    /\ Answer(r, "already")
    /\ UNCHANGED <<release, day, ledger, row, writer, credited, faults>>

RefuseGate(r) ==
    LET done == Done(Me(r))
        loaded == HydratePerTree(req[r].perTree, done)
    IN  /\ At(r, "ledger")
        /\ req[r].mission \notin done
        /\ ~AtGate(loaded, req[r].journey, done, req[r].mission)
        /\ Answer(r, "failed")
        /\ UNCHANGED <<release, day, ledger, row, writer, credited, faults>>

\* load_participant, second query, when the mission may be attempted.
PassGate(r) ==
    LET done == Done(Me(r))
        loaded == HydratePerTree(req[r].perTree, done)
    IN  /\ At(r, "ledger")
        /\ req[r].mission \notin done
        /\ AtGate(loaded, req[r].journey, done, req[r].mission)
        /\ Become(r, [req[r] EXCEPT !.pc = "verify", !.perTree = loaded,
                                    !.done = done, !.journey = None])
        /\ UNCHANGED <<release, day, ledger, row, writer, credited, faults>>

\* Faulty: the identity is written only if the lock happens to be free.
AcceptProofBestEffort(r) ==
    /\ At(r, "verify")
    /\ IF req[r].mission \in IdentityMissions /\ writer = None
       THEN \E k \in Keys : row' = [row EXCEPT ![Me(r)].pubkey = k]
       ELSE row' = row
    /\ Goto(r, "bind")
    /\ UNCHANGED <<release, day, ledger, writer, credited, faults>>

\* verify_proof. What a proof is checked against belongs to other modules;
\* here any proof may be valid. An identity proof is stored at once, by a
\* statement of its own, before anything else is.
AcceptProof(r) ==
    /\ At(r, "verify")
    /\ IF req[r].mission \in IdentityMissions
       THEN /\ writer = None
            /\ \E k \in Keys : row' = [row EXCEPT ![Me(r)].pubkey = k]
       ELSE row' = row
    /\ Goto(r, "bind")
    /\ UNCHANGED <<release, day, ledger, writer, credited, faults>>

RejectProof(r) ==
    /\ At(r, "verify")
    /\ Answer(r, "failed")
    /\ UNCHANGED <<release, day, ledger, row, writer, credited, faults>>

\* completed_at is bound to the clock before the INSERT waits for the lock.
BindStamp(r) ==
    /\ At(r, "bind")
    /\ Become(r, [req[r] EXCEPT !.pc = "insert", !.stamp = day])
    /\ UNCHANGED <<release, day, ledger, row, writer, credited, faults>>

\* Faulty: `today` is taken together with completed_at, before the lock.
InsertWithEarlyDay(r) ==
    /\ At(r, "insert")
    /\ writer = None
    /\ req[r].mission \notin Done(Me(r))
    /\ writer' = r
    /\ Become(r, [req[r] EXCEPT !.pc = "commit", !.today = req[r].stamp])
    /\ UNCHANGED <<release, day, ledger, row, credited, faults>>

\* The INSERT takes the write lock; `today` is read once it has returned.
InsertCompletion(r) ==
    /\ At(r, "insert")
    /\ writer = None
    /\ req[r].mission \notin Done(Me(r))
    /\ writer' = r
    /\ Become(r, [req[r] EXCEPT !.pc = "commit", !.today = day])
    /\ UNCHANGED <<release, day, ledger, row, credited, faults>>

\* The primary key (participant, mission) refuses a second row.
InsertConflict(r) ==
    /\ At(r, "insert")
    /\ writer = None
    /\ req[r].mission \in Done(Me(r))
    /\ Answer(r, "failed")
    /\ UNCHANGED <<release, day, ledger, row, writer, credited, faults>>

\* Faulty: the error of the INSERT is swallowed.
InsertBusyIgnored(r) ==
    /\ At(r, "insert")
    /\ writer # None
    /\ faults < MaxFaults
    /\ faults' = faults + 1
    /\ Goto(r, "reloadRow")
    /\ UNCHANGED <<release, day, ledger, row, writer, credited>>

\* The lock is not free within busy_timeout.
InsertBusy(r) ==
    /\ At(r, "insert")
    /\ writer # None
    /\ faults < MaxFaults
    /\ faults' = faults + 1
    /\ Answer(r, "failed")
    /\ UNCHANGED <<release, day, ledger, row, writer, credited>>

\* Faulty: a second completion on the same day starts over.
StreakAfterEachCompletion(count, last, today) ==
    IF last = today - 1 THEN count + 1 ELSE 1

\* The CASE of the UPDATE, on the columns as they are under the lock.
StreakAfter(count, last, today) ==
    IF last = today THEN count ELSE IF last = today - 1 THEN count + 1 ELSE 1

\* The UPDATE and the commit: the whole pointer map the handler loaded is
\* written back, with this tree's entry moved on.
CommitCompletion(r) ==
    LET l == Me(r)
        m == req[r].mission
        t == FromMission(m)
        next == NextIncomplete(TreeList(t), req[r].done \cup {m})
    IN  /\ At(r, "commit")
        /\ ledger' = [ledger EXCEPT ![l][m] = req[r].stamp]
        /\ row' = [row EXCEPT
                     ![l].perTree = [req[r].perTree EXCEPT ![t] = next],
                     ![l].streakCount = StreakAfter(row[l].streakCount,
                                            row[l].streakDay, req[r].today),
                     ![l].streakDay = req[r].today]
        /\ credited' = [credited EXCEPT ![l] = @ \cup {req[r].today}]
        /\ writer' = None
        /\ Become(r, Fresh("reloadRow", l, m))
        /\ UNCHANGED <<release, day, faults>>

\* load_participant again, for the answer.
ReloadRow(r) ==
    /\ At(r, "reloadRow")
    /\ Become(r, [req[r] EXCEPT !.pc = "reloadLedger",
                                !.perTree = row[Me(r)].perTree])
    /\ UNCHANGED <<release, day, ledger, row, writer, credited, faults>>

ReloadLedger(r) ==
    LET done == Done(Me(r))
    IN  /\ At(r, "reloadLedger")
        /\ Become(r, [req[r] EXCEPT !.pc = "ok", !.done = done,
                                    !.perTree = HydratePerTree(@, done)])
        /\ UNCHANGED <<release, day, ledger, row, writer, credited, faults>>

\* The learner's client receives the answer.
Deliver(r) ==
    /\ req[r].pc \in Answered
    /\ Become(r, Idle)
    /\ UNCHANGED <<release, day, ledger, row, writer, credited, faults>>

\* Faulty: the transaction of a dropped handler stays open.
DropLeavesTransaction(r) ==
    /\ req[r].pc \in Pending \cup Answered
    /\ faults < MaxFaults
    /\ faults' = faults + 1
    /\ Become(r, Idle)
    /\ UNCHANGED <<release, day, ledger, row, writer, credited>>

\* The request timeout or a closed connection drops the handler between two
\* awaits; an open transaction rolls back and the answer is never sent.
Drop(r) ==
    /\ req[r].pc \in Pending \cup Answered
    /\ faults < MaxFaults
    /\ faults' = faults + 1
    /\ Become(r, Idle)
    /\ writer' = IF writer = r THEN None ELSE writer
    /\ UNCHANGED <<release, day, ledger, row, credited>>

-----------------------------------------------------------------------------
(* What else touches the same state.                                       *)

\* update_profile: one UPDATE, which waits for the write lock.
UpdateProfile(l, j) ==
    /\ writer = None
    /\ row[l].journey # j
    /\ row' = [row EXCEPT ![l].journey = j]
    /\ UNCHANGED <<release, day, ledger, req, writer, credited, faults>>

NextDay ==
    /\ day < LastDay
    /\ day' = day + 1
    /\ UNCHANGED <<release, ledger, row, req, writer, credited, faults>>

\* The process stops and starts again, on the same build or on the next one:
\* what was in flight is gone, what was committed stays.
Restart(build) ==
    /\ release' = build
    /\ req' = [r \in Requests |-> Idle]
    /\ writer' = None
    /\ UNCHANGED <<day, ledger, row, credited>>

Crash ==
    /\ faults < MaxFaults
    /\ faults' = faults + 1
    /\ Restart(release)

Deploy ==
    /\ release < Releases
    /\ UNCHANGED faults
    /\ Restart(release + 1)

-----------------------------------------------------------------------------
Handle(r) ==
    \/ LoadRow(r) \/ RefuseCompleted(r) \/ RefuseGate(r) \/ PassGate(r)
    \/ BindStamp(r) \/ InsertCompletion(r) \/ InsertConflict(r)
    \/ CommitCompletion(r) \/ ReloadRow(r) \/ ReloadLedger(r) \/ Deliver(r)

Next ==
    \/ \E r \in Requests :
          \/ \E l \in Learners, m \in Missions : Submit(r, l, m)
          \/ Handle(r)
          \/ AcceptProof(r) \/ RejectProof(r)
          \/ InsertBusy(r) \/ Drop(r)
    \/ \E l \in Learners, j \in Journeys \cup {None} : UpdateProfile(l, j)
    \/ NextDay \/ Crash \/ Deploy

Spec == Init /\ [][Next]_vars

\* The learner keeps submitting the next mission of every unfinished tree,
\* and a proof of it is accepted now and then; the runtime keeps polling the
\* handlers. Nothing obliges the clock, a deploy or a fault to happen.
SubmitNext(l, t) == \E r \in Requests : Submit(r, l, Pointers(l)[t])
AcceptNext(l, t) == \E r \in Requests : /\ Me(r) = l
                                        /\ req[r].mission = Pointers(l)[t]
                                        /\ AcceptProof(r)

Fairness ==
    /\ \A r \in Requests : WF_vars(Handle(r))
    /\ \A r \in Requests : WF_vars(AcceptProof(r) \/ RejectProof(r))
    /\ \A l \in Learners, t \in Trees : SF_vars(SubmitNext(l, t))
                                        /\ SF_vars(AcceptNext(l, t))

FairSpec == Spec /\ Fairness

-----------------------------------------------------------------------------
(* Properties.                                                             *)

Pointer == Missions \cup {None}

Row == [perTree : [Trees -> Pointer], journey : Journeys \cup {None},
        streakCount : Nat, streakDay : Nat, pubkey : Keys \cup {None}]

Request == [pc : {"idle"} \cup Pending \cup Answered,
            who : Learners \cup {None}, mission : Pointer,
            perTree : [Trees -> Pointer], journey : Journeys \cup {None},
            done : SUBSET Missions, stamp : Nat, today : Nat]

OneWriter == \A r \in Requests : At(r, "commit") <=> writer = r

\* Every variable has its type, a request that is not idle has an author and
\* a mission, and it holds the write lock exactly while it is between its
\* INSERT and its commit.
TypeOK ==
    /\ release \in 1..Releases
    /\ day \in Nat /\ day >= FirstDay
    /\ ledger \in [Learners -> [Missions -> Nat]]
    /\ row \in [Learners -> Row]
    /\ req \in [Requests -> Request]
    /\ writer \in Requests \cup {None}
    /\ credited \in [Learners -> SUBSET Nat]
    /\ faults \in Nat
    /\ \A r \in Requests : ~At(r, "idle") => /\ Me(r) \in Learners
                                             /\ req[r].mission \in Missions
    /\ OneWriter

\* Position i of an ordered list has been reached: what precedes it is done.
ReachedIn(s, m, done) ==
    \E i \in DOMAIN s : s[i] = m /\ \A j \in 1..(i - 1) : s[j] \in done

\* The mission was next in its tree, as one of the first n builds ordered it,
\* or next on some journey.
ReachedBy(n, m, done) ==
    \/ \E k \in 1..n, t \in Trees : ReachedIn(TreeMissions[k][t], m, done)
    \/ \E j \in Journeys : ReachedIn(JourneyMissions[j], m, done)

Reached(m, done) == ReachedBy(release, m, done)

\* No interleaving of requests, journey changes and deploys records a mission
\* out of order: what precedes it on its tree or on a journey is recorded.
GateOrder == \A l \in Learners : \A m \in Done(l) : Reached(m, Done(l))

\* The pointer a learner is shown never locks a lesson away or offers one
\* early: no pointer means a finished tree, and a pointer names an outstanding
\* mission of the tree that has been reached, whichever request's map was
\* written last and whatever a deploy added to the tree.
PointersSound ==
    \A l \in Learners, t \in Trees :
        LET p == Pointers(l)[t] IN
        IF p = None
        THEN MissionsOf(TreeList(t)) \subseteq Done(l)
        ELSE /\ p \in MissionsOf(TreeList(t)) \ Done(l)
             /\ Reached(p, Done(l))

\* The streak is the number of consecutive credited days that ends on
\* streak_day, the last credited day, however completions overlap midnight.
StreakExact ==
    \A l \in Learners :
        LET n == row[l].streakCount
            d == row[l].streakDay
        IN  /\ credited[l] = {} <=> n = 0
            /\ n # 0 => /\ \A c \in (d - n + 1)..d : c \in credited[l]
                        /\ d - n \notin credited[l]
                        /\ \A c \in credited[l] : c <= d

\* An answer tells the truth about the database: success and "already
\* completed" both mean the row is there, and the participant of a success
\* includes the mission and no longer points at it.
AnswersTrue ==
    \A r \in Requests :
        /\ req[r].pc \in {"ok", "already"} => req[r].mission \in Done(Me(r))
        /\ At(r, "ok") => /\ req[r].mission \in req[r].done
                          /\ req[r].mission \notin {req[r].perTree[t] : t \in Trees}

\* The identity lesson is never on record for a learner without a key.
IdentityBound ==
    \A l \in Learners :
        Done(l) \cap IdentityMissions # {} => row[l].pubkey # None

\* A completion is recorded once: no later request, retry or restart removes
\* it or changes when it happened.
LedgerPermanent ==
    [][\A l \in Learners, m \in Missions :
          ledger[l][m] # NotYet => ledger'[l][m] = ledger[l][m]]_vars

\* streak_day never moves back, and a streak is only lost to a missed day.
StreakKept ==
    [][\A l \in Learners :
          /\ row'[l].streakDay >= row[l].streakDay
          /\ row'[l].streakCount < row[l].streakCount
                => row'[l].streakDay > row[l].streakDay + 1]_vars

\* A learner who keeps trying finishes every tree, including what a deploy
\* adds to a tree that was already finished.
TreesFinished ==
    \A l \in Learners, t \in Trees :
        <>[](MissionsOf(TreeList(t)) \subseteq Done(l))

-----------------------------------------------------------------------------
(* The abstract specification.                                             *)

\* The ordered lists of the first k builds, and the journeys.
RoutesBy(k) == {TreeMissions[b][t] : b \in 1..k, t \in Trees}
                  \cup {JourneyMissions[j] : j \in Journeys}

Abstract == INSTANCE Course WITH
    Routes     <- [k \in 1..Releases |-> RoutesBy(k)],
    done       <- [l \in Learners |-> Done(l)],
    streak     <- [l \in Learners |-> [length |-> row[l].streakCount,
                                       last |-> row[l].streakDay]],
    identified <- {l \in Learners : row[l].pubkey # None}

\* However requests, retries, profile changes, midnights, deploys and crashes
\* interleave, the database is that of the atomic course: a lesson enters the
\* record once, in order, with its identity in place, in one step with the
\* streak, and nothing is ever lost.
ImplementsCourse == Abstract!Spec

=============================================================================
