--------------------------- MODULE WorkshopProofs ---------------------------
(***************************************************************************)
(* What Workshop guarantees for any number of sessions, learners, lessons, *)
(* trees, builds and requests in flight.                                   *)
(***************************************************************************)
EXTENDS Workshop, TLAPS

-----------------------------------------------------------------------------
(* Type correctness                                                        *)

SessionRecord == [state : {"unborn", "stored", "pruned"},
                  created_at : 0..LastTime]
RequestRecord ==
    [pc : Pending \cup Answered \cup {"free"},
     who : Learners \cup {None}, session : Sessions \cup {None},
     mission : Lessons \cup {None}, tree : Trees \cup {None},
     stamp : 0..LastTime, cert : Certificates, had : BOOLEAN]
ViewRecord == [pc : {"closed", "idle", "people", "ledger"},
               of : Sessions \cup {None}, people : SUBSET Learners,
               cleared : Boards]
ShownRecord == [status : {"loading", "upcoming", "live", "ended"},
                people : SUBSET Learners, cleared : Boards]

\* What a request holds once it has passed its first check.
HoldsJoin(q) ==
    q.pc \in {"joinInsert", "joined"} => q.who \in Learners /\ q.session \in Sessions
HoldsWrite(q) ==
    q.pc = "write" =>
        /\ q.who \in Learners /\ q.mission \in Lessons
        /\ q.stamp \in 1..clock
        /\ clock <= q.stamp + Timeout
HoldsCert(q) ==
    q.pc \in {"certBadge", "certInsert", "certRead", "issued", "notEarned"} =>
        q.who \in Learners /\ q.tree \in Trees

Holds == \A r \in Requests :
             HoldsJoin(req[r]) /\ HoldsWrite(req[r]) /\ HoldsCert(req[r])

\* The ledger is never ahead of the clock.
LedgerPast == \A l \in Learners, m \in Lessons : ledger[l][m] <= clock

\* TypeOK by the names of the record sets, for leaves that need only some.
Typed ==
    /\ clock \in 1..LastTime /\ release \in 1..Releases
    /\ sessions \in [Sessions -> SessionRecord]
    /\ contest \in [Sessions -> Contests \cup {None}]
    /\ member \in [Learners -> Sessions \cup {None}]
    /\ ledger \in [Learners -> [Lessons -> 0..LastTime]]
    /\ certs \in [Learners -> [Trees -> Certificates]]
    /\ req \in [Requests -> RequestRecord]
    /\ view \in ViewRecord /\ shown \in ShownRecord
    /\ faults \in 0..MaxFaults

TypeInv == Typed /\ Holds /\ LedgerPast

LEMMA TypedIsTypeOK == Typed <=> TypeOK
  BY DEF Typed, TypeOK, SessionRecord, RequestRecord, ViewRecord, ShownRecord

LEMMA FreeTyped == Free \in RequestRecord /\ NoCert \in Certificates
  BY WorkshopAssumption DEF Free, RequestRecord, NoCert, Certificates

LEMMA InitType == Init => TypeInv
<1> SUFFICES ASSUME Init PROVE TypeInv
  OBVIOUS
<1> USE WorkshopAssumption
<1>1. clock = 1 /\ release = 1 /\ faults = 0
  BY DEF Init
<1>2. /\ sessions \in [Sessions -> SessionRecord]
      /\ contest \in [Sessions -> Contests \cup {None}]
      /\ member \in [Learners -> Sessions \cup {None}]
      /\ ledger \in [Learners -> [Lessons -> 0..LastTime]]
      /\ LedgerPast
  BY DEF Init, SessionRecord, Unborn, NotYet, LedgerPast
<1>3. certs \in [Learners -> [Trees -> Certificates]]
  BY FreeTyped DEF Init
<1>4. req \in [Requests -> RequestRecord] /\ Holds
  BY FreeTyped DEF Init, Holds, Free, HoldsJoin, HoldsWrite, HoldsCert
<1>5. view \in ViewRecord /\ shown \in ShownRecord
  BY DEF Init, ViewRecord, ShownRecord, Closed, NoBoard, Boards
<1> QED
  BY <1>1, <1>2, <1>3, <1>4, <1>5 DEF TypeInv, Typed

\* A step of one request: the others hold what they held.
LEMMA HoldsOne ==
    ASSUME TypeInv, NEW r \in Requests, NEW x \in RequestRecord,
           req' = [req EXCEPT ![r] = x], clock' = clock,
           HoldsJoin(x), HoldsWrite(x), HoldsCert(x)
    PROVE  req' \in [Requests -> RequestRecord] /\ Holds'
<1>1. req \in [Requests -> RequestRecord]
  BY DEF TypeInv, Typed
<1>2. \A q \in Requests : req'[q] = req[q] \/ req'[q] = x
  BY <1>1
<1> QED
  BY <1>1, <1>2 DEF TypeInv, Holds, HoldsJoin, HoldsWrite, HoldsCert

LEMMA RequestType ==
    ASSUME TypeInv, NEW r \in Requests, RequestStep(r)
    PROVE  TypeInv'
<1> USE WorkshopAssumption
<1> DEFINE q == req[r]
<1>0. /\ Typed /\ Holds /\ LedgerPast
      /\ q \in RequestRecord /\ HoldsJoin(q) /\ HoldsWrite(q) /\ HoldsCert(q)
  BY DEF TypeInv, Typed, Holds
<1>1. ASSUME NEW x \in RequestRecord, req' = [req EXCEPT ![r] = x],
             HoldsJoin(x), HoldsWrite(x), HoldsCert(x),
             UNCHANGED <<clock, release, tables, view, shown>>,
             faults' \in 0..MaxFaults
      PROVE  TypeInv'
  <2>1. req' \in [Requests -> RequestRecord] /\ Holds'
    BY <1>1, HoldsOne
  <2> QED
    BY <1>0, <1>1, <2>1 DEF TypeInv, Typed, LedgerPast, tables
<1>2. ASSUME NEW l \in Learners, NEW s \in Sessions, JoinCheck(r, l, s)
      PROVE  TypeInv'
  <2> DEFINE x == [Free EXCEPT !.pc = "joinInsert", !.who = l, !.session = s]
  <2>1. x \in RequestRecord /\ HoldsJoin(x) /\ HoldsWrite(x) /\ HoldsCert(x)
    BY FreeTyped DEF Free, RequestRecord, HoldsJoin, HoldsWrite, HoldsCert, Pending
  <2> QED
    BY <1>0, <1>1, <1>2, <2>1 DEF JoinCheck, Become, Typed
<1>3. CASE JoinInsert(r)
  <2>1. /\ q.who \in Learners /\ q.session \in Sessions
        /\ member' \in [Learners -> Sessions \cup {None}]
    BY <1>0, <1>3 DEF JoinInsert, At, HoldsJoin, Typed
  <2>2. /\ [q EXCEPT !.pc = "joined"] \in RequestRecord
        /\ HoldsJoin([q EXCEPT !.pc = "joined"])
        /\ HoldsWrite([q EXCEPT !.pc = "joined"])
        /\ HoldsCert([q EXCEPT !.pc = "joined"])
    BY <1>0, <2>1 DEF RequestRecord, HoldsJoin, HoldsWrite, HoldsCert, Answered
  <2>3. HoldsJoin(Free) /\ HoldsWrite(Free) /\ HoldsCert(Free)
    BY DEF HoldsJoin, HoldsWrite, HoldsCert, Free
  <2>4. req' \in [Requests -> RequestRecord] /\ Holds'
    BY <1>3, <2>2, <2>3, FreeTyped, HoldsOne DEF JoinInsert, Become, Goto
  <2> QED
    BY <1>0, <1>3, <2>1, <2>4 DEF JoinInsert, TypeInv, Typed, LedgerPast
<1>4. ASSUME NEW l \in Learners, NEW m \in Lessons, CompleteStamp(r, l, m)
      PROVE  TypeInv'
  <2> DEFINE x == [Free EXCEPT !.pc = "write", !.who = l, !.mission = m,
                               !.stamp = clock]
  <2>1. clock \in 1..LastTime /\ clock \in 0..LastTime /\ clock <= clock + Timeout
    BY <1>0 DEF Typed
  <2>2. x.pc = "write" /\ x.who = l /\ x.mission = m /\ x.stamp = clock
    BY DEF Free
  <2>3. x \in RequestRecord
    BY <2>1, FreeTyped DEF RequestRecord, Pending
  <2>4. HoldsJoin(x) /\ HoldsWrite(x) /\ HoldsCert(x)
    BY <2>1, <2>2 DEF HoldsJoin, HoldsWrite, HoldsCert
  <2> QED
    BY <1>0, <1>1, <1>4, <2>3, <2>4 DEF CompleteStamp, Become, Typed
<1>5. CASE CompleteWrite(r)
  <2>1. /\ q.who \in Learners /\ q.mission \in Lessons
        /\ q.stamp \in 1..clock /\ q.stamp \in 0..LastTime
    BY <1>0, <1>5 DEF CompleteWrite, At, HoldsWrite, RequestRecord
  <2>2. ledger' \in [Learners -> [Lessons -> 0..LastTime]] /\ LedgerPast'
    BY <1>0, <1>5, <2>1 DEF CompleteWrite, Typed, LedgerPast
  <2>3. HoldsJoin(Free) /\ HoldsWrite(Free) /\ HoldsCert(Free)
    BY DEF HoldsJoin, HoldsWrite, HoldsCert, Free
  <2>4. req' \in [Requests -> RequestRecord] /\ Holds'
    BY <1>5, <2>3, FreeTyped, HoldsOne DEF CompleteWrite, Become
  <2> QED
    BY <1>0, <1>5, <2>2, <2>4 DEF CompleteWrite, TypeInv, Typed
<1>6. ASSUME NEW l \in Learners, NEW t \in Trees, CertLook(r, l, t)
      PROVE  TypeInv'
  <2> DEFINE x == [Free EXCEPT
                      !.pc = IF certs[l][t] # NoCert THEN "issued" ELSE "certBadge",
                      !.who = l, !.tree = t,
                      !.cert = certs[l][t], !.had = certs[l][t] # NoCert]
  <2>1. certs[l][t] \in Certificates
    BY <1>0 DEF Typed
  <2>2. x.pc \in {"issued", "certBadge"} /\ x.who = l /\ x.tree = t
    BY DEF Free
  <2>3. (certs[l][t] # NoCert) \in BOOLEAN
    OBVIOUS
  <2>4. x \in RequestRecord
    BY <2>1, <2>3, FreeTyped DEF RequestRecord, Pending, Answered
  <2>5. HoldsJoin(x) /\ HoldsWrite(x) /\ HoldsCert(x)
    BY <2>2 DEF HoldsJoin, HoldsWrite, HoldsCert
  <2> QED
    BY <1>0, <1>1, <1>6, <2>4, <2>5 DEF CertLook, Become, Typed
<1>7. CASE CertBadge(r)
  <2>1. q.pc = "certBadge" /\ q.who \in Learners /\ q.tree \in Trees
    BY <1>0, <1>7 DEF CertBadge, At, HoldsCert
  <2>2. ASSUME Earned(q.who, q.tree), NEW at \in Latest(q.who, q.tree)
        PROVE  at \in 1..LastTime
    <3>1. PICK m \in TreeMissions[release][q.tree] : at = ledger[q.who][m]
      BY <2>2 DEF Latest, Times
    <3>2. m \in Done(q.who)
      BY <2>2, <3>1 DEF Earned
    <3> QED
      BY <1>0, <2>1, <3>1, <3>2 DEF Done, NotYet, Typed
  <2>3. ASSUME Earned(q.who, q.tree), NEW at \in Latest(q.who, q.tree), Sign(r, at)
        PROVE  TypeInv'
    <3> DEFINE c == [by |-> r, build |-> release, earned_at |-> at, issued_at |-> clock]
               x == [q EXCEPT !.pc = "certInsert", !.cert = c]
    <3>1. c \in Certificates
      BY <1>0, <2>2, <2>3 DEF Certificates, Typed
    <3>2. x \in RequestRecord /\ HoldsJoin(x) /\ HoldsWrite(x) /\ HoldsCert(x)
      BY <1>0, <2>1, <3>1 DEF RequestRecord, HoldsJoin, HoldsWrite, HoldsCert, Pending
    <3> QED
      BY <1>0, <1>1, <1>7, <2>3, <3>2 DEF CertBadge, Sign, Become, Typed
  <2>4. CASE Goto(r, "notEarned")
    <3> DEFINE x == [q EXCEPT !.pc = "notEarned"]
    <3>1. x \in RequestRecord /\ HoldsJoin(x) /\ HoldsWrite(x) /\ HoldsCert(x)
      BY <1>0, <2>1 DEF RequestRecord, HoldsJoin, HoldsWrite, HoldsCert, Answered
    <3> QED
      BY <1>0, <1>1, <1>7, <2>4, <3>1 DEF CertBadge, Goto, Become, Typed
  <2> QED
    BY <1>7, <2>3, <2>4 DEF CertBadge
<1>8. CASE CertInsert(r)
  <2>1. q.pc = "certInsert" /\ q.who \in Learners /\ q.tree \in Trees
        /\ q.cert \in Certificates
    BY <1>0, <1>8 DEF CertInsert, At, HoldsCert, RequestRecord
  <2>2. certs' \in [Learners -> [Trees -> Certificates]]
    BY <1>0, <1>8, <2>1 DEF CertInsert, Typed
  <2> DEFINE x == [q EXCEPT !.pc = "certRead"]
  <2>3. x \in RequestRecord /\ HoldsJoin(x) /\ HoldsWrite(x) /\ HoldsCert(x)
    BY <1>0, <2>1 DEF RequestRecord, HoldsJoin, HoldsWrite, HoldsCert, Pending
  <2>4. req' \in [Requests -> RequestRecord] /\ Holds'
    BY <1>8, <2>3, HoldsOne DEF CertInsert, Goto, Become
  <2> QED
    BY <1>0, <1>8, <2>2, <2>4 DEF CertInsert, TypeInv, Typed, LedgerPast
<1>9. CASE CertRead(r)
  <2>1. q.pc = "certRead" /\ q.who \in Learners /\ q.tree \in Trees
        /\ certs[q.who][q.tree] \in Certificates
    BY <1>0, <1>9 DEF CertRead, At, HoldsCert, Typed
  <2> DEFINE x == [q EXCEPT !.pc = "issued", !.cert = certs[q.who][q.tree]]
  <2>2. x \in RequestRecord /\ HoldsJoin(x) /\ HoldsWrite(x) /\ HoldsCert(x)
    BY <1>0, <2>1 DEF RequestRecord, HoldsJoin, HoldsWrite, HoldsCert, Answered
  <2> QED
    BY <1>0, <1>1, <1>9, <2>2 DEF CertRead, Become, Typed
<1>10. CASE Drop(r) \/ Forget(r)
  <2>1. HoldsJoin(Free) /\ HoldsWrite(Free) /\ HoldsCert(Free)
    BY DEF HoldsJoin, HoldsWrite, HoldsCert, Free
  <2>2. req' = [req EXCEPT ![r] = Free] /\ faults' \in 0..MaxFaults
    BY <1>0, <1>10 DEF Drop, Forget, Become, Fault, Typed
  <2> QED
    BY <1>1, <1>10, <2>1, <2>2, FreeTyped DEF Drop, Forget
<1> QED
  BY <1>2, <1>3, <1>4, <1>5, <1>6, <1>7, <1>8, <1>9, <1>10 DEF RequestStep

LEMMA ViewType ==
    ASSUME TypeInv, ViewStep
    PROVE  TypeInv'
<1> USE WorkshopAssumption
<1>0. Typed /\ Holds /\ LedgerPast /\ view \in ViewRecord
  BY DEF TypeInv, Typed
<1>1. /\ UNCHANGED <<clock, release, tables, req>>
      /\ view' \in ViewRecord /\ shown' \in ShownRecord /\ faults' \in 0..MaxFaults
  <2>1. ASSUME NEW s \in Sessions, OpenBoard(s)
        PROVE  view' \in ViewRecord
    BY <1>0, <2>1 DEF OpenBoard, ViewRecord
  <2>2. CASE SeePeople
    <3>1. {l \in Learners : member[l] = view.of} \in SUBSET Learners
      OBVIOUS
    <3> QED
      BY <1>0, <2>2, <3>1 DEF SeePeople, ViewRecord, Typed
  <2>3. CASE SeeLedger
    <3> DEFINE cleared == [l \in Learners |->
                  IF l \in view.people THEN Counted(l, contest[view.of]) ELSE {}]
    <3>1. cleared \in Boards
      BY DEF Boards, Counted, Done
    <3> HIDE DEF cleared
    <3>2. view' = [view EXCEPT !.pc = "ledger", !.cleared = cleared]
      BY <2>3 DEF SeeLedger, cleared
    <3> QED
      BY <1>0, <2>3, <3>1, <3>2 DEF SeeLedger, ViewRecord, Typed
  <2>4. Rest \in ViewRecord
    <3>1. [l \in Learners |-> {}] \in Boards
      BY DEF Boards
    <3> QED
      BY <1>0, <3>1 DEF Rest, ViewRecord
  <2>5. CASE ShowBoard
    BY <1>0, <2>4, <2>5 DEF ShowBoard, ShownRecord, ViewRecord, StatusFor, Typed
  <2>6. CASE PollFails
    BY <1>0, <2>4, <2>6 DEF PollFails, Fault, Typed
  <2> QED
    BY <1>0, <2>1, <2>2, <2>3, <2>5, <2>6 DEF ViewStep, OpenBoard, SeePeople, SeeLedger,
                                           ShowBoard, PollFails, Typed
<1> QED
  BY <1>0, <1>1 DEF TypeInv, Typed, Holds, HoldsJoin, HoldsWrite, HoldsCert, LedgerPast,
                    tables

LEMMA TypeStep == TypeInv /\ [Next]_vars => TypeInv'
<1> SUFFICES ASSUME TypeInv, [Next]_vars PROVE TypeInv'
  OBVIOUS
<1> USE WorkshopAssumption
<1>0. Typed /\ Holds /\ LedgerPast
  BY DEF TypeInv
<1>1. ASSUME sessions' \in [Sessions -> SessionRecord],
             contest' \in [Sessions -> Contests \cup {None}],
             UNCHANGED <<clock, release, member, ledger, certs, req, view, shown, faults>>
      PROVE  TypeInv'
  BY <1>0, <1>1 DEF TypeInv, Typed, Holds, HoldsJoin, HoldsWrite, HoldsCert, LedgerPast
<1>2. ASSUME NEW s \in Sessions, Insert(s)
      PROVE  sessions' \in [Sessions -> SessionRecord]
  BY <1>0, <1>2 DEF Insert, SessionRecord, Typed
<1>3. ASSUME NEW s \in Sessions, CreateSession(s) PROVE TypeInv'
  BY <1>0, <1>1, <1>2, <1>3 DEF CreateSession, Typed
<1>4. ASSUME NEW s \in Sessions, NEW c \in Contests, CreateChallenge(s, c) PROVE TypeInv'
  BY <1>0, <1>1, <1>2, <1>4 DEF CreateChallenge, Typed
<1>5. CASE PruneEmptySessions
  <2>1. \A s \in Sessions : [sessions[s] EXCEPT !.state = "pruned"] \in SessionRecord
    BY <1>0 DEF Typed, SessionRecord
  <2>2. sessions' \in [Sessions -> SessionRecord]
    BY <1>0, <1>5, <2>1 DEF PruneEmptySessions, Typed
  <2> QED
    BY <1>0, <1>1, <1>5, <2>2 DEF PruneEmptySessions, Typed
<1>6. CASE Deploy
  <2>1. \A r \in Requests : req'[r] = Free \/ req'[r] = req[r]
    BY <1>0, <1>6 DEF Deploy, Typed
  <2>2. req' \in [Requests -> RequestRecord]
    BY <1>0, <1>6, FreeTyped DEF Deploy, Typed
  <2>3. HoldsJoin(Free) /\ HoldsWrite(Free) /\ HoldsCert(Free)
    BY DEF HoldsJoin, HoldsWrite, HoldsCert, Free
  <2>4. Holds' /\ LedgerPast'
    BY <1>0, <1>6, <2>1, <2>3 DEF Deploy, Holds, HoldsJoin, HoldsWrite, HoldsCert,
                                 LedgerPast, tables
  <2>5. view' \in ViewRecord
    <3>1. [l \in Learners |-> {}] \in Boards
      BY DEF Boards
    <3> QED
      BY <1>0, <1>6, <3>1 DEF Deploy, Rest, ViewRecord, Typed
  <2>6. release' \in 1..Releases
    BY <1>0, <1>6 DEF Deploy, Typed
  <2> QED
    BY <1>0, <1>6, <2>2, <2>4, <2>5, <2>6 DEF Deploy, TypeInv, Typed, tables
<1>7. CASE Tick
  <2>1. clock' \in 1..LastTime /\ clock' = clock + 1
    BY <1>0, <1>7 DEF Tick, Typed
  <2>2. LedgerPast'
    BY <1>0, <1>7, <2>1 DEF Tick, Typed, LedgerPast, tables
  <2>3. ASSUME NEW r \in Requests PROVE HoldsWrite(req[r])'
    BY <1>0, <1>7, <2>1 DEF Tick, At, Holds, HoldsWrite, RequestRecord, Typed
  <2>4. Holds'
    BY <1>0, <1>7, <2>3 DEF Tick, Holds, HoldsJoin, HoldsCert
  <2> QED
    BY <1>0, <1>7, <2>1, <2>2, <2>4 DEF Tick, TypeInv, Typed, tables
<1>8. CASE UNCHANGED vars
  BY <1>0, <1>8 DEF vars, tables, TypeInv, Typed, Holds, HoldsJoin, HoldsWrite, HoldsCert,
                    LedgerPast
<1> QED
  BY <1>3, <1>4, <1>5, <1>6, <1>7, <1>8, RequestType, ViewType DEF Next

\* Every variable keeps its type, and a request holds what it was asked for:
\* nothing a handler writes after an await has been cleared meanwhile.
THEOREM TypeCorrect == Spec => []TypeOK
<1>1. TypeInv => TypeOK
  BY TypedIsTypeOK DEF TypeInv
<1> QED
  BY <1>1, InitType, TypeStep, PTL DEF Spec

-----------------------------------------------------------------------------
(* Sessions, members and challenges                                        *)

\* A participant id in the hands of a join is nobody else's.
JoinsApart ==
    \A r \in Requests : At(r, "joinInsert") =>
        /\ member[req[r].who] = None
        /\ \A q \in Requests :
              At(q, "joinInsert") /\ req[q].who = req[r].who => q = r

WindowsOpen ==
    \A s \in Sessions :
        contest[s] # None => contest[s].starts_at < contest[s].ends_at

RowInv == NobodyOrphaned /\ JoinsApart /\ WindowsOpen

\* The requests that wait to join after the step waited before it.
NoNewJoin ==
    \A r \in Requests :
        req'[r].pc \in {"joinInsert", "joined"} => req'[r] = req[r]

LEMMA SameRows ==
    ASSUME TypeInv, RowInv, NoNewJoin, UNCHANGED <<sessions, contest, member>>
    PROVE  RowInv'
  BY DEF RowInv, NobodyOrphaned, JoinsApart, WindowsOpen, NoNewJoin, At, Stored

\* The steps of a request that have nothing to do with joining.
LEMMA OtherRequests ==
    ASSUME TypeInv, NEW r \in Requests, RequestStep(r), ~At(r, "joinInsert") \/ Drop(r),
           \A l \in Learners, s \in Sessions : ~JoinCheck(r, l, s)
    PROVE  NoNewJoin /\ UNCHANGED <<sessions, contest, member>>
<1>1. req \in [Requests -> RequestRecord] /\ Free.pc = "free"
  BY DEF TypeInv, Typed, Free
<1>2. ASSUME NEW x, req' = [req EXCEPT ![r] = x], x.pc \notin {"joinInsert", "joined"}
      PROVE  NoNewJoin
  BY <1>1, <1>2 DEF NoNewJoin
<1>3. ASSUME NEW l \in Learners, NEW m \in Lessons, CompleteStamp(r, l, m)
      PROVE  NoNewJoin /\ UNCHANGED <<sessions, contest, member>>
  BY <1>2, <1>3 DEF CompleteStamp, Become, Free, tables
<1>4. ASSUME NEW l \in Learners, NEW t \in Trees, CertLook(r, l, t)
      PROVE  NoNewJoin /\ UNCHANGED <<sessions, contest, member>>
  <2> DEFINE x == [Free EXCEPT
                      !.pc = IF certs[l][t] # NoCert THEN "issued" ELSE "certBadge",
                      !.who = l, !.tree = t,
                      !.cert = certs[l][t], !.had = certs[l][t] # NoCert]
  <2>1. x.pc \in {"issued", "certBadge"}
    BY DEF Free
  <2>2. req' = [req EXCEPT ![r] = x] /\ UNCHANGED <<sessions, contest, member>>
    BY <1>4 DEF CertLook, Become, tables
  <2> HIDE DEF x
  <2> QED
    BY <1>2, <2>1, <2>2
<1>5. CASE CertBadge(r)
  BY <1>1, <1>2, <1>5 DEF CertBadge, Sign, Goto, Become, RequestRecord, tables
<1>6. CASE CertInsert(r) \/ CertRead(r)
  <2>1. PICK x : req' = [req EXCEPT ![r] = x] /\ x.pc \in {"certRead", "issued"}
    <3>1. /\ [req[r] EXCEPT !.pc = "certRead"].pc = "certRead"
          /\ [req[r] EXCEPT !.pc = "issued",
                             !.cert = certs[req[r].who][req[r].tree]].pc = "issued"
      BY <1>1 DEF RequestRecord
    <3> QED
      BY <1>6, <3>1 DEF CertInsert, CertRead, Goto, Become
  <2> QED
    BY <1>2, <1>6, <2>1 DEF CertInsert, CertRead, tables
<1>7. CASE CompleteWrite(r) \/ Drop(r) \/ Forget(r)
  BY <1>1, <1>2, <1>7 DEF CompleteWrite, Drop, Forget, Become, tables
<1>8. CASE JoinInsert(r)
  <2>1. Drop(r)
    BY <1>8 DEF JoinInsert, At
  <2> QED
    BY <1>7, <2>1
<1> QED
  BY <1>3, <1>4, <1>5, <1>6, <1>7, <1>8 DEF RequestStep

LEMMA RowStep == TypeInv /\ RowInv /\ [Next]_vars => RowInv'
<1> SUFFICES ASSUME TypeInv, RowInv, [Next]_vars PROVE RowInv'
  OBVIOUS
<1> USE WorkshopAssumption
<1>0. Typed /\ Holds /\ NobodyOrphaned /\ JoinsApart /\ WindowsOpen
  BY DEF TypeInv, RowInv
<1>1. ASSUME NEW r \in Requests, NEW l \in Learners, NEW s \in Sessions, JoinCheck(r, l, s)
      PROVE  RowInv'
  <2>1. /\ req' = [req EXCEPT ![r] = [Free EXCEPT !.pc = "joinInsert",
                                      !.who = l, !.session = s]]
        /\ UNCHANGED <<sessions, contest, member>> /\ Unused(l)
    BY <1>1 DEF JoinCheck, Become, tables
  <2>2. /\ req'[r].pc = "joinInsert" /\ req'[r].who = l
        /\ \A q \in Requests \ {r} : req'[q] = req[q]
    BY <1>0, <2>1 DEF Typed, Free
  <2>3. JoinsApart'
    BY <1>0, <2>1, <2>2 DEF JoinsApart, Unused, At
  <2> QED
    BY <1>0, <2>1, <2>2, <2>3 DEF RowInv, NobodyOrphaned, WindowsOpen, At, Stored
<1>2. ASSUME NEW r \in Requests, JoinInsert(r) PROVE RowInv'
  <2> DEFINE l == req[r].who  s == req[r].session
  <2>1. l \in Learners /\ s \in Sessions /\ member[l] = None
    BY <1>0, <1>2 DEF JoinInsert, At, Holds, HoldsJoin, JoinsApart
  <2>2. CASE Stored(s)
    <3>1. /\ member' = [member EXCEPT ![l] = s]
          /\ req' = [req EXCEPT ![r] = [req[r] EXCEPT !.pc = "joined"]]
          /\ UNCHANGED <<sessions, contest>>
      BY <1>2, <2>2 DEF JoinInsert, Goto, Become
    <3>2. /\ req'[r].pc = "joined" /\ req'[r].who = l /\ req'[r].session = s
          /\ \A q \in Requests \ {r} : req'[q] = req[q]
      BY <1>0, <3>1 DEF Typed, RequestRecord
    <3>3. member'[l] = s /\ \A k \in Learners \ {l} : member'[k] = member[k]
      BY <1>0, <2>1, <3>1 DEF Typed
    <3>4. \A q \in Requests \ {r} : At(q, "joined") => req[q].who # l
      BY <1>0, <2>1 DEF NobodyOrphaned, Holds, HoldsJoin, At
    <3>5. \A q \in Requests \ {r} : At(q, "joinInsert") => req[q].who # l
      BY <1>0, <1>2 DEF JoinsApart, JoinInsert
    <3>6. \A q \in Requests \ {r} : req[q].pc \in {"joinInsert", "joined"} =>
              req[q].who \in Learners
      BY <1>0 DEF Holds, HoldsJoin
    <3>7. NobodyOrphaned'
      BY <1>0, <2>2, <3>1, <3>2, <3>3, <3>4, <3>6 DEF NobodyOrphaned, At, Stored
    <3>8. JoinsApart'
      BY <1>0, <3>2, <3>3, <3>5, <3>6 DEF JoinsApart, At
    <3> QED
      BY <1>0, <3>1, <3>7, <3>8 DEF RowInv, WindowsOpen
  <2>3. CASE ~Stored(s)
    <3>1. req' = [req EXCEPT ![r] = Free] /\ UNCHANGED <<sessions, contest, member>>
      BY <1>2, <2>3 DEF JoinInsert, Become
    <3>2. NoNewJoin
      BY <1>0, <3>1 DEF NoNewJoin, Free, Typed
    <3> QED
      BY <3>1, <3>2, SameRows
  <2> QED
    BY <2>2, <2>3
<1>3. ASSUME NEW r \in Requests, RequestStep(r) PROVE RowInv'
  <2>1. CASE \E l \in Learners, s \in Sessions : JoinCheck(r, l, s)
    BY <1>1, <2>1
  <2>2. CASE JoinInsert(r)
    BY <1>2, <2>2
  <2>3. CASE /\ \A l \in Learners, s \in Sessions : ~JoinCheck(r, l, s)
             /\ ~JoinInsert(r)
    <3>1. ~At(r, "joinInsert") \/ Drop(r)
      BY <1>3, <2>3 DEF RequestStep, CompleteStamp, CompleteWrite, CertLook, CertBadge,
                        CertInsert, CertRead, Forget, Answered, At
    <3> QED
      BY <1>3, <2>3, <3>1, OtherRequests, SameRows
  <2> QED
    BY <2>1, <2>2, <2>3
<1>4. ASSUME NEW s \in Sessions, CreateSession(s) PROVE RowInv'
  <2>1. /\ \A x \in Sessions : Stored(x) => Stored(x)'
        /\ UNCHANGED <<contest, member, req>>
    BY <1>0, <1>4 DEF CreateSession, Insert, Stored, Typed
  <2> QED
    BY <1>0, <2>1 DEF RowInv, NobodyOrphaned, JoinsApart, WindowsOpen, At, Typed
<1>5. ASSUME NEW s \in Sessions, NEW c \in Contests, CreateChallenge(s, c) PROVE RowInv'
  <2>1. /\ \A x \in Sessions : Stored(x) => Stored(x)'
        /\ Stored(s)'
        /\ UNCHANGED <<member, req>>
        /\ contest' = [contest EXCEPT ![s] = c]
        /\ c.starts_at < c.ends_at
    BY <1>0, <1>5 DEF CreateChallenge, Insert, Stored, Typed
  <2>2. NobodyOrphaned'
    BY <1>0, <2>1 DEF NobodyOrphaned, At, Typed
  <2>3. WindowsOpen'
    BY <1>0, <2>1 DEF WindowsOpen, Typed
  <2> QED
    BY <1>0, <2>1, <2>2, <2>3 DEF RowInv, JoinsApart, At
<1>6. CASE PruneEmptySessions
  <2>1. UNCHANGED <<contest, member, req>>
    BY <1>6 DEF PruneEmptySessions
  <2>2. \A x \in Sessions : Stored(x) /\ ~Prunable(x) => Stored(x)'
    BY <1>0, <1>6 DEF PruneEmptySessions, Stored
  <2>3. \A l \in Learners : member[l] # None => Stored(member[l])'
    <3> SUFFICES ASSUME NEW l \in Learners, member[l] # None
                 PROVE  sessions'[member[l]].state = "stored"
      BY <2>1 DEF Stored
    <3>1. member[l] \in Sessions /\ Stored(member[l])
      BY <1>0 DEF NobodyOrphaned, Typed
    <3>2. ~Prunable(member[l])
      BY DEF Prunable, Empty
    <3> QED
      BY <2>2, <3>1, <3>2 DEF Stored
  <2>4. \A x \in Sessions : contest[x] # None => Stored(x)'
    BY <1>0, <2>2 DEF NobodyOrphaned, Prunable
  <2> QED
    BY <1>0, <2>1, <2>3, <2>4 DEF RowInv, NobodyOrphaned, JoinsApart, WindowsOpen, At, Stored
<1>7. CASE Deploy
  <2>1. NoNewJoin /\ UNCHANGED <<sessions, contest, member>>
    BY <1>0, <1>7 DEF Deploy, NoNewJoin, Free, Typed, tables
  <2> QED
    BY <2>1, SameRows
<1>8. CASE Tick \/ ViewStep \/ UNCHANGED vars
  <2>1. NoNewJoin /\ UNCHANGED <<sessions, contest, member>>
    BY <1>8 DEF Tick, ViewStep, OpenBoard, SeePeople, SeeLedger, ShowBoard, PollFails, vars,
                NoNewJoin, tables
  <2> QED
    BY <2>1, SameRows
<1> QED
  BY <1>3, <1>4, <1>5, <1>6, <1>7, <1>8 DEF Next

LEMMA InitRows == Init => RowInv
  BY DEF Init, RowInv, NobodyOrphaned, JoinsApart, WindowsOpen, At, Free

\* Neither the sweep nor a join that raced it leaves a learner or a
\* challenge without its session.
THEOREM NobodyIsOrphaned == Spec => []NobodyOrphaned
<1>1. RowInv => NobodyOrphaned
  BY DEF RowInv
<1> QED
  BY <1>1, InitType, TypeStep, InitRows, RowStep, PTL DEF Spec

-----------------------------------------------------------------------------
(* What is written stays                                                   *)

LedgerGrows ==
    \A l \in Learners, m \in Lessons :
        ledger[l][m] # NotYet => ledger'[l][m] = ledger[l][m]
CertsStay ==
    \A l \in Learners, t \in Trees :
        certs[l][t] # NoCert => certs'[l][t] = certs[l][t]
RowsStay ==
    /\ \A l \in Learners : member[l] # None => member'[l] = member[l]
    /\ \A s \in Sessions : contest[s] # None => contest'[s] = contest[s]

\* The steps that leave the tables alone, but perhaps sessions.
Quiet == UNCHANGED <<contest, member, ledger, certs>>

LEMMA QuietOrWrites ==
    ASSUME [Next]_vars
    PROVE  \/ Quiet
           \/ \E r \in Requests : JoinInsert(r) \/ CompleteWrite(r) \/ CertInsert(r)
           \/ \E s \in Sessions, c \in Contests : CreateChallenge(s, c)
<1>1. ASSUME NEW r \in Requests, RequestStep(r)
      PROVE  Quiet \/ JoinInsert(r) \/ CompleteWrite(r) \/ CertInsert(r)
  BY <1>1 DEF RequestStep, JoinCheck, CompleteStamp, CertLook, CertBadge, CertRead, Drop,
              Forget, Quiet, tables
<1>2. ViewStep => Quiet
  BY DEF ViewStep, OpenBoard, SeePeople, SeeLedger, ShowBoard, PollFails, Quiet, tables
<1>3. ASSUME NEW s \in Sessions, CreateSession(s) PROVE Quiet
  BY <1>3 DEF CreateSession, Quiet
<1>4. PruneEmptySessions \/ Deploy \/ Tick \/ UNCHANGED vars => Quiet
  BY DEF PruneEmptySessions, Deploy, Tick, vars, Quiet, tables
<1> QED
  BY <1>1, <1>2, <1>3, <1>4 DEF Next

LEMMA Permanent == TypeInv /\ RowInv /\ [Next]_vars => LedgerGrows /\ CertsStay /\ RowsStay
<1> SUFFICES ASSUME TypeInv, RowInv, [Next]_vars
             PROVE  LedgerGrows /\ CertsStay /\ RowsStay
  OBVIOUS
<1>0. Typed /\ Holds
  BY DEF TypeInv
<1>1. CASE Quiet
  BY <1>1 DEF Quiet, LedgerGrows, CertsStay, RowsStay
<1>2. ASSUME NEW r \in Requests, JoinInsert(r) PROVE LedgerGrows /\ CertsStay /\ RowsStay
  <2>1. req[r].who \in Learners /\ member[req[r].who] = None
    BY <1>0, <1>2 DEF JoinInsert, RowInv, JoinsApart, Holds, HoldsJoin, At
  <2> QED
    BY <1>0, <1>2, <2>1 DEF JoinInsert, LedgerGrows, CertsStay, RowsStay, Typed
<1>3. ASSUME NEW r \in Requests, CompleteWrite(r) PROVE LedgerGrows /\ CertsStay /\ RowsStay
  <2>1. req[r].who \in Learners /\ req[r].mission \in Lessons
    BY <1>0, <1>3 DEF CompleteWrite, At, Holds, HoldsWrite
  <2> QED
    BY <1>0, <1>3, <2>1 DEF CompleteWrite, LedgerGrows, CertsStay, RowsStay, Typed
<1>4. ASSUME NEW r \in Requests, CertInsert(r) PROVE LedgerGrows /\ CertsStay /\ RowsStay
  <2>1. req[r].who \in Learners /\ req[r].tree \in Trees
    BY <1>0, <1>4 DEF CertInsert, At, Holds, HoldsCert
  <2> QED
    BY <1>0, <1>4, <2>1 DEF CertInsert, LedgerGrows, CertsStay, RowsStay, Typed
<1>5. ASSUME NEW s \in Sessions, NEW c \in Contests, CreateChallenge(s, c)
      PROVE  LedgerGrows /\ CertsStay /\ RowsStay
  <2>1. contest[s] = None
    BY <1>5 DEF CreateChallenge, RowInv, NobodyOrphaned, Stored, Unborn
  <2> QED
    BY <1>0, <1>5, <2>1 DEF CreateChallenge, LedgerGrows, CertsStay, RowsStay, Typed
<1> QED
  BY <1>1, <1>2, <1>3, <1>4, <1>5, QuietOrWrites

-----------------------------------------------------------------------------
(* Certificates                                                            *)

Says(l, t, c) ==
    /\ \A m \in TreeMissions[c.build][t] : ledger[l][m] \in 1..c.earned_at
    /\ \E m \in TreeMissions[c.build][t] : ledger[l][m] = c.earned_at
    /\ c.earned_at <= c.issued_at

\* What a request for a certificate knows at each of its stations.
Knows(q) ==
    /\ q.pc = "certInsert" => q.cert # NoCert /\ Says(q.who, q.tree, q.cert)
    /\ q.pc = "certRead" => certs[q.who][q.tree] # NoCert
    /\ q.pc = "issued" => q.cert = certs[q.who][q.tree] /\ q.cert # NoCert
    /\ q.pc \in {"certBadge", "certInsert", "certRead", "notEarned"} => ~q.had

CertInv == CertificateTrue /\ \A r \in Requests : Knows(req[r])

LEMMA SaysStays ==
    ASSUME TypeInv, LedgerGrows,
           NEW l \in Learners, NEW t \in Trees, NEW c \in Certificates,
           c # NoCert, Says(l, t, c)
    PROVE  Says(l, t, c)'
<1>1. c.build \in 1..Releases /\ c.earned_at \in 1..LastTime
  BY DEF Certificates
<1>2. TreeMissions[c.build][t] \subseteq Lessons
  BY <1>1, WorkshopAssumption
<1>3. \A m \in TreeMissions[c.build][t] : ledger'[l][m] = ledger[l][m]
  BY <1>1, <1>2 DEF Says, LedgerGrows, NotYet
<1> QED
  BY <1>3 DEF Says

LEMMA KnowsStays ==
    ASSUME TypeInv, LedgerGrows, CertsStay, NEW r \in Requests, Knows(req[r]),
           req'[r] = req[r]
    PROVE  Knows(req[r])'
<1>1. HoldsCert(req[r]) /\ req[r].cert \in Certificates
  BY DEF TypeInv, Holds, Typed, RequestRecord
<1>2. req[r].pc = "certInsert" => Says(req[r].who, req[r].tree, req[r].cert)'
  BY <1>1, SaysStays DEF Knows, HoldsCert, Says
<1>3. /\ req[r].pc = "certRead" => certs'[req[r].who][req[r].tree] # NoCert
      /\ req[r].pc = "issued" => req[r].cert = certs'[req[r].who][req[r].tree]
  BY <1>1 DEF Knows, HoldsCert, CertsStay
<1> QED
  BY <1>2, <1>3 DEF Knows, Says

\* A step that issues nothing: only the stepping request may know more.
LEMMA NothingIssued ==
    ASSUME TypeInv, CertInv, LedgerGrows, CertsStay, certs' = certs,
           \A r \in Requests : req'[r] = req[r] \/ Knows(req[r])'
    PROVE  CertInv'
<1>1. \A r \in Requests : Knows(req[r])'
  BY KnowsStays DEF CertInv
<1>2. ASSUME NEW l \in Learners, NEW t \in Trees, certs[l][t] # NoCert
      PROVE  Says(l, t, certs[l][t])'
  <2>1. certs[l][t] \in Certificates /\ Says(l, t, certs[l][t])
    BY <1>2 DEF TypeInv, Typed, CertInv, CertificateTrue, Says
  <2> QED
    BY <1>2, <2>1, SaysStays DEF Says
<1> QED
  BY <1>1, <1>2 DEF CertInv, CertificateTrue, Says

LEMMA CertRequest ==
    ASSUME TypeInv, RowInv, CertInv, LedgerGrows, CertsStay,
           NEW r \in Requests, RequestStep(r)
    PROVE  CertInv'
<1> DEFINE q == req[r]
<1>0. /\ Typed /\ LedgerPast /\ HoldsCert(q) /\ q \in RequestRecord /\ Knows(q)
  BY DEF TypeInv, Typed, Holds, CertInv
<1>1. ASSUME NEW x, req' = [req EXCEPT ![r] = x], certs' = certs,
             x.pc \in {"free", "joinInsert", "joined", "write"}
      PROVE  CertInv'
  <2>1. req'[r] = x /\ \A k \in Requests \ {r} : req'[k] = req[k]
    BY <1>0, <1>1 DEF Typed
  <2>2. Knows(req[r])'
    BY <1>1, <2>1 DEF Knows
  <2> QED
    BY <1>1, <2>1, <2>2, NothingIssued
<1>2. Free.pc = "free"
  BY DEF Free
<1>3. ASSUME NEW l \in Learners, NEW s \in Sessions, JoinCheck(r, l, s) PROVE CertInv'
  <2> DEFINE x == [Free EXCEPT !.pc = "joinInsert", !.who = l, !.session = s]
  <2>1. x.pc = "joinInsert"
    BY DEF Free
  <2>2. req' = [req EXCEPT ![r] = x] /\ certs' = certs
    BY <1>3 DEF JoinCheck, Become, tables
  <2> HIDE DEF x
  <2> QED
    BY <1>1, <2>1, <2>2
<1>4. ASSUME NEW l \in Learners, NEW m \in Lessons, CompleteStamp(r, l, m) PROVE CertInv'
  <2> DEFINE x == [Free EXCEPT !.pc = "write", !.who = l, !.mission = m, !.stamp = clock]
  <2>1. x.pc = "write"
    BY DEF Free
  <2>2. req' = [req EXCEPT ![r] = x] /\ certs' = certs
    BY <1>4 DEF CompleteStamp, Become, tables
  <2> HIDE DEF x
  <2> QED
    BY <1>1, <2>1, <2>2
<1>5. CASE JoinInsert(r) \/ CompleteWrite(r) \/ Drop(r) \/ Forget(r)
  <2>1. [q EXCEPT !.pc = "joined"].pc = "joined"
    BY <1>0 DEF RequestRecord
  <2>2. PICK x : req' = [req EXCEPT ![r] = x] /\ x.pc \in {"free", "joined"}
    BY <1>2, <1>5, <2>1 DEF JoinInsert, CompleteWrite, Drop, Forget, Become, Goto
  <2>3. certs' = certs
    BY <1>5 DEF JoinInsert, CompleteWrite, Drop, Forget, tables
  <2> QED
    BY <1>1, <2>2, <2>3
<1>6. ASSUME NEW l \in Learners, NEW t \in Trees, CertLook(r, l, t) PROVE CertInv'
  <2> DEFINE c == certs[l][t]
             x == [Free EXCEPT !.pc = IF c # NoCert THEN "issued" ELSE "certBadge",
                               !.who = l, !.tree = t, !.cert = c, !.had = c # NoCert]
  <2>1. /\ x.pc = IF c # NoCert THEN "issued" ELSE "certBadge"
        /\ x.who = l /\ x.tree = t /\ x.cert = c /\ x.had = (c # NoCert)
    BY DEF Free
  <2>2. req' = [req EXCEPT ![r] = x] /\ certs' = certs
    BY <1>6 DEF CertLook, Become, tables
  <2> HIDE DEF x
  <2>3. req'[r] = x /\ \A k \in Requests \ {r} : req'[k] = req[k]
    BY <1>0, <2>2 DEF Typed
  <2>4. Knows(req[r])'
    BY <2>1, <2>2, <2>3 DEF Knows
  <2> QED
    BY <2>2, <2>3, <2>4, NothingIssued
<1>7. CASE CertBadge(r)
  <2>1. q.pc = "certBadge" /\ q.who \in Learners /\ q.tree \in Trees /\ ~q.had
        /\ UNCHANGED <<certs, ledger>>
    BY <1>0, <1>7 DEF CertBadge, At, HoldsCert, Knows, tables
  <2>2. ASSUME Earned(q.who, q.tree), NEW at \in Latest(q.who, q.tree), Sign(r, at)
        PROVE  CertInv'
    <3> DEFINE c == [by |-> r, build |-> release, earned_at |-> at, issued_at |-> clock]
               x == [q EXCEPT !.pc = "certInsert", !.cert = c]
    <3>1. /\ x.pc = "certInsert" /\ x.who = q.who /\ x.tree = q.tree
          /\ x.cert = c /\ x.had = q.had
      BY <1>0 DEF RequestRecord
    <3>2. c # NoCert
      BY <1>0 DEF NoCert, Typed
    <3>3. TreeMissions[release][q.tree] \subseteq Lessons
      BY <1>0, <2>1, WorkshopAssumption DEF Typed
    <3>4. \A m \in TreeMissions[release][q.tree] :
             ledger[q.who][m] \in 1..clock /\ ledger[q.who][m] <= at
      BY <1>0, <2>1, <2>2, <3>3 DEF Earned, Done, NotYet, Latest, Times, Typed, LedgerPast
    <3>5. PICK m \in TreeMissions[release][q.tree] : ledger[q.who][m] = at
      BY <2>2 DEF Latest, Times
    <3>6. Says(q.who, q.tree, c)
      BY <1>0, <3>4, <3>5 DEF Says, Typed
    <3>7. req' = [req EXCEPT ![r] = x]
      BY <2>2 DEF Sign, Become
    <3> HIDE DEF x, c
    <3>8. req'[r] = x /\ \A k \in Requests \ {r} : req'[k] = req[k]
      BY <1>0, <3>7 DEF Typed
    <3>9. Knows(req[r])'
      BY <2>1, <3>1, <3>2, <3>6, <3>8 DEF Knows, Says
    <3> QED
      BY <2>1, <3>8, <3>9, NothingIssued
  <2>3. CASE Goto(r, "notEarned")
    <3> DEFINE x == [q EXCEPT !.pc = "notEarned"]
    <3>1. x.pc = "notEarned" /\ x.had = q.had
      BY <1>0 DEF RequestRecord
    <3>2. req' = [req EXCEPT ![r] = x]
      BY <2>3 DEF Goto, Become
    <3> HIDE DEF x
    <3>3. req'[r] = x /\ \A k \in Requests \ {r} : req'[k] = req[k]
      BY <1>0, <3>2 DEF Typed
    <3>4. Knows(req[r])'
      BY <2>1, <3>1, <3>3 DEF Knows
    <3> QED
      BY <2>1, <3>3, <3>4, NothingIssued
  <2> QED
    BY <1>7, <2>2, <2>3 DEF CertBadge
<1>8. CASE CertInsert(r)
  <2> DEFINE l == q.who  t == q.tree  x == [q EXCEPT !.pc = "certRead"]
  <2>1. /\ l \in Learners /\ t \in Trees /\ q.cert \in Certificates /\ ~q.had
        /\ q.cert # NoCert /\ Says(l, t, q.cert)
    BY <1>0, <1>8 DEF CertInsert, At, HoldsCert, Knows, RequestRecord
  <2>2. /\ certs' = IF certs[l][t] = NoCert THEN [certs EXCEPT ![l][t] = q.cert] ELSE certs
        /\ req' = [req EXCEPT ![r] = x] /\ ledger' = ledger
    BY <1>8 DEF CertInsert, Goto, Become
  <2>3. x.pc = "certRead" /\ x.who = l /\ x.tree = t /\ x.had = q.had
    BY <1>0 DEF RequestRecord
  <2> HIDE DEF x
  <2>4. req'[r] = x /\ \A k \in Requests \ {r} : req'[k] = req[k]
    BY <1>0, <2>2 DEF Typed
  <2>5. certs'[l][t] # NoCert
    BY <1>0, <2>1, <2>2 DEF Typed
  <2>6. Knows(req[r])'
    BY <2>1, <2>3, <2>4, <2>5 DEF Knows
  <2>7. \A k \in Requests : Knows(req[k])'
    BY <2>4, <2>6, KnowsStays DEF CertInv
  <2>8. ASSUME NEW k \in Learners, NEW u \in Trees, certs'[k][u] # NoCert
        PROVE  Says(k, u, certs[k][u])'
    <3>1. CASE certs'[k][u] = certs[k][u]
      <4>1. certs[k][u] \in Certificates /\ Says(k, u, certs[k][u])
        BY <1>0, <2>8, <3>1 DEF Typed, CertInv, CertificateTrue, Says
      <4> QED
        BY <2>2, <2>8, <3>1, <4>1 DEF Says
    <3>2. CASE certs'[k][u] # certs[k][u]
      <4>1. k = l /\ u = t /\ certs'[k][u] = q.cert
        BY <1>0, <2>1, <2>2, <3>2 DEF Typed
      <4> QED
        BY <2>1, <2>2, <4>1 DEF Says
    <3> QED
      BY <3>1, <3>2
  <2> QED
    BY <2>7, <2>8 DEF CertInv, CertificateTrue, Says
<1>9. CASE CertRead(r)
  <2> DEFINE c == certs[q.who][q.tree]  x == [q EXCEPT !.pc = "issued", !.cert = c]
  <2>1. c # NoCert /\ certs' = certs /\ req' = [req EXCEPT ![r] = x]
    BY <1>0, <1>9 DEF CertRead, At, Knows, Become, tables
  <2>2. x.pc = "issued" /\ x.who = q.who /\ x.tree = q.tree /\ x.cert = c
    BY <1>0 DEF RequestRecord
  <2> HIDE DEF x
  <2>3. req'[r] = x /\ \A k \in Requests \ {r} : req'[k] = req[k]
    BY <1>0, <2>1 DEF Typed
  <2>4. Knows(req[r])'
    BY <2>1, <2>2, <2>3 DEF Knows
  <2> QED
    BY <2>1, <2>3, <2>4, NothingIssued
<1> QED
  BY <1>3, <1>4, <1>5, <1>6, <1>7, <1>8, <1>9 DEF RequestStep

LEMMA CertStep == TypeInv /\ RowInv /\ CertInv /\ [Next]_vars => CertInv'
<1> SUFFICES ASSUME TypeInv, RowInv, CertInv, [Next]_vars PROVE CertInv'
  OBVIOUS
<1>0. LedgerGrows /\ CertsStay
  BY Permanent
<1>1. CASE \E r \in Requests : RequestStep(r)
  BY <1>0, <1>1, CertRequest
<1>2. CASE Deploy
  <2>1. certs' = certs /\ \A r \in Requests : req'[r] = req[r] \/ req'[r] = Free
    BY <1>2 DEF Deploy, tables, TypeInv, Typed
  <2>2. \A r \in Requests : req'[r] = Free => Knows(req[r])'
    BY DEF Knows, Free
  <2> QED
    BY <1>0, <2>1, <2>2, NothingIssued
<1>3. CASE \/ \E s \in Sessions : CreateSession(s)
           \/ \E s \in Sessions, c \in Contests : CreateChallenge(s, c)
           \/ PruneEmptySessions \/ ViewStep \/ Tick \/ UNCHANGED vars
  <2>1. certs' = certs /\ req' = req
    BY <1>3 DEF CreateSession, CreateChallenge, PruneEmptySessions, ViewStep, OpenBoard,
                SeePeople, SeeLedger, ShowBoard, PollFails, Tick, vars, tables
  <2> QED
    BY <1>0, <2>1, NothingIssued
<1> QED
  BY <1>1, <1>2, <1>3 DEF Next

LEMMA InitCerts == Init => CertInv
  BY DEF Init, CertInv, CertificateTrue, Knows, Free

\* Two requests that issue the same certificate at once both get the one row.
THEOREM CertificateIsOne == Spec => []OneCertificate
<1>1. CertInv => OneCertificate
  BY DEF CertInv, Knows, OneCertificate, At
<1> QED
  BY <1>1, InitType, TypeStep, InitRows, RowStep, InitCerts, CertStep, PTL DEF Spec

\* What a certificate says was true of the ledger and still is.
THEOREM CertificateIsTrue == Spec => []CertificateTrue
<1>1. CertInv => CertificateTrue
  BY DEF CertInv
<1> QED
  BY <1>1, InitType, TypeStep, InitRows, RowStep, InitCerts, CertStep, PTL DEF Spec

\* A deploy that lengthens a tree takes nobody's certificate away.
THEOREM CertificateIsHonoured == Spec => []CertificateHonoured
<1>1. CertInv => CertificateHonoured
  BY DEF CertInv, Knows, CertificateHonoured, At
<1> QED
  BY <1>1, InitType, TypeStep, InitRows, RowStep, InitCerts, CertStep, PTL DEF Spec

-----------------------------------------------------------------------------
(* The leaderboard                                                         *)

LEMMA SettleStep ==
    TypeInv /\ RowInv /\ [Next]_vars =>
        \A s \in Sessions, l \in Learners :
            Settled(s) => Counted(l, contest[s])' = Counted(l, contest[s])
<1> SUFFICES ASSUME TypeInv, RowInv, [Next]_vars, NEW s \in Sessions, NEW l \in Learners,
                    Settled(s)
             PROVE  Counted(l, contest[s])' = Counted(l, contest[s])
  OBVIOUS
<1>0. Typed /\ Holds /\ contest'[s] = contest[s]
  BY Permanent DEF TypeInv, RowsStay, Settled
<1>1. CASE ledger' = ledger
  BY <1>0, <1>1 DEF Counted, Done
<1>2. ASSUME NEW r \in Requests, CompleteWrite(r)
      PROVE  Counted(l, contest[s])' = Counted(l, contest[s])
  <2> DEFINE k == req[r].who  m == req[r].mission  stamp == req[r].stamp
  <2>1. /\ k \in Learners /\ m \in Lessons /\ stamp \in 1..clock
        /\ clock <= stamp + Timeout
    BY <1>0, <1>2 DEF CompleteWrite, At, Holds, HoldsWrite
  <2>2. contest[s].ends_at \in Nat /\ clock > contest[s].ends_at + Timeout
    BY <1>0, WorkshopAssumption DEF Settled, Typed
  <2>3. ~(stamp <= contest[s].ends_at)
    BY <1>0, <2>1, <2>2, WorkshopAssumption DEF Typed
  <2>4. \A n \in Lessons :
           \/ ledger'[l][n] = ledger[l][n]
           \/ ledger[l][n] = NotYet /\ ledger'[l][n] = stamp
    BY <1>0, <1>2, <2>1 DEF CompleteWrite, Typed
  <2> QED
    BY <1>0, <2>3, <2>4 DEF Counted, Done
<1>3. CASE ~\E r \in Requests : CompleteWrite(r)
  <2>1. ledger' = ledger
    BY <1>3, QuietOrWrites DEF Quiet, JoinInsert, CertInsert, CreateChallenge
  <2> QED
    BY <1>1, <2>1
<1> QED
  BY <1>2, <1>3

\* A challenge's scores are final one request timeout after its end.
THEOREM ScoresAreSettled == Spec => ScoresSettle
<1>1. TypeInv /\ RowInv /\ [Next]_vars =>
        [\A s \in Sessions, l \in Learners :
            Settled(s) => Counted(l, contest[s])' = Counted(l, contest[s])]_vars
  BY SettleStep
<1> QED
  BY <1>1, InitType, TypeStep, InitRows, RowStep, PTL DEF Spec, ScoresSettle

\* What is on the screen, and what a poll holds, is no more than the tables
\* say, and a poll never holds less than the screen.
BoardTrue ==
    /\ view.of \in Sessions /\ contest[view.of] # None
    /\ \A l \in shown.people : member[l] = view.of
    /\ \A l \in Learners :
          /\ l \notin shown.people => shown.cleared[l] = {}
          /\ shown.cleared[l] \subseteq Counted(l, contest[view.of])
    /\ shown.status = "live" => clock >= contest[view.of].starts_at
    /\ shown.status = "ended" => clock > contest[view.of].ends_at
PollTrue ==
    /\ view.pc \in {"people", "ledger"} =>
          /\ shown.people \subseteq view.people
          /\ \A l \in view.people : member[l] = view.of
    /\ view.pc = "ledger" =>
          \A l \in Learners :
              /\ l \notin view.people => view.cleared[l] = {}
              /\ shown.cleared[l] \subseteq view.cleared[l]
              /\ view.cleared[l] \subseteq Counted(l, contest[view.of])

BoardInv ==
    /\ view.pc = "closed" => shown = NoBoard
    /\ view.pc # "closed" => BoardTrue /\ PollTrue

\* A step that the page does not take leaves its board true.
LEMMA BoardStays ==
    ASSUME TypeInv, RowInv, BoardInv, [Next]_vars, shown' = shown,
           view' = view \/ (view' = Rest /\ view.pc # "closed"), clock' \in {clock, clock + 1}
    PROVE  BoardInv'
<1>0. Typed /\ LedgerGrows /\ RowsStay
  BY Permanent DEF TypeInv
<1>1. Rest.pc = "idle" /\ Rest.of = view.of
  BY <1>0 DEF Rest, Typed, ViewRecord
<1>2. CASE view.pc = "closed"
  BY <1>2 DEF BoardInv
<1>3. CASE view.pc # "closed"
  <2> DEFINE s == view.of  c == contest[view.of]
  <2>1. BoardTrue /\ PollTrue
    BY <1>3 DEF BoardInv
  <2>2. /\ view'.of = s /\ view'.pc # "closed"
        /\ view'.pc \in {"people", "ledger"} => view' = view
    BY <1>1, <1>3
  <2>3. s \in Sessions /\ c \in Contests /\ contest'[s] = c /\ c # None
    BY <1>0, <2>1 DEF BoardTrue, Typed, RowsStay
  <2>4. \A l \in Learners : Counted(l, c) \subseteq Counted(l, contest[view.of])'
    BY <1>0, <2>2, <2>3 DEF Counted, Done, LedgerGrows
  <2>5. \A l \in Learners : member[l] = s => member'[l] = s
    BY <1>0, <2>3, WorkshopAssumption DEF RowsStay
  <2>6. BoardTrue'
    <3>1. c.starts_at \in Nat /\ c.ends_at \in Nat /\ clock \in Nat
      BY <1>0, <2>3, WorkshopAssumption DEF Typed
    <3>2. shown.people \subseteq Learners
      BY <1>0 DEF Typed, ShownRecord
    <3>3. /\ shown.status = "live" => clock' >= c.starts_at
          /\ shown.status = "ended" => clock' > c.ends_at
      BY <2>1, <3>1 DEF BoardTrue
    <3>4. \A l \in Learners :
             shown'.cleared[l] \subseteq Counted(l, contest[view.of])'
      BY <2>1, <2>4 DEF BoardTrue
    <3> QED
      BY <2>1, <2>2, <2>3, <2>5, <3>2, <3>3, <3>4 DEF BoardTrue
  <2>7. PollTrue'
    <3>1. view.people \subseteq Learners
      BY <1>0 DEF Typed, ViewRecord
    <3>2. view'.pc = "ledger" =>
             \A l \in Learners : view'.cleared[l] \subseteq Counted(l, contest[view.of])'
      BY <2>1, <2>2, <2>4 DEF PollTrue
    <3> QED
      BY <2>1, <2>2, <2>5, <3>1, <3>2 DEF PollTrue
  <2> QED
    BY <2>2, <2>6, <2>7 DEF BoardInv
<1> QED
  BY <1>2, <1>3

\* The screen only gains.
Gains ==
    /\ shown.people \subseteq shown'.people
    /\ \A l \in Learners : shown.cleared[l] \subseteq shown'.cleared[l]
    /\ shown.status = "ended" => shown'.status = "ended"
    /\ shown.status = "live" => shown'.status # "upcoming"

LEMMA ViewBoard ==
    ASSUME TypeInv, RowInv, BoardInv, ViewStep
    PROVE  BoardInv' /\ Gains
<1>0. Typed /\ LedgerGrows /\ RowsStay
  <2>1. [Next]_vars
    BY DEF Next
  <2> QED
    BY <2>1, Permanent DEF TypeInv
<1> DEFINE s == view.of  c == contest[view.of]
<1>1. view \in ViewRecord /\ shown \in ShownRecord
  BY <1>0 DEF Typed
<1>2. ASSUME shown' = shown PROVE Gains
  BY <1>2 DEF Gains
<1>3. ASSUME NEW x \in Sessions, OpenBoard(x) PROVE BoardInv' /\ Gains
  <2>1. /\ shown = NoBoard /\ shown' = shown /\ view'.pc = "idle" /\ view'.of = x
        /\ contest' = contest /\ contest[x] # None
    BY <1>1, <1>3 DEF OpenBoard, BoardInv, ViewRecord, tables
  <2>2. /\ NoBoard.people = {} /\ NoBoard.status = "loading"
        /\ \A l \in Learners : NoBoard.cleared[l] = {}
    BY DEF NoBoard
  <2>3. BoardTrue' /\ PollTrue'
    BY <2>1, <2>2 DEF BoardTrue, PollTrue
  <2> QED
    BY <1>2, <2>1, <2>3 DEF BoardInv
<1>4. ASSUME view.pc # "closed", shown' = shown, UNCHANGED <<clock, tables>>,
             view'.of = s, view'.pc # "closed", PollTrue'
      PROVE  BoardInv' /\ Gains
  <2>1. BoardTrue
    BY <1>4 DEF BoardInv
  <2>2. BoardTrue'
    BY <1>4, <2>1 DEF BoardTrue, Counted, Done, tables
  <2> QED
    BY <1>2, <1>4, <2>2 DEF BoardInv
<1>5. CASE SeePeople
  <2> DEFINE people == {l \in Learners : member[l] = s}
  <2>1. BoardTrue
    BY <1>5 DEF SeePeople, BoardInv
  <2>2. shown.people \subseteq people
    BY <1>1, <2>1 DEF BoardTrue, ShownRecord
  <2> HIDE DEF people
  <2>3. view' = [view EXCEPT !.pc = "people", !.people = people]
    BY <1>5 DEF SeePeople, people
  <2>4. view'.pc = "people" /\ view'.people = people /\ view'.of = s
    BY <1>1, <2>3 DEF ViewRecord
  <2>5. \A l \in people : member[l] = s
    BY DEF people
  <2>6. UNCHANGED <<clock, tables, shown>> /\ member' = member
    BY <1>5 DEF SeePeople, tables
  <2>7. PollTrue'
    BY <2>2, <2>4, <2>5, <2>6 DEF PollTrue
  <2> QED
    BY <1>4, <1>5, <2>4, <2>6, <2>7 DEF SeePeople
<1>6. CASE SeeLedger
  <2> DEFINE cleared == [l \in Learners |-> IF l \in view.people THEN Counted(l, c) ELSE {}]
  <2>1. BoardTrue /\ PollTrue
    BY <1>6 DEF SeeLedger, BoardInv
  <2>2. view' = [view EXCEPT !.pc = "ledger", !.cleared = cleared]
    BY <1>6 DEF SeeLedger
  <2>3. \A l \in Learners :
           /\ l \notin view.people => cleared[l] = {}
           /\ shown.cleared[l] \subseteq cleared[l]
           /\ cleared[l] \subseteq Counted(l, c)
    <3> SUFFICES ASSUME NEW l \in Learners
                 PROVE  /\ l \notin view.people => cleared[l] = {}
                        /\ shown.cleared[l] \subseteq cleared[l]
                        /\ cleared[l] \subseteq Counted(l, c)
      OBVIOUS
    <3>1. CASE l \in view.people
      BY <2>1, <3>1 DEF BoardTrue
    <3>2. CASE l \notin view.people
      <4>1. l \notin shown.people
        BY <1>6, <2>1, <3>2 DEF SeeLedger, PollTrue
      <4>2. shown.cleared[l] = {}
        BY <2>1, <4>1 DEF BoardTrue
      <4> QED
        BY <3>2, <4>2
    <3> QED
      BY <3>1, <3>2
  <2> HIDE DEF cleared
  <2>4. /\ view'.pc = "ledger" /\ view'.of = s /\ view'.cleared = cleared
        /\ view'.people = view.people
    BY <1>1, <2>2 DEF ViewRecord
  <2>5. UNCHANGED <<clock, tables, shown>> /\ UNCHANGED <<member, ledger, contest>>
    BY <1>6 DEF SeeLedger, tables
  <2>6. \A l \in Learners : Counted(l, contest[view.of])' = Counted(l, c)
    BY <2>4, <2>5 DEF Counted, Done
  <2>7. shown.people \subseteq view.people /\ \A l \in view.people : member[l] = s
    BY <1>6, <2>1 DEF SeeLedger, PollTrue
  <2>8. PollTrue'
    BY <2>3, <2>4, <2>5, <2>6, <2>7 DEF PollTrue
  <2> QED
    BY <1>4, <1>6, <2>4, <2>5, <2>8 DEF SeeLedger
<1>7. Rest.pc = "idle" /\ Rest.of = s
  BY <1>1 DEF Rest, ViewRecord
<1>8. CASE ShowBoard
  <2>1. BoardTrue /\ PollTrue
    BY <1>8 DEF ShowBoard, BoardInv
  <2>2. /\ shown'.status = StatusFor(c) /\ shown'.people = view.people
        /\ shown'.cleared = view.cleared
        /\ view'.pc = "idle" /\ view'.of = s /\ UNCHANGED <<clock, member, ledger, contest>>
    BY <1>7, <1>8 DEF ShowBoard, tables
  <2>3. /\ shown.people \subseteq view.people /\ \A l \in view.people : member[l] = s
        /\ \A l \in Learners : /\ l \notin view.people => view.cleared[l] = {}
                               /\ shown.cleared[l] \subseteq view.cleared[l]
                               /\ view.cleared[l] \subseteq Counted(l, c)
    BY <1>8, <2>1 DEF ShowBoard, PollTrue
  <2>4. c \in Contests /\ clock \in Nat /\ c.starts_at < c.ends_at /\ s \in Sessions /\ c # None
    BY <1>0, <2>1 DEF BoardTrue, Typed, RowInv, WindowsOpen
  <2>5. c.starts_at \in Nat /\ c.ends_at \in Nat
    BY <2>4, WorkshopAssumption
  <2>6. /\ StatusFor(c) = "live" => clock >= c.starts_at
        /\ StatusFor(c) = "ended" => clock > c.ends_at
    BY <2>4, <2>5 DEF StatusFor
  <2>7. /\ shown.status = "ended" => StatusFor(c) = "ended"
        /\ shown.status = "live" => StatusFor(c) # "upcoming"
    BY <2>1, <2>4, <2>5 DEF BoardTrue, StatusFor
  <2>8. \A l \in Learners : Counted(l, contest[view.of])' = Counted(l, c)
    BY <2>2 DEF Counted, Done
  <2>9. BoardTrue'
    BY <2>2, <2>3, <2>4, <2>6, <2>8 DEF BoardTrue
  <2>10. PollTrue'
    BY <2>2 DEF PollTrue
  <2>11. Gains
    BY <2>2, <2>3, <2>7 DEF Gains
  <2> QED
    BY <2>2, <2>9, <2>10, <2>11 DEF BoardInv
<1>9. CASE PollFails
  <2>1. view.pc # "closed" /\ shown' = shown /\ UNCHANGED <<clock, tables>> /\ view' = Rest
    BY <1>9 DEF PollFails
  <2>2. PollTrue'
    BY <1>7, <2>1 DEF PollTrue
  <2> QED
    BY <1>4, <1>7, <2>1, <2>2
<1> QED
  BY <1>3, <1>5, <1>6, <1>8, <1>9 DEF ViewStep

LEMMA BoardStep == TypeInv /\ RowInv /\ BoardInv /\ [Next]_vars => BoardInv' /\ (Gains \/ shown' = shown)
<1> SUFFICES ASSUME TypeInv, RowInv, BoardInv, [Next]_vars
             PROVE  BoardInv' /\ (Gains \/ shown' = shown)
  OBVIOUS
<1>1. CASE ViewStep
  BY <1>1, ViewBoard
<1>2. CASE Deploy
  <2>1. shown' = shown /\ clock' = clock /\ (view' = view \/ (view' = Rest /\ view.pc # "closed"))
    BY <1>2 DEF Deploy
  <2> QED
    BY <2>1, BoardStays
<1>3. ASSUME NEW r \in Requests, RequestStep(r)
      PROVE  shown' = shown /\ view' = view /\ clock' = clock
  BY <1>3 DEF RequestStep, JoinCheck, JoinInsert, CompleteStamp, CompleteWrite, CertLook,
              CertBadge, CertInsert, CertRead, Drop, Forget
<1>4. CASE Tick \/ UNCHANGED vars
  BY <1>4, BoardStays DEF Tick, vars
<1>5. CASE \/ \E s \in Sessions : CreateSession(s)
           \/ \E s \in Sessions, c \in Contests : CreateChallenge(s, c)
           \/ PruneEmptySessions
  <2>1. shown' = shown /\ view' = view /\ clock' = clock
    BY <1>5 DEF CreateSession, CreateChallenge, PruneEmptySessions
  <2> QED
    BY <2>1, BoardStays
<1> QED
  BY <1>1, <1>2, <1>3, <1>4, <1>5, BoardStays DEF Next

LEMMA InitBoard == Init => BoardInv
  BY DEF Init, BoardInv, Closed

\* An open leaderboard never takes back a pilot, a cleared lesson or a status.
THEOREM BoardsOnlyGrow == Spec => BoardOnlyGrows
<1>1. TypeInv /\ RowInv /\ BoardInv /\ [Next]_vars =>
        [/\ shown.people \subseteq shown'.people
         /\ \A l \in Learners : shown.cleared[l] \subseteq shown'.cleared[l]
         /\ shown.status = "ended" => shown'.status = "ended"
         /\ shown.status = "live" => shown'.status # "upcoming"]_shown
  BY BoardStep DEF Gains
<1> QED
  BY <1>1, InitType, TypeStep, InitRows, RowStep, InitBoard, BoardStep, PTL
     DEF Spec, BoardOnlyGrows
=============================================================================
