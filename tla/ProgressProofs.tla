-------------------------- MODULE ProgressProofs --------------------------
(***************************************************************************)
(* What Progress guarantees for every catalogue, every number of learners, *)
(* requests, builds and days: first the state the server keeps, then what  *)
(* learners are told (the pointers a load derives, the answers of          *)
(* requests, the key behind the identity lesson). That a list with an      *)
(* outstanding mission has a first one is the least-number principle,      *)
(* taken from the library for sets.                                        *)
(***************************************************************************)
EXTENDS Progress, LeastNumber, TLAPS

-----------------------------------------------------------------------------
(* The pointer operators.                                                  *)

\* The next mission of a list is one of its missions, or there is none.
LEMMA NextIncompleteType ==
    ASSUME NEW s \in Seq(Missions), NEW done
    PROVE  NextIncomplete(s, done) \in Pointer
<1>1. CASE \E i \in DOMAIN s : IsFirstIncomplete(s, done, i)
  <2>1. (CHOOSE i \in DOMAIN s : IsFirstIncomplete(s, done, i)) \in DOMAIN s
    BY <1>1
  <2>2. \A i \in DOMAIN s : s[i] \in Missions
    OBVIOUS
  <2> QED
    BY <1>1, <2>1, <2>2 DEF NextIncomplete, Pointer
<1>2. CASE ~ \E i \in DOMAIN s : IsFirstIncomplete(s, done, i)
  BY <1>2 DEF NextIncomplete, Pointer
<1> QED
  BY <1>1, <1>2

\* Hydration turns a map of pointers into a map of pointers.
LEMMA HydrateType ==
    ASSUME release \in 1..Releases,
           NEW stored \in [Trees -> Pointer], NEW done
    PROVE  HydratePerTree(stored, done) \in [Trees -> Pointer]
<1>1. \A t \in Trees : TreeList(t) \in Seq(Missions)
  BY ConstantsAssumption DEF TreeList
<1>2. \A t \in Trees : NextIncomplete(TreeList(t), done) \in Pointer
  BY <1>1, NextIncompleteType
<1> QED
  BY <1>2 DEF HydratePerTree

-----------------------------------------------------------------------------
(* Type correctness.                                                       *)

LEMMA FreshType ==
    ASSUME NEW pc \in {"idle"} \cup Pending \cup Answered,
           NEW l \in Learners \cup {None}, NEW m \in Pointer
    PROVE  /\ Idle \in Request /\ Idle.pc = "idle"
           /\ Fresh(pc, l, m) \in Request
           /\ Fresh(pc, l, m).pc = pc
           /\ Fresh(pc, l, m).who = l
           /\ Fresh(pc, l, m).mission = m
           /\ Fresh(pc, l, m).perTree = NoPointers
  BY DEF Fresh, Idle, Request, NoPointers, Pointer, Pending, Answered

\* The types of all that is not a request.
StoreTypes ==
    /\ release \in 1..Releases
    /\ day \in Nat /\ day >= FirstDay
    /\ ledger \in [Learners -> [Missions -> Nat]]
    /\ row \in [Learners -> Row]
    /\ credited \in [Learners -> SUBSET Nat]
    /\ faults \in Nat

\* A step that replaces the record of one request keeps the types if the new
\* record is one, and if the lock goes with the record.
LEMMA BecomeType ==
    ASSUME TypeOK, StoreTypes', NEW r \in Requests, NEW x \in Request,
           Become(r, x),
           x.pc # "idle" => x.who \in Learners /\ x.mission \in Missions,
           x.pc = "commit" => writer \in {None, r},
           writer' = IF x.pc = "commit" THEN r
                     ELSE IF writer = r THEN None ELSE writer
    PROVE  TypeOK'
<1>1. /\ req' \in [Requests -> Request]
      /\ req'[r] = x
      /\ \A q \in Requests \ {r} : req'[q] = req[q]
  BY DEF TypeOK, Become
<1>2. \A q \in Requests : req'[q].pc # "idle" => /\ req'[q].who \in Learners
                                                 /\ req'[q].mission \in Missions
  BY <1>1 DEF TypeOK, At, Me
<1>3. OneWriter'
  <2> SUFFICES ASSUME NEW q \in Requests
               PROVE  req'[q].pc = "commit" <=> writer' = q
    BY DEF OneWriter, At
  <2>1. None \notin Requests
    BY ConstantsAssumption
  <2>2. \A p \in Requests : req[p].pc = "commit" <=> writer = p
    BY DEF TypeOK, OneWriter, At
  <2>3. CASE q = r
    BY <1>1, <2>1, <2>3
  <2>4. CASE q # r
    BY <1>1, <2>1, <2>2, <2>4
  <2> QED
    BY <2>3, <2>4
<1>4. writer' \in Requests \cup {None}
  BY DEF TypeOK
<1> QED
  BY <1>1, <1>2, <1>3, <1>4 DEF TypeOK, StoreTypes, At, Me

\* What a request holds when it is not idle.
LEMMA RequestType ==
    ASSUME TypeOK, NEW r \in Requests, req[r].pc # "idle"
    PROVE  /\ req[r] \in Request
           /\ Me(r) \in Learners /\ req[r].who \in Learners
           /\ req[r].mission \in Missions /\ req[r].mission \in Pointer
           /\ req[r].pc = "commit" <=> writer = r
           /\ row[Me(r)] \in Row
  BY DEF TypeOK, At, Me, OneWriter, Pointer

LEMMA InitType == Init => TypeOK
<1> SUFFICES ASSUME Init PROVE TypeOK
  OBVIOUS
<1>1. NoPointers \in [Trees -> Pointer]
  BY DEF NoPointers, Pointer
<1>2. row \in [Learners -> Row]
  BY <1>1 DEF Init, Row
<1>3. Idle \in Request /\ Idle.pc = "idle"
  BY <1>1 DEF Idle, Fresh, Request, Pointer
<1>4. req \in [Requests -> Request] /\ \A r \in Requests : req[r].pc = "idle"
  BY <1>3 DEF Init
<1>5. OneWriter
  BY <1>4, ConstantsAssumption DEF Init, OneWriter, At
<1> QED
  BY <1>2, <1>4, <1>5, ConstantsAssumption DEF Init, TypeOK, At, NotYet

\* A handler that stops with an answer keeps the types.
LEMMA AnswerType ==
    ASSUME TypeOK, StoreTypes', NEW r \in Requests, NEW v \in Answered,
           Answer(r, v), req[r].pc # "idle", writer # r, UNCHANGED writer
    PROVE  TypeOK'
<1> DEFINE x == Fresh(v, Me(r), req[r].mission)
<1>1. v # "commit" /\ v \in {"idle"} \cup Pending \cup Answered
  BY DEF Answered
<1>2. /\ Me(r) \in Learners /\ req[r].mission \in Missions
      /\ Me(r) \in Learners \cup {None} /\ req[r].mission \in Pointer
  BY RequestType DEF Pointer
<1>3. /\ x \in Request /\ x.pc # "commit"
      /\ x.who \in Learners /\ x.mission \in Missions
  <2>1. /\ x \in Request /\ x.pc = v
        /\ x.who = Me(r) /\ x.mission = req[r].mission
    BY <1>1, <1>2, FreshType
  <2> QED
    BY <1>1, <1>2, <2>1
<1>4. Become(r, x)
  BY DEF Answer
<1> HIDE DEF x
<1> QED
  BY <1>3, <1>4, BecomeType

\* Every step keeps the types, and keeps the write lock with the request that
\* is between its INSERT and its commit.
LEMMA StepType == TypeOK /\ [Next]_vars => TypeOK'
<1> SUFFICES ASSUME TypeOK, [Next]_vars PROVE TypeOK'
  OBVIOUS
<1>0. StoreTypes /\ None \notin Requests
  BY ConstantsAssumption DEF TypeOK, StoreTypes
<1>1. ASSUME NEW r \in Requests, NEW l \in Learners, NEW m \in Missions,
             Submit(r, l, m)
      PROVE  TypeOK'
  <2> DEFINE x == Fresh("row", l, m)
  <2>1. x \in Request /\ x.pc = "row" /\ x.who = l /\ x.mission = m
    BY FreshType DEF Pending, Pointer
  <2>2. StoreTypes' /\ UNCHANGED writer /\ writer # r /\ Become(r, x)
    BY <1>0, <1>1 DEF Submit, StoreTypes, TypeOK, OneWriter, At
  <2> HIDE DEF x
  <2> QED
    BY <2>1, <2>2, BecomeType
<1>2. ASSUME NEW r \in Requests, LoadRow(r) PROVE TypeOK'
  <2> DEFINE x == [req[r] EXCEPT !.pc = "ledger",
                                 !.perTree = row[Me(r)].perTree,
                                 !.journey = row[Me(r)].journey]
  <2>1. req[r] \in Request /\ row[Me(r)] \in Row /\ writer # r
        /\ req[r].who \in Learners /\ req[r].mission \in Missions
    BY <1>2, RequestType DEF LoadRow, At
  <2>2. x \in Request /\ x.pc = "ledger" /\ x.who = req[r].who
        /\ x.mission = req[r].mission
    BY <2>1 DEF Request, Row, Pending
  <2>3. StoreTypes' /\ UNCHANGED writer /\ Become(r, x)
    BY <1>0, <1>2 DEF LoadRow, StoreTypes
  <2> HIDE DEF x
  <2> QED
    BY <2>1, <2>2, <2>3, BecomeType
<1>3. ASSUME NEW r \in Requests, RefuseCompleted(r) PROVE TypeOK'
  <2>1. req[r].pc # "idle" /\ writer # r
    BY <1>3, RequestType DEF RefuseCompleted, At
  <2>2. StoreTypes' /\ UNCHANGED writer /\ Answer(r, "already")
    BY <1>0, <1>3 DEF RefuseCompleted, StoreTypes
  <2> QED
    BY <2>1, <2>2, AnswerType DEF Answered
<1>4. ASSUME NEW r \in Requests, RefuseGate(r) PROVE TypeOK'
  <2>1. req[r].pc # "idle" /\ writer # r
    BY <1>4, RequestType DEF RefuseGate, At
  <2>2. StoreTypes' /\ UNCHANGED writer /\ Answer(r, "failed")
    BY <1>0, <1>4 DEF RefuseGate, StoreTypes
  <2> QED
    BY <2>1, <2>2, AnswerType DEF Answered
<1>5. ASSUME NEW r \in Requests, PassGate(r) PROVE TypeOK'
  <2> DEFINE done == Done(Me(r))
             loaded == HydratePerTree(req[r].perTree, done)
             x == [req[r] EXCEPT !.pc = "verify", !.perTree = loaded,
                                 !.done = done, !.journey = None]
  <2>1. req[r] \in Request /\ writer # r
        /\ req[r].who \in Learners /\ req[r].mission \in Missions
    BY <1>5, RequestType DEF PassGate, At
  <2>2. loaded \in [Trees -> Pointer] /\ done \subseteq Missions
    BY <1>0, <2>1, HydrateType DEF Request, Done, StoreTypes
  <2>3. Become(r, x) /\ StoreTypes' /\ UNCHANGED writer
    BY <1>0, <1>5 DEF PassGate, StoreTypes
  <2> HIDE DEF loaded, done
  <2>4. x \in Request /\ x.pc = "verify" /\ x.who = req[r].who
        /\ x.mission = req[r].mission
    BY <2>1, <2>2 DEF Request, Pending
  <2> HIDE DEF x
  <2> QED
    BY <2>1, <2>3, <2>4, BecomeType
<1>6. ASSUME NEW r \in Requests, AcceptProof(r) PROVE TypeOK'
  <2> DEFINE x == [req[r] EXCEPT !.pc = "bind"]
  <2>1. req[r] \in Request /\ row[Me(r)] \in Row /\ writer # r
        /\ req[r].who \in Learners /\ req[r].mission \in Missions
    BY <1>6, RequestType DEF AcceptProof, At
  <2>2. x \in Request /\ x.pc = "bind" /\ x.who = req[r].who
        /\ x.mission = req[r].mission
    BY <2>1 DEF Request, Pending
  <2>3. row' \in [Learners -> Row]
    <3>1. row \in [Learners -> Row] /\ req[r].who \in Learners
      BY <1>0, <2>1 DEF StoreTypes
    <3>2. CASE row' = row
      BY <3>1, <3>2
    <3>3. ASSUME NEW k \in Keys, row' = [row EXCEPT ![Me(r)].pubkey = k]
          PROVE  row' \in [Learners -> Row]
      <4>1. [row[Me(r)] EXCEPT !.pubkey = k] \in Row
        BY <2>1 DEF Row
      <4>2. row' = [row EXCEPT ![Me(r)] = [row[Me(r)] EXCEPT !.pubkey = k]]
        BY <3>1, <3>3
      <4> QED
        BY <3>1, <4>1, <4>2
    <3> QED
      BY <1>6, <3>2, <3>3 DEF AcceptProof
  <2>4. StoreTypes' /\ UNCHANGED writer /\ Become(r, x)
    BY <1>0, <1>6, <2>3 DEF AcceptProof, StoreTypes, Goto
  <2> HIDE DEF x
  <2> QED
    BY <2>1, <2>2, <2>4, BecomeType
<1>7. ASSUME NEW r \in Requests, RejectProof(r) PROVE TypeOK'
  <2>1. req[r].pc # "idle" /\ writer # r
    BY <1>7, RequestType DEF RejectProof, At
  <2>2. StoreTypes' /\ UNCHANGED writer /\ Answer(r, "failed")
    BY <1>0, <1>7 DEF RejectProof, StoreTypes
  <2> QED
    BY <2>1, <2>2, AnswerType DEF Answered
<1>8. ASSUME NEW r \in Requests, BindStamp(r) PROVE TypeOK'
  <2> DEFINE x == [req[r] EXCEPT !.pc = "insert", !.stamp = day]
  <2>1. req[r] \in Request /\ writer # r
        /\ req[r].who \in Learners /\ req[r].mission \in Missions
    BY <1>8, RequestType DEF BindStamp, At
  <2>2. x \in Request /\ x.pc = "insert" /\ x.who = req[r].who
        /\ x.mission = req[r].mission
    BY <1>0, <2>1 DEF Request, Pending, StoreTypes
  <2>3. StoreTypes' /\ UNCHANGED writer /\ Become(r, x)
    BY <1>0, <1>8 DEF BindStamp, StoreTypes
  <2> HIDE DEF x
  <2> QED
    BY <2>1, <2>2, <2>3, BecomeType
<1>9. ASSUME NEW r \in Requests, InsertCompletion(r) PROVE TypeOK'
  <2> DEFINE x == [req[r] EXCEPT !.pc = "commit", !.today = day]
  <2>1. req[r] \in Request
        /\ req[r].who \in Learners /\ req[r].mission \in Missions
    BY <1>9, RequestType DEF InsertCompletion, At
  <2>2. x \in Request /\ x.pc = "commit" /\ x.who = req[r].who
        /\ x.mission = req[r].mission
    BY <1>0, <2>1 DEF Request, Pending, StoreTypes
  <2>3. StoreTypes' /\ writer = None /\ writer' = r /\ Become(r, x)
    BY <1>0, <1>9 DEF InsertCompletion, StoreTypes
  <2> HIDE DEF x
  <2> QED
    BY <2>1, <2>2, <2>3, BecomeType
<1>10. ASSUME NEW r \in Requests, InsertConflict(r) PROVE TypeOK'
  <2>1. req[r].pc # "idle" /\ writer # r
    BY <1>10, RequestType DEF InsertConflict, At
  <2>2. StoreTypes' /\ UNCHANGED writer /\ Answer(r, "failed")
    BY <1>0, <1>10 DEF InsertConflict, StoreTypes
  <2> QED
    BY <2>1, <2>2, AnswerType DEF Answered
<1>11. ASSUME NEW r \in Requests, InsertBusy(r) PROVE TypeOK'
  <2>1. req[r].pc # "idle" /\ writer # r
    BY <1>11, RequestType DEF InsertBusy, At
  <2>2. StoreTypes' /\ UNCHANGED writer /\ Answer(r, "failed")
    BY <1>0, <1>11 DEF InsertBusy, StoreTypes
  <2> QED
    BY <2>1, <2>2, AnswerType DEF Answered
<1>12. ASSUME NEW r \in Requests, CommitCompletion(r) PROVE TypeOK'
  <2> DEFINE l == Me(r)
             m == req[r].mission
             t == FromMission(m)
             next == NextIncomplete(TreeList(t), req[r].done \cup {m})
             moved == [req[r].perTree EXCEPT ![t] = next]
             count == StreakAfter(row[l].streakCount, row[l].streakDay,
                                  req[r].today)
             x == Fresh("reloadRow", l, m)
  <2>1. /\ l \in Learners /\ m \in Missions /\ writer = r
        /\ req[r] \in Request /\ row[l] \in Row
    BY <1>12, RequestType DEF CommitCompletion, At
  <2>2. ledger' \in [Learners -> [Missions -> Nat]]
    BY <1>0, <1>12, <2>1 DEF CommitCompletion, Request, StoreTypes
  <2>3. moved \in [Trees -> Pointer]
    <3>1. t \in Trees => next \in Pointer
      BY <1>0, ConstantsAssumption, NextIncompleteType DEF TreeList, StoreTypes
    <3> QED
      BY <2>1, <3>1 DEF Request
  <2>4. count \in Nat
    BY <2>1 DEF StreakAfter, Row
  <2>5. /\ row' = [row EXCEPT ![l].perTree = moved, ![l].streakCount = count,
                              ![l].streakDay = req[r].today]
        /\ credited' = [credited EXCEPT ![l] = @ \cup {req[r].today}]
        /\ UNCHANGED <<release, day, faults>>
        /\ Become(r, x) /\ writer' = None
    BY <1>12 DEF CommitCompletion
  <2>6. x \in Request /\ x.pc = "reloadRow" /\ x.who = l /\ x.mission = m
    BY <2>1, FreshType DEF Pending, Pointer
  <2> HIDE DEF moved, count, x
  <2>7. row' \in [Learners -> Row]
    BY <1>0, <2>1, <2>3, <2>4, <2>5 DEF Row, Request, StoreTypes
  <2>8. credited' \in [Learners -> SUBSET Nat]
    BY <1>0, <2>1, <2>5 DEF Request, StoreTypes
  <2>9. StoreTypes'
    BY <1>0, <2>2, <2>5, <2>7, <2>8 DEF StoreTypes
  <2> QED
    BY <2>1, <2>5, <2>6, <2>9, BecomeType
<1>13. ASSUME NEW r \in Requests, ReloadRow(r) PROVE TypeOK'
  <2> DEFINE x == [req[r] EXCEPT !.pc = "reloadLedger",
                                 !.perTree = row[Me(r)].perTree]
  <2>1. req[r] \in Request /\ row[Me(r)] \in Row /\ writer # r
        /\ req[r].who \in Learners /\ req[r].mission \in Missions
    BY <1>13, RequestType DEF ReloadRow, At
  <2>2. x \in Request /\ x.pc = "reloadLedger" /\ x.who = req[r].who
        /\ x.mission = req[r].mission
    BY <2>1 DEF Request, Row, Pending
  <2>3. StoreTypes' /\ UNCHANGED writer /\ Become(r, x)
    BY <1>0, <1>13 DEF ReloadRow, StoreTypes
  <2> HIDE DEF x
  <2> QED
    BY <2>1, <2>2, <2>3, BecomeType
<1>14. ASSUME NEW r \in Requests, ReloadLedger(r) PROVE TypeOK'
  <2> DEFINE done == Done(Me(r))
             loaded == HydratePerTree(req[r].perTree, done)
             x == [req[r] EXCEPT !.pc = "ok", !.done = done,
                                 !.perTree = loaded]
  <2>1. req[r] \in Request /\ writer # r
        /\ req[r].who \in Learners /\ req[r].mission \in Missions
    BY <1>14, RequestType DEF ReloadLedger, At
  <2>2. loaded \in [Trees -> Pointer] /\ done \subseteq Missions
    BY <1>0, <2>1, HydrateType DEF Request, Done, StoreTypes
  <2>3. Become(r, x) /\ StoreTypes' /\ UNCHANGED writer
    BY <1>0, <1>14 DEF ReloadLedger, StoreTypes
  <2> HIDE DEF loaded, done
  <2>4. x \in Request /\ x.pc = "ok" /\ x.who = req[r].who
        /\ x.mission = req[r].mission
    BY <2>1, <2>2 DEF Request, Answered
  <2> HIDE DEF x
  <2> QED
    BY <2>1, <2>3, <2>4, BecomeType
<1>15. ASSUME NEW r \in Requests, Deliver(r) PROVE TypeOK'
  <2>1. StoreTypes' /\ UNCHANGED writer /\ Become(r, Idle) /\ writer # r
    BY <1>0, <1>15 DEF Deliver, StoreTypes, Answered, TypeOK, OneWriter, At
  <2>2. Idle \in Request /\ Idle.pc = "idle"
    BY FreshType DEF Pointer
  <2> QED
    BY <2>1, <2>2, BecomeType
<1>16. ASSUME NEW r \in Requests, Drop(r) PROVE TypeOK'
  <2>1. /\ StoreTypes' /\ Become(r, Idle)
        /\ writer' = IF writer = r THEN None ELSE writer
    BY <1>0, <1>16 DEF Drop, StoreTypes
  <2>2. Idle \in Request /\ Idle.pc = "idle"
    BY FreshType DEF Pointer
  <2> QED
    BY <2>1, <2>2, BecomeType
<1>17. ASSUME NEW l \in Learners, NEW j \in Journeys \cup {None},
              UpdateProfile(l, j)
       PROVE  TypeOK'
  <2>1. row' \in [Learners -> Row]
    BY <1>0, <1>17 DEF UpdateProfile, Row, StoreTypes
  <2> QED
    BY <1>17, <2>1 DEF UpdateProfile, TypeOK, OneWriter, At, Me
<1>18. CASE NextDay
  BY <1>18, ConstantsAssumption DEF NextDay, TypeOK, OneWriter, At, Me
<1>19. ASSUME NEW k \in 1..Releases, Restart(k), faults' \in Nat PROVE TypeOK'
  <2>1. Idle \in Request /\ Idle.pc = "idle"
    BY FreshType DEF Pointer
  <2>2. \A r \in Requests : req'[r] = Idle
    BY <1>19 DEF Restart
  <2> QED
    BY <1>0, <1>19, <2>1, <2>2 DEF Restart, TypeOK, OneWriter, At, Me
<1>20. CASE Crash
  BY <1>0, <1>20, <1>19 DEF Crash, StoreTypes
<1>21. CASE Deploy
  BY <1>0, <1>21, <1>19, ConstantsAssumption DEF Deploy, StoreTypes
<1>22. CASE UNCHANGED vars
  BY <1>22 DEF vars, TypeOK, OneWriter, At, Me
<1> QED
  BY <1>1, <1>2, <1>3, <1>4, <1>5, <1>6, <1>7, <1>8, <1>9, <1>10, <1>11,
     <1>12, <1>13, <1>14, <1>15, <1>16, <1>17, <1>18, <1>20, <1>21, <1>22
  DEF Next, Handle

\* The types hold throughout, for every value of the constants.
THEOREM TypeCorrect == Spec => []TypeOK
<1>1. Init => TypeOK
  BY InitType
<1>2. TypeOK /\ [Next]_vars => TypeOK'
  BY StepType
<1> QED
  BY <1>1, <1>2, PTL DEF Spec

-----------------------------------------------------------------------------
(* The steps that end a request, or begin one: they replace one record by  *)
(* a fresh one and leave the database alone.                               *)

QuietStep(r) ==
    /\ UNCHANGED <<release, day, ledger, row, credited>>
    /\ \E pc \in {"idle", "row", "already", "failed"},
          l \in Learners \cup {None}, m \in Pointer :
          /\ Become(r, Fresh(pc, l, m))
          /\ pc = "row" => m \in Catalogue
          /\ pc = "already" => m \in Done(l)

\* The steps that advance a handler.
HandlerStep(r) ==
    \/ LoadRow(r) \/ PassGate(r) \/ AcceptProof(r) \/ BindStamp(r)
    \/ InsertCompletion(r) \/ CommitCompletion(r)
    \/ ReloadRow(r) \/ ReloadLedger(r)

\* The steps of everything else.
OtherStep ==
    \/ \E l \in Learners, j \in Journeys \cup {None} : UpdateProfile(l, j)
    \/ NextDay
    \/ \E k \in 1..Releases : k \in release..(release + 1) /\ Restart(k)
    \/ UNCHANGED vars

\* An answer ends a request quietly.
LEMMA AnswerQuiet ==
    ASSUME TypeOK, NEW r \in Requests, req[r].pc # "idle",
           NEW v \in {"already", "failed"}, Answer(r, v),
           v = "already" => req[r].mission \in Done(Me(r)),
           UNCHANGED <<release, day, ledger, row, credited>>
    PROVE  QuietStep(r)
<1>1. Me(r) \in Learners \cup {None} /\ req[r].mission \in Pointer
  BY RequestType
<1> QED
  BY <1>1 DEF QuietStep, Answer

\* Giving a slot up is quiet as well.
LEMMA IdleQuiet ==
    ASSUME NEW r \in Requests, Become(r, Idle),
           UNCHANGED <<release, day, ledger, row, credited>>
    PROVE  QuietStep(r)
<1>1. Idle = Fresh("idle", None, None)
  BY DEF Idle
<1>2. None \in Pointer
  BY DEF Pointer
<1> QED
  BY <1>1, <1>2 DEF QuietStep

LEMMA StepKinds ==
    ASSUME TypeOK, [Next]_vars
    PROVE  OtherStep \/ \E r \in Requests : QuietStep(r) \/ HandlerStep(r)
<1>1. ASSUME NEW r \in Requests, NEW l \in Learners, NEW m \in Missions,
             Submit(r, l, m)
      PROVE  QuietStep(r)
  <2>1. m \in Pointer
    BY DEF Pointer
  <2> QED
    BY <1>1, <2>1 DEF Submit, QuietStep
<1>2. ASSUME NEW r \in Requests, RefuseCompleted(r) PROVE QuietStep(r)
  BY <1>2, AnswerQuiet DEF RefuseCompleted, At
<1>3. ASSUME NEW r \in Requests,
             RefuseGate(r) \/ RejectProof(r) \/ InsertConflict(r) \/ InsertBusy(r)
      PROVE  QuietStep(r)
  <2>1. req[r].pc # "idle"
    BY <1>3 DEF RefuseGate, RejectProof, InsertConflict, InsertBusy, At
  <2>2. Answer(r, "failed") /\ UNCHANGED <<release, day, ledger, row, credited>>
    BY <1>3 DEF RefuseGate, RejectProof, InsertConflict, InsertBusy
  <2> QED
    BY <2>1, <2>2, AnswerQuiet
<1>4. ASSUME NEW r \in Requests, Deliver(r) \/ Drop(r) PROVE QuietStep(r)
  BY <1>4, IdleQuiet DEF Deliver, Drop
<1>5. ASSUME Crash \/ Deploy PROVE OtherStep
  BY <1>5, ConstantsAssumption DEF Crash, Deploy, OtherStep, TypeOK
<1> QED
  BY <1>1, <1>2, <1>3, <1>4, <1>5 DEF Next, Handle, HandlerStep, OtherStep

\* What a fresh record holds.
LEMMA FreshFields ==
    ASSUME NEW pc, NEW l, NEW m
    PROVE  /\ Fresh(pc, l, m).pc = pc
           /\ Fresh(pc, l, m).who = l
           /\ Fresh(pc, l, m).mission = m
           /\ Fresh(pc, l, m).perTree = NoPointers
           /\ Fresh(pc, l, m).today = 0
  BY DEF Fresh, Idle

-----------------------------------------------------------------------------
(* What each handler step leaves in the request's record.                  *)

\* Only the record of r moves on; its author and its mission stay.
Advances(r, from, to) ==
    /\ req[r].pc = from /\ req'[r].pc = to
    /\ req'[r].who = req[r].who /\ req'[r].mission = req[r].mission
    /\ req[r] \in Request /\ req[r].who \in Learners
    /\ req[r].mission \in Missions
    /\ \A q \in Requests : q # r => req'[q] = req[q]

LEMMA LoadRowEffect ==
    ASSUME TypeOK, NEW r \in Requests, LoadRow(r)
    PROVE  /\ Advances(r, "row", "ledger")
           /\ req'[r].perTree = row[req[r].who].perTree
           /\ UNCHANGED <<release, day, ledger, row, credited>>
  BY RequestType DEF LoadRow, Advances, Become, At, Me, Request, TypeOK

LEMMA PassGateEffect ==
    ASSUME TypeOK, NEW r \in Requests, PassGate(r)
    PROVE  LET done == Done(req[r].who)
               loaded == HydratePerTree(req[r].perTree, done)
           IN  /\ Advances(r, "ledger", "verify")
               /\ req'[r].perTree = loaded /\ req'[r].done = done
               /\ AtGate(loaded, req[r].journey, done, req[r].mission)
               /\ UNCHANGED <<release, day, ledger, row, credited>>
  BY RequestType DEF PassGate, Advances, Become, At, Me, Request, TypeOK

LEMMA AcceptProofEffect ==
    ASSUME TypeOK, NEW r \in Requests, AcceptProof(r)
    PROVE  /\ Advances(r, "verify", "bind")
           /\ req'[r].perTree = req[r].perTree /\ req'[r].done = req[r].done
           /\ UNCHANGED <<release, day, ledger, credited>>
           /\ \A l \in Learners : /\ row'[l].perTree = row[l].perTree
                                  /\ row'[l].streakCount = row[l].streakCount
                                  /\ row'[l].streakDay = row[l].streakDay
                                  /\ row[l].pubkey # None
                                        => row'[l].pubkey # None
           /\ req[r].mission \in IdentityMissions
                 => row'[req[r].who].pubkey # None
<1>1. /\ Become(r, [req[r] EXCEPT !.pc = "bind"]) /\ req[r].pc = "verify"
      /\ UNCHANGED <<release, day, ledger, credited>>
  BY DEF AcceptProof, Goto, At
<1>2. \/ row' = row /\ req[r].mission \notin IdentityMissions
      \/ \E k \in Keys : row' = [row EXCEPT ![req[r].who].pubkey = k]
  BY DEF AcceptProof, Me
<1>3. row \in [Learners -> Row] /\ req[r].who \in Learners
  BY <1>1, RequestType DEF TypeOK
<1>4. /\ \A l \in Learners : /\ row'[l].perTree = row[l].perTree
                             /\ row'[l].streakCount = row[l].streakCount
                             /\ row'[l].streakDay = row[l].streakDay
                             /\ row[l].pubkey # None => row'[l].pubkey # None
      /\ req[r].mission \in IdentityMissions
            => row'[req[r].who].pubkey # None
  <2>1. CASE row' = row /\ req[r].mission \notin IdentityMissions
    BY <2>1
  <2>2. ASSUME NEW k \in Keys, row' = [row EXCEPT ![req[r].who].pubkey = k]
        PROVE  /\ \A l \in Learners :
                     /\ row'[l].perTree = row[l].perTree
                     /\ row'[l].streakCount = row[l].streakCount
                     /\ row'[l].streakDay = row[l].streakDay
                     /\ row[l].pubkey # None => row'[l].pubkey # None
               /\ row'[req[r].who].pubkey # None
    BY <1>3, <2>2, ConstantsAssumption DEF Row
  <2> QED
    BY <1>2, <2>1, <2>2
<1> QED
  BY <1>1, <1>4, RequestType DEF Advances, Become, Me, Request, TypeOK

LEMMA BindStampEffect ==
    ASSUME TypeOK, NEW r \in Requests, BindStamp(r)
    PROVE  /\ Advances(r, "bind", "insert")
           /\ req'[r].perTree = req[r].perTree /\ req'[r].done = req[r].done
           /\ req'[r].stamp = day
           /\ UNCHANGED <<release, day, ledger, row, credited>>
  BY RequestType DEF BindStamp, Advances, Become, At, Me, Request, TypeOK

LEMMA InsertEffect ==
    ASSUME TypeOK, NEW r \in Requests, InsertCompletion(r)
    PROVE  /\ Advances(r, "insert", "commit")
           /\ req'[r].perTree = req[r].perTree /\ req'[r].done = req[r].done
           /\ req'[r].stamp = req[r].stamp /\ req'[r].today = day
           /\ req[r].mission \notin Done(req[r].who)
           /\ UNCHANGED <<release, day, ledger, row, credited>>
  BY RequestType DEF InsertCompletion, Advances, Become, At, Me, Request, TypeOK

LEMMA CommitEffect ==
    ASSUME TypeOK, NEW r \in Requests, CommitCompletion(r)
    PROVE  LET l == req[r].who
               m == req[r].mission
               t == FromMission(m)
               next == NextIncomplete(TreeList(t), req[r].done \cup {m})
           IN  /\ Advances(r, "commit", "reloadRow")
               /\ writer = r
               /\ req'[r].perTree = NoPointers
               /\ ledger' = [ledger EXCEPT ![l][m] = req[r].stamp]
               /\ row'[l].perTree = [req[r].perTree EXCEPT ![t] = next]
               /\ row'[l].streakCount =
                     StreakAfter(row[l].streakCount, row[l].streakDay,
                                 req[r].today)
               /\ row'[l].streakDay = req[r].today
               /\ row'[l].pubkey = row[l].pubkey
               /\ \A k \in Learners : k # l => row'[k] = row[k]
               /\ credited' = [credited EXCEPT ![l] = @ \cup {req[r].today}]
               /\ UNCHANGED <<release, day>>
<1> DEFINE l == req[r].who
           m == req[r].mission
           t == FromMission(m)
           next == NextIncomplete(TreeList(t), req[r].done \cup {m})
           moved == [req[r].perTree EXCEPT ![t] = next]
           count == StreakAfter(row[l].streakCount, row[l].streakDay,
                                req[r].today)
<1>1. /\ ledger' = [ledger EXCEPT ![l][m] = req[r].stamp]
      /\ row' = [row EXCEPT ![l].perTree = moved, ![l].streakCount = count,
                            ![l].streakDay = req[r].today]
      /\ credited' = [credited EXCEPT ![l] = @ \cup {req[r].today}]
      /\ UNCHANGED <<release, day>>
      /\ Become(r, Fresh("reloadRow", l, m)) /\ req[r].pc = "commit"
  BY DEF CommitCompletion, Me, At
<1> HIDE DEF moved, count
<1>2. writer = r /\ l \in Learners /\ row[l] \in Row
  BY <1>1, RequestType DEF Me
<1>3. Advances(r, "commit", "reloadRow") /\ req'[r].perTree = NoPointers
  BY <1>1, RequestType, FreshFields DEF Advances, Become, Me, TypeOK
<1>4. /\ row'[l].perTree = moved /\ row'[l].streakCount = count
      /\ row'[l].streakDay = req[r].today /\ row'[l].pubkey = row[l].pubkey
      /\ \A k \in Learners : k # l => row'[k] = row[k]
  BY <1>1, <1>2 DEF TypeOK, Row
<1> QED
  BY <1>1, <1>2, <1>3, <1>4 DEF moved, count

LEMMA ReloadRowEffect ==
    ASSUME TypeOK, NEW r \in Requests, ReloadRow(r)
    PROVE  /\ Advances(r, "reloadRow", "reloadLedger")
           /\ req'[r].perTree = row[req[r].who].perTree
           /\ UNCHANGED <<release, day, ledger, row, credited>>
  BY RequestType DEF ReloadRow, Advances, Become, At, Me, Request, TypeOK

LEMMA ReloadLedgerEffect ==
    ASSUME TypeOK, NEW r \in Requests, ReloadLedger(r)
    PROVE  /\ Advances(r, "reloadLedger", "ok")
           /\ req'[r].done = Done(req[r].who)
           /\ req'[r].perTree = HydratePerTree(req[r].perTree, req'[r].done)
           /\ UNCHANGED <<release, day, ledger, row, credited>>
  BY RequestType DEF ReloadLedger, Advances, Become, At, Me, Request, TypeOK

-----------------------------------------------------------------------------
(* The ledger.                                                             *)

\* Between the bind and the commit a request holds a real day, and nobody
\* else can have recorded its mission once it holds the lock.
RequestLedgerInv(r) ==
    /\ req[r].pc \in {"insert", "commit"} => req[r].stamp # NotYet
    /\ req[r].pc = "commit" => req[r].mission \notin Done(req[r].who)

LedgerInv == \A r \in Requests : RequestLedgerInv(r)

LEMMA LedgerInit == Init => LedgerInv
  BY DEF Init, LedgerInv, RequestLedgerInv, Idle, Fresh

\* No step removes a completion or changes when it happened.
LedgerKept ==
    \A l \in Learners, m \in Missions :
        ledger[l][m] # NotYet => ledger'[l][m] = ledger[l][m]

LEMMA LedgerStep == TypeOK /\ LedgerInv /\ [Next]_vars => LedgerInv' /\ LedgerKept
<1> SUFFICES ASSUME TypeOK, LedgerInv, [Next]_vars
             PROVE  LedgerInv' /\ LedgerKept
  OBVIOUS
<1>1. ASSUME UNCHANGED ledger PROVE LedgerKept
  BY <1>1 DEF LedgerKept
<1>2. ASSUME NEW r \in Requests, UNCHANGED ledger, RequestLedgerInv(r)',
             \A q \in Requests : q # r => req'[q] = req[q]
      PROVE  LedgerInv' /\ LedgerKept
  BY <1>1, <1>2 DEF LedgerInv, RequestLedgerInv, Done
<1>3. ASSUME NEW r \in Requests, QuietStep(r) PROVE LedgerInv' /\ LedgerKept
  <2>1. PICK pc \in {"idle", "row", "already", "failed"},
             l \in Learners \cup {None}, m \in Pointer :
             Become(r, Fresh(pc, l, m))
    BY <1>3 DEF QuietStep
  <2>2. req'[r].pc = pc /\ \A q \in Requests : q # r => req'[q] = req[q]
    BY <2>1, FreshFields DEF Become, TypeOK
  <2> QED
    BY <1>2, <1>3, <2>2 DEF QuietStep, RequestLedgerInv
<1>4. ASSUME NEW r \in Requests,
             LoadRow(r) \/ PassGate(r) \/ AcceptProof(r) \/ ReloadRow(r)
                \/ ReloadLedger(r)
      PROVE  LedgerInv' /\ LedgerKept
  <2>1. /\ req'[r].pc \notin {"insert", "commit"} /\ UNCHANGED ledger
        /\ \A q \in Requests : q # r => req'[q] = req[q]
    BY <1>4, LoadRowEffect, PassGateEffect, AcceptProofEffect,
       ReloadRowEffect, ReloadLedgerEffect DEF Advances
  <2> QED
    BY <1>2, <2>1 DEF RequestLedgerInv
<1>5. ASSUME NEW r \in Requests, BindStamp(r) PROVE LedgerInv' /\ LedgerKept
  <2>1. day # NotYet
    BY ConstantsAssumption DEF TypeOK, NotYet
  <2> QED
    BY <1>2, <1>5, <2>1, BindStampEffect DEF Advances, RequestLedgerInv
<1>6. ASSUME NEW r \in Requests, InsertCompletion(r)
      PROVE  LedgerInv' /\ LedgerKept
  <2>1. req[r].stamp # NotYet /\ req[r].mission \notin Done(req[r].who)
    BY <1>6, InsertEffect DEF LedgerInv, RequestLedgerInv, Advances
  <2> QED
    BY <1>2, <1>6, <2>1, InsertEffect DEF Advances, RequestLedgerInv, Done
<1>7. ASSUME NEW r \in Requests, CommitCompletion(r)
      PROVE  LedgerInv' /\ LedgerKept
  <2> DEFINE l == req[r].who
             m == req[r].mission
  <2>1. /\ Advances(r, "commit", "reloadRow") /\ writer = r
        /\ ledger' = [ledger EXCEPT ![l][m] = req[r].stamp]
    BY <1>7, CommitEffect
  <2>2. req[r].stamp # NotYet /\ m \notin Done(l)
    BY <2>1 DEF LedgerInv, RequestLedgerInv, Advances
  <2>3. LedgerKept
    BY <2>1, <2>2 DEF LedgerKept, TypeOK, Done, Advances
  <2>4. \A q \in Requests : q # r => req[q].pc # "commit"
    BY <2>1 DEF TypeOK, OneWriter, At
  <2>5. LedgerInv'
    BY <2>1, <2>4 DEF LedgerInv, RequestLedgerInv, Advances
  <2> QED
    BY <2>3, <2>5
<1>8. ASSUME NEW k, Restart(k) PROVE LedgerInv' /\ LedgerKept
  BY <1>1, <1>8 DEF Restart, LedgerInv, RequestLedgerInv, Idle, Fresh
<1>9. ASSUME UNCHANGED <<ledger, req>> PROVE LedgerInv' /\ LedgerKept
  BY <1>1, <1>9 DEF LedgerInv, RequestLedgerInv, Done
<1>10. ASSUME OtherStep PROVE LedgerInv' /\ LedgerKept
  BY <1>8, <1>9, <1>10 DEF OtherStep, UpdateProfile, NextDay, vars
<1> QED
  BY <1>3, <1>4, <1>5, <1>6, <1>7, <1>10, StepKinds DEF HandlerStep

\* A completion is recorded once and for good, whatever is retried, dropped or
\* restarted.
THEOREM CompletionsPermanent == Spec => LedgerPermanent
<1>1. Init => TypeOK /\ LedgerInv
  BY InitType, LedgerInit
<1>2. TypeOK /\ LedgerInv /\ [Next]_vars => (TypeOK /\ LedgerInv)'
  BY StepType, LedgerStep
<1>3. TypeOK /\ LedgerInv /\ [Next]_vars
         => [\A l \in Learners, m \in Missions :
                ledger[l][m] # NotYet => ledger'[l][m] = ledger[l][m]]_vars
  BY LedgerStep DEF LedgerKept
<1> QED
  BY <1>1, <1>2, <1>3, PTL DEF Spec, LedgerPermanent

-----------------------------------------------------------------------------
(* The order of lessons.                                                   *)

\* What has been reached stays reached while the ledger and the builds grow.
LEMMA ReachedMonotone ==
    ASSUME NEW n \in Nat, NEW k \in Nat, n <= k,
           NEW m, NEW D, NEW E, D \subseteq E, ReachedBy(n, m, D)
    PROVE  ReachedBy(k, m, E)
  BY DEF ReachedBy, ReachedIn

\* The next incomplete mission of a list has been reached in that list.
LEMMA NextIncompleteReached ==
    ASSUME NEW s, NEW done, NextIncomplete(s, done) # None
    PROVE  /\ ReachedIn(s, NextIncomplete(s, done), done)
           /\ NextIncomplete(s, done) \in MissionsOf(s) \ done
<1>1. \E i \in DOMAIN s : IsFirstIncomplete(s, done, i)
  BY DEF NextIncomplete
<1>2. PICK i \in DOMAIN s :
         IsFirstIncomplete(s, done, i) /\ NextIncomplete(s, done) = s[i]
  BY <1>1 DEF NextIncomplete
<1> QED
  BY <1>2 DEF IsFirstIncomplete, ReachedIn, MissionsOf

\* Every pointer of a map names a reached mission.
PointersReached(n, perTree, done) ==
    \A t \in Trees : perTree[t] # None => ReachedBy(n, perTree[t], done)

\* Hydrating a map of reached pointers gives a map of reached pointers.
LEMMA HydrateReached ==
    ASSUME release \in Nat \ {0}, NEW stored, NEW done,
           PointersReached(release, stored, done)
    PROVE  PointersReached(release, HydratePerTree(stored, done), done)
<1> SUFFICES ASSUME NEW t \in Trees,
                    NEW p, p = HydratePerTree(stored, done)[t], p # None
             PROVE  ReachedBy(release, p, done)
  BY DEF PointersReached
<1>1. p = stored[t] \/ p = NextIncomplete(TreeList(t), done)
  BY DEF HydratePerTree
<1>2. CASE p = stored[t]
  BY <1>2 DEF PointersReached
<1>3. CASE p = NextIncomplete(TreeList(t), done)
  <2>1. ReachedIn(TreeMissions[release][t], p, done)
    BY <1>3, NextIncompleteReached DEF TreeList
  <2> QED
    BY <2>1 DEF ReachedBy
<1> QED
  BY <1>1, <1>2, <1>3

\* A mission of the running build belongs to the tree from_mission says.
LEMMA FromMissionTree ==
    ASSUME NEW m \in Catalogue
    PROVE  FromMission(m) \in Trees /\ m \in MissionsOf(TreeList(FromMission(m)))
  BY DEF Catalogue, FromMission

\* Passing the gate means having been reached.
LEMMA GateReached ==
    ASSUME release \in Nat \ {0}, NEW perTree, NEW journey \in Journeys \cup {None},
           NEW done, NEW m \in Catalogue, m # None,
           PointersReached(release, perTree, done),
           AtGate(perTree, journey, done, m)
    PROVE  Reached(m, done)
<1>1. CASE perTree[FromMission(m)] = m
  BY <1>1, FromMissionTree DEF PointersReached, Reached
<1>2. CASE JourneyPointer(journey, done) = m
  <2>1. journey \in Journeys /\ m = NextIncomplete(JourneyMissions[journey], done)
    BY <1>2 DEF JourneyPointer
  <2>2. ReachedIn(JourneyMissions[journey], m, done)
    BY <2>1, NextIncompleteReached
  <2> QED
    BY <2>1, <2>2 DEF Reached, ReachedBy
<1> QED
  BY <1>1, <1>2 DEF AtGate

\* What a request remembers is in order: the pointers it loaded, and from the
\* gate on its mission, were reached, and are still; it saw no more of the
\* ledger than there is.
RequestOrdered(r) ==
    /\ req[r].pc \in Pending => req[r].mission \in Catalogue
    /\ req[r].pc # "idle"
          => PointersReached(release, req[r].perTree, Done(req[r].who))
    /\ req[r].pc \in {"verify", "bind", "insert", "commit"}
          => /\ Reached(req[r].mission, Done(req[r].who))
             /\ req[r].done \subseteq Done(req[r].who)

StoreOrdered ==
    /\ GateOrder
    /\ \A l \in Learners : PointersReached(release, row[l].perTree, Done(l))

OrderInv == StoreOrdered /\ \A r \in Requests : RequestOrdered(r)

LEMMA OrderInit == Init => OrderInv
<1> SUFFICES ASSUME Init PROVE OrderInv
  OBVIOUS
<1>1. \A l \in Learners : Done(l) = {} /\ row[l].perTree = NoPointers
  BY DEF Init, Done
<1>2. StoreOrdered
  BY <1>1 DEF StoreOrdered, GateOrder, PointersReached, NoPointers
<1>3. \A r \in Requests : req[r].pc = "idle"
  BY FreshFields DEF Init, Idle
<1> QED
  BY <1>2, <1>3 DEF OrderInv, RequestOrdered, Pending

\* Pointers stay reached while a learner's ledger and the builds grow.
LEMMA PointersMonotone ==
    ASSUME NEW n \in Nat, NEW k \in Nat, n <= k, NEW D, NEW E, D \subseteq E,
           NEW perTree, PointersReached(n, perTree, D)
    PROVE  PointersReached(k, perTree, E)
  BY ReachedMonotone DEF PointersReached

LEMMA OrderStep ==
    TypeOK /\ LedgerInv /\ OrderInv /\ [Next]_vars => OrderInv'
<1> SUFFICES ASSUME TypeOK, LedgerInv, OrderInv, [Next]_vars
             PROVE  OrderInv'
  OBVIOUS
<1>1. TypeOK' /\ LedgerKept
  BY StepType, LedgerStep
<1>2. release \in Nat \ {0} /\ release' \in Nat
  BY <1>1, ConstantsAssumption DEF TypeOK
<1>3. \A l \in Learners : Done(l) \subseteq Done(l)'
  BY <1>1 DEF LedgerKept, Done
<1>4. ASSUME UNCHANGED ledger, release <= release',
             \A l \in Learners : row'[l].perTree = row[l].perTree
      PROVE  StoreOrdered'
  <2>1. \A l \in Learners : Done(l)' = Done(l)
    BY <1>4 DEF Done
  <2>2. GateOrder'
    BY <1>2, <1>4, <2>1, ReachedMonotone
    DEF OrderInv, StoreOrdered, GateOrder, Reached
  <2>3. \A l \in Learners : PointersReached(release', row'[l].perTree, Done(l)')
    BY <1>2, <1>4, <2>1, PointersMonotone DEF OrderInv, StoreOrdered
  <2> QED
    BY <2>2, <2>3 DEF StoreOrdered
<1>5. ASSUME NEW q \in Requests, UNCHANGED release, req'[q] = req[q]
      PROVE  RequestOrdered(q)'
  <2> DEFINE D == Done(req[q].who)
             E == {m \in Missions : ledger'[req[q].who][m] # NotYet}
  <2>1. req[q].pc # "idle" => D \subseteq E
    BY <1>3, RequestType DEF Done
  <2>2. req[q].pc \in Pending => req'[q].mission \in Catalogue'
    BY <1>5 DEF OrderInv, RequestOrdered, Catalogue, TreeList
  <2>3. RequestOrdered(q)
    BY DEF OrderInv
  <2>4. req[q] = req'[q] /\ release' = release
    BY <1>5
  <2>5. req[q].pc # "idle" => PointersReached(release', req'[q].perTree, E)
    <3>1. req[q].pc # "idle"
            => D \subseteq E /\ PointersReached(release, req[q].perTree, D)
      BY <2>1, <2>3 DEF RequestOrdered
    <3> HIDE DEF D, E
    <3> QED
      BY <1>2, <1>5, <3>1, PointersMonotone
  <2>6. req[q].pc \in {"verify", "bind", "insert", "commit"}
          => ReachedBy(release', req'[q].mission, E) /\ req'[q].done \subseteq E
    <3>1. req[q].pc \in {"verify", "bind", "insert", "commit"}
            => /\ D \subseteq E /\ req[q].done \subseteq D
               /\ ReachedBy(release, req[q].mission, D)
      BY <2>1, <2>3 DEF RequestOrdered, Reached
    <3> HIDE DEF D, E
    <3> QED
      BY <1>2, <1>5, <3>1, ReachedMonotone
  <2> QED
    BY <2>2, <2>4, <2>5, <2>6 DEF RequestOrdered, Reached, Done
<1>6. ASSUME NEW r \in Requests, UNCHANGED release, RequestOrdered(r)',
             \A q \in Requests : q # r => req'[q] = req[q]
      PROVE  \A q \in Requests : RequestOrdered(q)'
  BY <1>5, <1>6
<1>7. ASSUME NEW r \in Requests, QuietStep(r) PROVE OrderInv'
  <2>1. PICK pc \in {"idle", "row", "already", "failed"},
             l \in Learners \cup {None}, m \in Pointer :
             Become(r, Fresh(pc, l, m)) /\ (pc = "row" => m \in Catalogue)
    BY <1>7 DEF QuietStep
  <2>2. /\ req'[r].pc = pc /\ req'[r].mission = m
        /\ req'[r].perTree = NoPointers
        /\ \A q \in Requests : q # r => req'[q] = req[q]
    BY <2>1, FreshFields DEF Become, TypeOK
  <2>3. UNCHANGED <<release, ledger, row>>
    BY <1>7 DEF QuietStep
  <2>4. Catalogue' = Catalogue
    BY <2>3 DEF Catalogue, TreeList
  <2>5. RequestOrdered(r)'
    BY <2>1, <2>2, <2>4
    DEF RequestOrdered, PointersReached, NoPointers, Pending
  <2> QED
    BY <1>2, <1>4, <1>6, <2>2, <2>3, <2>5 DEF OrderInv
<1>8. ASSUME NEW r \in Requests, LoadRow(r) PROVE OrderInv'
  <2>1. /\ Advances(r, "row", "ledger")
        /\ req'[r].perTree = row[req[r].who].perTree
        /\ UNCHANGED <<release, ledger, row>>
    BY <1>8, LoadRowEffect
  <2>2. PointersReached(release, row[req[r].who].perTree, Done(req[r].who))
    BY <2>1 DEF OrderInv, StoreOrdered, Advances
  <2>3. req'[r].mission \in Catalogue'
    BY <2>1 DEF OrderInv, RequestOrdered, Advances, Catalogue, TreeList, Pending
  <2>4. RequestOrdered(r)'
    BY <2>1, <2>2, <2>3 DEF RequestOrdered, Advances, Done
  <2> QED
    BY <1>2, <1>4, <1>6, <2>1, <2>4 DEF OrderInv, Advances
<1>9. ASSUME NEW r \in Requests, PassGate(r) PROVE OrderInv'
  <2> DEFINE done == Done(req[r].who)
             loaded == HydratePerTree(req[r].perTree, done)
             m == req[r].mission
  <2>1. /\ Advances(r, "ledger", "verify")
        /\ req'[r].perTree = loaded /\ req'[r].done = done
        /\ AtGate(loaded, req[r].journey, done, m)
        /\ UNCHANGED <<release, ledger, row>>
    BY <1>9, PassGateEffect
  <2>2. m \in Catalogue /\ PointersReached(release, req[r].perTree, done)
    BY <2>1 DEF OrderInv, RequestOrdered, Advances, Pending
  <2>3. PointersReached(release, loaded, done)
    BY <1>2, <2>2, HydrateReached
  <2>4. m # None /\ req[r].journey \in Journeys \cup {None}
    BY <2>1, ConstantsAssumption DEF Advances, Request
  <2>5. Reached(m, done)
    BY <1>2, <2>1, <2>2, <2>3, <2>4, GateReached
  <2>6. RequestOrdered(r)'
    BY <2>1, <2>2, <2>3, <2>5
    DEF RequestOrdered, Advances, Catalogue, TreeList, Done, Pending, Reached
  <2> QED
    BY <1>2, <1>4, <1>6, <2>1, <2>6 DEF OrderInv, Advances
<1>10. ASSUME NEW r \in Requests, AcceptProof(r) PROVE OrderInv'
  <2>1. /\ Advances(r, "verify", "bind")
        /\ req'[r].perTree = req[r].perTree /\ req'[r].done = req[r].done
        /\ UNCHANGED <<release, ledger>>
        /\ \A l \in Learners : row'[l].perTree = row[l].perTree
    BY <1>10, AcceptProofEffect
  <2>2. RequestOrdered(r)'
    BY <2>1 DEF OrderInv, RequestOrdered, Advances, Catalogue, TreeList, Done,
                Pending, Reached
  <2> QED
    BY <1>2, <1>4, <1>6, <2>1, <2>2 DEF OrderInv, Advances
<1>11. ASSUME NEW r \in Requests, BindStamp(r) PROVE OrderInv'
  <2>1. /\ Advances(r, "bind", "insert")
        /\ req'[r].perTree = req[r].perTree /\ req'[r].done = req[r].done
        /\ UNCHANGED <<release, ledger, row>>
    BY <1>11, BindStampEffect
  <2>2. RequestOrdered(r)'
    BY <2>1 DEF OrderInv, RequestOrdered, Advances, Catalogue, TreeList, Done,
                Pending, Reached
  <2> QED
    BY <1>2, <1>4, <1>6, <2>1, <2>2 DEF OrderInv, Advances
<1>12. ASSUME NEW r \in Requests, InsertCompletion(r) PROVE OrderInv'
  <2>1. /\ Advances(r, "insert", "commit")
        /\ req'[r].perTree = req[r].perTree /\ req'[r].done = req[r].done
        /\ UNCHANGED <<release, ledger, row>>
    BY <1>12, InsertEffect
  <2>2. RequestOrdered(r)'
    BY <2>1 DEF OrderInv, RequestOrdered, Advances, Catalogue, TreeList, Done,
                Pending, Reached
  <2> QED
    BY <1>2, <1>4, <1>6, <2>1, <2>2 DEF OrderInv, Advances
<1>13. ASSUME NEW r \in Requests, CommitCompletion(r) PROVE OrderInv'
  <2> DEFINE l == req[r].who
             m == req[r].mission
             t == FromMission(m)
             next == NextIncomplete(TreeList(t), req[r].done \cup {m})
             after == {n \in Missions : ledger'[l][n] # NotYet}
  <2>1. /\ Advances(r, "commit", "reloadRow")
        /\ req'[r].perTree = NoPointers
        /\ ledger' = [ledger EXCEPT ![l][m] = req[r].stamp]
        /\ row'[l].perTree = [req[r].perTree EXCEPT ![t] = next]
        /\ \A k \in Learners : k # l => row'[k] = row[k]
        /\ UNCHANGED release
    BY <1>13, CommitEffect
  <2>2. l \in Learners /\ m \in Missions /\ req[r].stamp # NotYet
    BY <2>1 DEF LedgerInv, RequestLedgerInv, Advances
  <2>3. after = Done(l) \cup {m}
    BY <2>1, <2>2 DEF Done, TypeOK
  <2>4. \A k \in Learners : k # l => Done(k)' = Done(k)
    BY <2>1 DEF Done, TypeOK
  <2>5. /\ m \in Catalogue /\ Reached(m, Done(l))
        /\ req[r].done \subseteq Done(l)
        /\ PointersReached(release, req[r].perTree, Done(l))
    BY <2>1 DEF OrderInv, RequestOrdered, Advances, Pending
  <2>6. \A n \in after : ReachedBy(release, n, after)
    <3>1. \A n \in after : ReachedBy(release, n, Done(l))
      BY <2>2, <2>3, <2>5 DEF OrderInv, StoreOrdered, GateOrder, Reached
    <3> HIDE DEF after
    <3> QED
      BY <1>2, <2>3, <3>1, ReachedMonotone
  <2>7. next # None => ReachedBy(release, next, after)
    <3>1. t \in Trees
      BY <2>5, FromMissionTree
    <3>2. req[r].done \cup {m} \subseteq after
      BY <2>3, <2>5
    <3>3. next # None
            => ReachedIn(TreeMissions[release][t], next, req[r].done \cup {m})
      BY NextIncompleteReached DEF TreeList
    <3>4. next # None => ReachedBy(release, next, req[r].done \cup {m})
      BY <1>2, <3>1, <3>3 DEF ReachedBy
    <3> HIDE DEF after, next
    <3> QED
      BY <1>2, <3>2, <3>4, ReachedMonotone
  <2>8. PointersReached(release, row'[l].perTree, after)
    <3>1. PointersReached(release, req[r].perTree, after)
      <4>1. Done(l) \subseteq after
        BY <2>3
      <4> HIDE DEF after
      <4> QED
        BY <1>2, <2>5, <4>1, PointersMonotone
    <3>2. req[r].perTree \in [Trees -> Pointer]
      BY <2>1 DEF Advances, Request
    <3> HIDE DEF after, next
    <3> QED
      BY <2>1, <2>7, <3>1, <3>2 DEF PointersReached
  <2>9. Done(l)' = after
    BY <2>1 DEF Done, Advances
  <2>10. \A k \in Learners :
            /\ \A n \in Done(k)' : ReachedBy(release', n, Done(k)')
            /\ PointersReached(release', row'[k].perTree, Done(k)')
    BY <2>1, <2>4, <2>6, <2>8
    DEF OrderInv, StoreOrdered, GateOrder, Reached, Done
  <2>11. StoreOrdered'
    BY <2>10 DEF StoreOrdered, GateOrder, Reached
  <2>12. RequestOrdered(r)'
    BY <2>1, <2>5
    DEF RequestOrdered, Advances, Catalogue, TreeList, PointersReached, NoPointers
  <2> QED
    BY <1>6, <2>1, <2>11, <2>12 DEF OrderInv, Advances
<1>14. ASSUME NEW r \in Requests, ReloadRow(r) PROVE OrderInv'
  <2>1. /\ Advances(r, "reloadRow", "reloadLedger")
        /\ req'[r].perTree = row[req[r].who].perTree
        /\ UNCHANGED <<release, ledger, row>>
    BY <1>14, ReloadRowEffect
  <2>2. PointersReached(release, row[req[r].who].perTree, Done(req[r].who))
    BY <2>1 DEF OrderInv, StoreOrdered, Advances
  <2>3. RequestOrdered(r)'
    BY <2>1, <2>2
    DEF OrderInv, RequestOrdered, Advances, Catalogue, TreeList, Done, Pending
  <2> QED
    BY <1>2, <1>4, <1>6, <2>1, <2>3 DEF OrderInv, Advances
<1>15. ASSUME NEW r \in Requests, ReloadLedger(r) PROVE OrderInv'
  <2> DEFINE done == Done(req[r].who)
             loaded == HydratePerTree(req[r].perTree, done)
  <2>1. /\ Advances(r, "reloadLedger", "ok")
        /\ req'[r].perTree = loaded
        /\ UNCHANGED <<release, ledger, row>>
    BY <1>15, ReloadLedgerEffect
  <2>2. PointersReached(release, req[r].perTree, done)
    BY <2>1 DEF OrderInv, RequestOrdered, Advances
  <2>3. PointersReached(release, loaded, done)
    BY <1>2, <2>2, HydrateReached
  <2>4. RequestOrdered(r)'
    BY <2>1, <2>3 DEF RequestOrdered, Advances, Done, Pending
  <2> QED
    BY <1>2, <1>4, <1>6, <2>1, <2>4 DEF OrderInv, Advances
<1>16. ASSUME NEW k \in 1..Releases, k >= release, Restart(k) PROVE OrderInv'
  <2>1. \A r \in Requests : req'[r].pc = "idle"
    BY <1>16, FreshFields DEF Restart, Idle
  <2>2. \A r \in Requests : RequestOrdered(r)'
    BY <2>1 DEF RequestOrdered, Pending
  <2> QED
    BY <1>2, <1>4, <1>16, <2>2 DEF OrderInv, Restart
<1>17. ASSUME NEW l \in Learners, NEW j \in Journeys \cup {None},
              UpdateProfile(l, j)
       PROVE  OrderInv'
  <2>1. \A k \in Learners : row'[k].perTree = row[k].perTree
    BY <1>17 DEF UpdateProfile, TypeOK, Row
  <2> QED
    BY <1>2, <1>4, <1>5, <1>17, <2>1 DEF UpdateProfile, OrderInv
<1>18. ASSUME UNCHANGED <<release, ledger, row, req>> PROVE OrderInv'
  BY <1>2, <1>4, <1>5, <1>18 DEF OrderInv
<1>19. ASSUME OtherStep PROVE OrderInv'
  BY <1>16, <1>17, <1>18, <1>19 DEF OtherStep, NextDay, vars
<1> QED
  BY <1>7, <1>8, <1>9, <1>10, <1>11, <1>12, <1>13, <1>14, <1>15, <1>19,
     StepKinds DEF HandlerStep

\* No interleaving of any number of requests, journey changes and deploys
\* records a lesson before it was reached: the invariant GateOrder of the runs.
THEOREM LessonsInOrder == Spec => []GateOrder
<1>1. Init => TypeOK /\ LedgerInv /\ OrderInv
  BY InitType, LedgerInit, OrderInit
<1>2. TypeOK /\ LedgerInv /\ OrderInv /\ [Next]_vars
         => (TypeOK /\ LedgerInv /\ OrderInv)'
  BY StepType, LedgerStep, OrderStep
<1>3. OrderInv => GateOrder
  BY DEF OrderInv, StoreOrdered
<1> QED
  BY <1>1, <1>2, <1>3, PTL DEF Spec

-----------------------------------------------------------------------------
(* The streak.                                                             *)

\* The n days that end on d, the last day of C, form a maximal run of C.
Run(n, d, C) == /\ n # 0
                /\ \A c \in (d - n + 1)..d : c \in C
                /\ d - n \notin C
                /\ \A c \in C : c <= d

\* Nothing has been credited.
NoRun(n, d, C) == n = 0 /\ d = 0 /\ C = {}

\* The streak of l is the run that ends on its last credited day.
StreakOf(l) ==
    LET n == row[l].streakCount
        d == row[l].streakDay
    IN  NoRun(n, d, credited[l]) \/ (Run(n, d, credited[l]) /\ d <= day)

\* Under the lock `today` is a day of the clock, and no credited day is later.
TodayInLock(r) ==
    req[r].pc = "commit" => /\ FirstDay <= req[r].today /\ req[r].today <= day
                            /\ row[req[r].who].streakDay <= req[r].today

StreakInv == /\ \A l \in Learners : StreakOf(l)
             /\ \A r \in Requests : TodayInLock(r)

LEMMA StreakInit == Init => StreakInv
<1> SUFFICES ASSUME Init PROVE StreakInv
  OBVIOUS
<1>1. \A r \in Requests : req[r].pc = "idle"
  BY FreshFields DEF Init, Idle
<1> QED
  BY <1>1 DEF Init, StreakInv, StreakOf, NoRun, TodayInLock

LEMMA StreakExactFromInv == TypeOK /\ StreakInv => StreakExact
<1> SUFFICES ASSUME TypeOK, StreakInv, NEW l \in Learners
             PROVE  LET n == row[l].streakCount
                        d == row[l].streakDay
                    IN  /\ credited[l] = {} <=> n = 0
                        /\ n # 0 => /\ \A c \in (d - n + 1)..d : c \in credited[l]
                                    /\ d - n \notin credited[l]
                                    /\ \A c \in credited[l] : c <= d
  BY DEF StreakExact
<1>1. StreakOf(l) /\ row[l].streakCount \in Nat /\ row[l].streakDay \in Nat
  BY DEF StreakInv, TypeOK, Row
<1>2. row[l].streakCount # 0 => row[l].streakDay \in credited[l]
  BY <1>1 DEF StreakOf, Run, NoRun
<1> QED
  BY <1>1, <1>2 DEF StreakOf, Run, NoRun

\* Crediting a day that is not before the last one gives the streak that the
\* larger set of days deserves, and loses it only to a missed day.
LEMMA CreditDay ==
    ASSUME NEW n \in Nat, NEW d \in Nat, NEW C \in SUBSET Nat,
           NEW today \in Nat, today >= 2, d <= today,
           NoRun(n, d, C) \/ Run(n, d, C)
    PROVE  /\ Run(StreakAfter(n, d, today), today, C \cup {today})
           /\ StreakAfter(n, d, today) < n => today > d + 1
<1> DEFINE k == StreakAfter(n, d, today)
<1> USE DEF Run, NoRun
<1>1. CASE d = today
  <2>1. k = n /\ n # 0
    BY <1>1 DEF StreakAfter
  <2> QED
    BY <1>1, <2>1
<1>2. CASE d = today - 1
  <2>1. k = n + 1 /\ n # 0
    BY <1>2 DEF StreakAfter
  <2>2. today - k = d - n
    BY <1>2, <2>1
  <2> QED
    BY <1>2, <2>1, <2>2
<1>3. CASE d < today - 1
  <2>1. k = 1
    BY <1>3 DEF StreakAfter
  <2> QED
    BY <1>3, <2>1
<1> QED
  BY <1>1, <1>2, <1>3

StreakNotLost ==
    \A l \in Learners :
        /\ row'[l].streakDay >= row[l].streakDay
        /\ row'[l].streakCount < row[l].streakCount
              => row'[l].streakDay > row[l].streakDay + 1

LEMMA StreakStep ==
    TypeOK /\ StreakInv /\ [Next]_vars => StreakInv' /\ StreakNotLost
<1> SUFFICES ASSUME TypeOK, StreakInv, [Next]_vars
             PROVE  StreakInv' /\ StreakNotLost
  OBVIOUS
<1>1. \A l \in Learners : row[l].streakDay \in Nat /\ row[l].streakCount \in Nat
  BY DEF TypeOK, Row
<1>2. day \in Nat /\ FirstDay \in Nat /\ FirstDay >= 2 /\ day >= FirstDay
  BY ConstantsAssumption DEF TypeOK
<1>3. ASSUME UNCHANGED credited, day <= day', day' \in Nat,
             \A l \in Learners : /\ row'[l].streakCount = row[l].streakCount
                                 /\ row'[l].streakDay = row[l].streakDay
      PROVE  (\A l \in Learners : StreakOf(l)') /\ StreakNotLost
  <2>1. StreakNotLost
    BY <1>1, <1>3 DEF StreakNotLost
  <2>2. ASSUME NEW l \in Learners PROVE StreakOf(l)'
    <3>1. StreakOf(l)
      BY DEF StreakInv
    <3>2. row[l].streakDay <= day => row[l].streakDay <= day'
      BY <1>1, <1>2, <1>3
    <3> QED
      BY <1>3, <3>1, <3>2 DEF StreakOf
  <2> QED
    BY <2>1, <2>2
<1>4. ASSUME NEW r \in Requests, UNCHANGED <<credited, day>>,
             \A l \in Learners : /\ row'[l].streakCount = row[l].streakCount
                                 /\ row'[l].streakDay = row[l].streakDay,
             \A q \in Requests : q # r => req'[q] = req[q],
             TodayInLock(r)'
      PROVE  StreakInv' /\ StreakNotLost
  <2>1. (\A l \in Learners : StreakOf(l)') /\ StreakNotLost
    BY <1>2, <1>3, <1>4
  <2>2. ASSUME NEW q \in Requests, q # r PROVE TodayInLock(q)'
    <3>1. TodayInLock(q) /\ req'[q] = req[q]
      BY <1>4, <2>2 DEF StreakInv
    <3>2. req[q].pc = "commit" => req[q].who \in Learners
      BY RequestType
    <3> QED
      BY <1>4, <3>1, <3>2 DEF TodayInLock
  <2> QED
    BY <1>4, <2>1, <2>2 DEF StreakInv
<1>5. ASSUME NEW r \in Requests, QuietStep(r) PROVE StreakInv' /\ StreakNotLost
  <2>1. PICK pc \in {"idle", "row", "already", "failed"},
             l \in Learners \cup {None}, m \in Pointer :
             Become(r, Fresh(pc, l, m))
    BY <1>5 DEF QuietStep
  <2>2. req'[r].pc = pc /\ \A q \in Requests : q # r => req'[q] = req[q]
    BY <2>1, FreshFields DEF Become, TypeOK
  <2> QED
    BY <1>4, <1>5, <2>2 DEF QuietStep, TodayInLock
<1>6. ASSUME NEW r \in Requests,
             \/ LoadRow(r) \/ PassGate(r) \/ AcceptProof(r) \/ BindStamp(r)
             \/ ReloadRow(r) \/ ReloadLedger(r)
      PROVE  StreakInv' /\ StreakNotLost
  <2>1. /\ req'[r].pc # "commit" /\ UNCHANGED <<credited, day>>
        /\ \A q \in Requests : q # r => req'[q] = req[q]
        /\ \A l \in Learners : /\ row'[l].streakCount = row[l].streakCount
                               /\ row'[l].streakDay = row[l].streakDay
    BY <1>6, LoadRowEffect, PassGateEffect, AcceptProofEffect, BindStampEffect,
       ReloadRowEffect, ReloadLedgerEffect DEF Advances
  <2> QED
    BY <1>4, <2>1 DEF TodayInLock
<1>7. ASSUME NEW r \in Requests, InsertCompletion(r)
      PROVE  StreakInv' /\ StreakNotLost
  <2>1. /\ Advances(r, "insert", "commit") /\ req'[r].today = day
        /\ UNCHANGED <<day, row, credited>>
    BY <1>7, InsertEffect
  <2>2. row[req[r].who].streakDay <= day
    BY <1>1, <1>2, <2>1 DEF StreakInv, StreakOf, NoRun, Advances
  <2>3. TodayInLock(r)'
    BY <1>2, <2>1, <2>2 DEF TodayInLock, Advances
  <2> QED
    BY <1>4, <2>1, <2>3 DEF Advances
<1>8. ASSUME NEW r \in Requests, CommitCompletion(r)
      PROVE  StreakInv' /\ StreakNotLost
  <2> DEFINE l == req[r].who
             n == row[l].streakCount
             d == row[l].streakDay
             today == req[r].today
             k == StreakAfter(n, d, today)
  <2>1. /\ Advances(r, "commit", "reloadRow") /\ writer = r
        /\ row'[l].streakCount = k /\ row'[l].streakDay = today
        /\ \A p \in Learners : p # l => row'[p] = row[p]
        /\ credited' = [credited EXCEPT ![l] = @ \cup {today}]
        /\ UNCHANGED day
    BY <1>8, CommitEffect
  <2>2. /\ l \in Learners /\ n \in Nat /\ d \in Nat /\ today \in Nat
        /\ credited[l] \in SUBSET Nat
    BY <1>1, <2>1 DEF Advances, Request, TypeOK
  <2>3. today >= 2 /\ today <= day /\ d <= today
    BY <1>2, <2>1, <2>2 DEF StreakInv, TodayInLock, Advances
  <2>4. credited'[l] = credited[l] \cup {today}
        /\ \A p \in Learners : p # l => credited'[p] = credited[p]
    BY <2>1, <2>2 DEF TypeOK
  <2>5. StreakOf(l)
    BY <2>2 DEF StreakInv
  <2>6. Run(k, today, credited'[l]) /\ (k < n => today > d + 1)
    <3>1. NoRun(n, d, credited[l]) \/ Run(n, d, credited[l])
      BY <2>5 DEF StreakOf
    <3> HIDE DEF l, n, d, today
    <3> QED
      BY <2>2, <2>3, <2>4, <3>1, CreditDay
  <2>7. ASSUME NEW p \in Learners, p = l PROVE StreakOf(p)'
    BY <2>1, <2>3, <2>6, <2>7 DEF StreakOf
  <2>8. ASSUME NEW p \in Learners, p # l PROVE StreakOf(p)'
    BY <2>1, <2>4, <2>8 DEF StreakInv, StreakOf
  <2>9. StreakNotLost
    BY <1>1, <2>1, <2>2, <2>3, <2>6 DEF StreakNotLost
  <2>10. ASSUME NEW q \in Requests PROVE TodayInLock(q)'
    <3>1. q # r => req[q].pc # "commit"
      BY <2>1 DEF TypeOK, OneWriter, At
    <3> QED
      BY <2>1, <3>1 DEF TodayInLock, Advances
  <2> QED
    BY <2>7, <2>8, <2>9, <2>10 DEF StreakInv
<1>9. ASSUME NEW i, Restart(i) PROVE StreakInv' /\ StreakNotLost
  <2>1. \A r \in Requests : req'[r].pc = "idle"
    BY <1>9, FreshFields DEF Restart, Idle
  <2> QED
    BY <1>2, <1>3, <1>9, <2>1 DEF Restart, StreakInv, TodayInLock
<1>10. ASSUME NEW l \in Learners, NEW j \in Journeys \cup {None},
              UpdateProfile(l, j)
       PROVE  StreakInv' /\ StreakNotLost
  <2>1. \A p \in Learners : /\ row'[p].streakCount = row[p].streakCount
                            /\ row'[p].streakDay = row[p].streakDay
    BY <1>10 DEF UpdateProfile, TypeOK, Row
  <2>2. \A r \in Requests : req[r].pc = "commit" => req[r].who \in Learners
    BY RequestType
  <2> QED
    BY <1>2, <1>3, <1>10, <2>1, <2>2 DEF UpdateProfile, StreakInv, TodayInLock
<1>11. CASE NextDay
  <2>1. day <= day' /\ day' \in Nat /\ UNCHANGED <<row, req, credited>>
    BY <1>2, <1>11 DEF NextDay
  <2>2. \A r \in Requests : TodayInLock(r)'
    <3> SUFFICES ASSUME NEW r \in Requests, req[r].pc = "commit"
                 PROVE  /\ FirstDay <= req[r].today /\ req[r].today <= day'
                        /\ row[req[r].who].streakDay <= req[r].today
      BY <2>1 DEF TodayInLock
    <3>1. req[r].today \in Nat
      BY RequestType DEF Request
    <3> QED
      BY <1>2, <2>1, <3>1 DEF StreakInv, TodayInLock
  <2> QED
    BY <1>3, <2>1, <2>2 DEF StreakInv
<1>12. CASE UNCHANGED vars
  BY <1>2, <1>3, <1>12 DEF vars, StreakInv, TodayInLock
<1> QED
  BY <1>5, <1>6, <1>7, <1>8, <1>9, <1>10, <1>11, <1>12, StepKinds
  DEF HandlerStep, OtherStep

\* The streak always is the run of credited days that ends on the last one:
\* the invariant StreakExact of the runs.
THEOREM StreakIsExact == Spec => []StreakExact
<1>1. Init => TypeOK /\ StreakInv
  BY InitType, StreakInit
<1>2. TypeOK /\ StreakInv /\ [Next]_vars => (TypeOK /\ StreakInv)'
  BY StepType, StreakStep
<1> QED
  BY <1>1, <1>2, StreakExactFromInv, PTL DEF Spec

\* No step moves streak_day back or loses a streak without a missed day,
\* although requests stamp and commit in different orders: StreakKept.
THEOREM StreakIsKept == Spec => StreakKept
<1>1. Init => TypeOK /\ StreakInv
  BY InitType, StreakInit
<1>2. TypeOK /\ StreakInv /\ [Next]_vars => (TypeOK /\ StreakInv)'
  BY StepType, StreakStep
<1>3. TypeOK /\ StreakInv /\ [Next]_vars
         => [\A l \in Learners :
               /\ row'[l].streakDay >= row[l].streakDay
               /\ row'[l].streakCount < row[l].streakCount
                     => row'[l].streakDay > row[l].streakDay + 1]_vars
  BY StreakStep DEF StreakNotLost
<1> QED
  BY <1>1, <1>2, <1>3, PTL DEF Spec, StreakKept

-----------------------------------------------------------------------------
(* The first incomplete mission.                                           *)

\* None is returned for a finished list only.
LEMMA NoneMeansFinished ==
    ASSUME NEW s \in Seq(Missions), NEW done, NextIncomplete(s, done) = None
    PROVE  MissionsOf(s) \subseteq done
<1> DEFINE open == {i \in DOMAIN s : s[i] \notin done}
<1>1. DOMAIN s = 1..Len(s) /\ Len(s) \in Nat /\ \A i \in DOMAIN s : s[i] \in Missions
  OBVIOUS
<1>2. ~ \E i \in DOMAIN s : IsFirstIncomplete(s, done, i)
  <2> SUFFICES ASSUME \E i \in DOMAIN s : IsFirstIncomplete(s, done, i) PROVE FALSE
    OBVIOUS
  <2>1. PICK i \in DOMAIN s : NextIncomplete(s, done) = s[i]
    BY DEF NextIncomplete
  <2> QED
    BY <1>1, <2>1, ConstantsAssumption
<1>3. ASSUME open # {} PROVE FALSE
  <2>1. open \in SUBSET Nat
    BY <1>1
  <2>2. PICK i \in open : \A j \in open : i <= j
    BY <1>3, <2>1, HasLeast
  <2>3. \A j \in 1..(i - 1) : j \in DOMAIN s /\ ~(i <= j)
    BY <1>1, <2>1, <2>2
  <2>4. IsFirstIncomplete(s, done, i)
    BY <2>2, <2>3 DEF IsFirstIncomplete
  <2> QED
    BY <1>2, <2>2, <2>4
<1> QED
  BY <1>3 DEF MissionsOf

-----------------------------------------------------------------------------
(* The pointers.                                                           *)

LEMMA PointersSoundFromInv == TypeOK /\ OrderInv => PointersSound
<1> SUFFICES ASSUME TypeOK, OrderInv, NEW l \in Learners, NEW t \in Trees,
                    NEW p, p = Pointers(l)[t]
             PROVE  /\ p = None => MissionsOf(TreeList(t)) \subseteq Done(l)
                    /\ p # None => /\ p \in MissionsOf(TreeList(t)) \ Done(l)
                                   /\ Reached(p, Done(l))
  BY DEF PointersSound
<1> DEFINE s == TreeList(t)
           stored == row[l].perTree
<1>1. s \in Seq(Missions) /\ None \notin MissionsOf(s) /\ release \in Nat \ {0}
  BY ConstantsAssumption DEF TypeOK, TreeList, MissionsOf
<1>2. p = IF stored[t] \in MissionsOf(s) \ Done(l) THEN stored[t]
          ELSE NextIncomplete(s, Done(l))
  BY DEF Pointers, HydratePerTree
<1>3. PointersReached(release, HydratePerTree(stored, Done(l)), Done(l))
  BY <1>1, HydrateReached DEF OrderInv, StoreOrdered
<1>4. p # None => Reached(p, Done(l))
  BY <1>3 DEF PointersReached, Pointers, Reached
<1>5. p # None => p \in MissionsOf(s) \ Done(l)
  BY <1>2, NextIncompleteReached
<1>6. p = None => MissionsOf(s) \subseteq Done(l)
  BY <1>1, <1>2, NoneMeansFinished
<1> QED
  BY <1>4, <1>5, <1>6

\* The pointer a learner is shown names an outstanding mission that has been
\* reached, and is missing only when the tree is finished, whatever requests
\* wrote last and whatever a deploy changed.
THEOREM PointersAreSound == Spec => []PointersSound
<1>1. Init => TypeOK /\ LedgerInv /\ OrderInv
  BY InitType, LedgerInit, OrderInit
<1>2. TypeOK /\ LedgerInv /\ OrderInv /\ [Next]_vars
         => (TypeOK /\ LedgerInv /\ OrderInv)'
  BY StepType, LedgerStep, OrderStep
<1>3. TypeOK /\ OrderInv => PointersSound
  BY PointersSoundFromInv
<1> QED
  BY <1>1, <1>2, <1>3, PTL DEF Spec

-----------------------------------------------------------------------------
(* The answers.                                                            *)

Past == {"reloadRow", "reloadLedger", "ok", "already"}

RequestTrue(r) ==
    /\ req[r].pc \in Past => req[r].mission \in Done(req[r].who)
    /\ req[r].pc = "ok" =>
          /\ req[r].mission \in req[r].done
          /\ \A t \in Trees : req[r].perTree[t] # req[r].mission

AnswerInv == \A r \in Requests : RequestTrue(r)

LEMMA AnswerInit == Init => AnswerInv
<1> SUFFICES ASSUME Init, NEW r \in Requests PROVE RequestTrue(r)
  BY DEF AnswerInv
<1>1. req[r].pc = "idle"
  BY FreshFields DEF Init, Idle
<1> QED
  BY <1>1 DEF RequestTrue, Past

\* What a load has hydrated points at nothing that is done.
LEMMA HydrateOpen ==
    ASSUME NEW stored, NEW done, NEW t \in Trees, NEW m \in done, m # None
    PROVE  HydratePerTree(stored, done)[t] # m
<1>1. NextIncomplete(TreeList(t), done) # m
  BY NextIncompleteReached
<1> QED
  BY <1>1 DEF HydratePerTree

LEMMA AnswerStep == TypeOK /\ LedgerInv /\ AnswerInv /\ [Next]_vars => AnswerInv'
<1> SUFFICES ASSUME TypeOK, LedgerInv, AnswerInv, [Next]_vars PROVE AnswerInv'
  OBVIOUS
<1>1. \A l \in Learners : Done(l) \subseteq Done(l)'
  BY LedgerStep DEF LedgerKept, Done
<1>2. ASSUME NEW q \in Requests, req'[q] = req[q] PROVE RequestTrue(q)'
  <2>1. RequestTrue(q)
    BY DEF AnswerInv
  <2>2. req[q].pc \in Past => req[q].who \in Learners
    BY RequestType DEF Past
  <2> QED
    BY <1>1, <1>2, <2>1, <2>2 DEF RequestTrue, Done
<1>3. ASSUME NEW r \in Requests, RequestTrue(r)',
             \A q \in Requests : q # r => req'[q] = req[q]
      PROVE  AnswerInv'
  BY <1>2, <1>3 DEF AnswerInv
<1>4. ASSUME NEW r \in Requests, QuietStep(r) PROVE AnswerInv'
  <2>1. PICK pc \in {"idle", "row", "already", "failed"},
             l \in Learners \cup {None}, m \in Pointer :
             Become(r, Fresh(pc, l, m)) /\ (pc = "already" => m \in Done(l))
    BY <1>4 DEF QuietStep
  <2>2. /\ req'[r].pc = pc /\ req'[r].mission = m /\ req'[r].who = l
        /\ \A q \in Requests : q # r => req'[q] = req[q]
    BY <2>1, FreshFields DEF Become, TypeOK
  <2>3. RequestTrue(r)'
    BY <1>4, <2>1, <2>2 DEF QuietStep, RequestTrue, Past, Done
  <2> QED
    BY <1>3, <2>2, <2>3
<1>5. ASSUME NEW r \in Requests,
             LoadRow(r) \/ PassGate(r) \/ AcceptProof(r) \/ BindStamp(r)
                \/ InsertCompletion(r)
      PROVE  AnswerInv'
  <2>1. /\ req'[r].pc \notin Past
        /\ \A q \in Requests : q # r => req'[q] = req[q]
    BY <1>5, LoadRowEffect, PassGateEffect, AcceptProofEffect, BindStampEffect,
       InsertEffect DEF Advances, Past
  <2> QED
    BY <1>3, <2>1 DEF RequestTrue, Past
<1>6. ASSUME NEW r \in Requests, CommitCompletion(r) PROVE AnswerInv'
  <2> DEFINE l == req[r].who
             m == req[r].mission
  <2>1. /\ Advances(r, "commit", "reloadRow")
        /\ ledger' = [ledger EXCEPT ![l][m] = req[r].stamp]
    BY <1>6, CommitEffect
  <2>2. req[r].stamp # NotYet
    BY <2>1 DEF LedgerInv, RequestLedgerInv, Advances
  <2>3. m \in Done(l)'
    BY <2>1, <2>2 DEF Done, TypeOK, Advances
  <2>4. RequestTrue(r)'
    BY <2>1, <2>3 DEF RequestTrue, Advances, Done
  <2> QED
    BY <1>3, <2>1, <2>4 DEF Advances
<1>7. ASSUME NEW r \in Requests, ReloadRow(r) PROVE AnswerInv'
  <2>1. Advances(r, "reloadRow", "reloadLedger") /\ UNCHANGED ledger
    BY <1>7, ReloadRowEffect
  <2>2. req[r].mission \in Done(req[r].who)
    BY <2>1 DEF AnswerInv, RequestTrue, Past, Advances
  <2>3. RequestTrue(r)'
    BY <2>1, <2>2 DEF RequestTrue, Advances, Done
  <2> QED
    BY <1>3, <2>1, <2>3 DEF Advances
<1>8. ASSUME NEW r \in Requests, ReloadLedger(r) PROVE AnswerInv'
  <2> DEFINE done == Done(req[r].who)
             m == req[r].mission
  <2>1. /\ Advances(r, "reloadLedger", "ok") /\ UNCHANGED ledger
        /\ req'[r].done = done
        /\ req'[r].perTree = HydratePerTree(req[r].perTree, done)
    BY <1>8, ReloadLedgerEffect
  <2>2. m \in done /\ m # None
    BY <2>1, ConstantsAssumption DEF AnswerInv, RequestTrue, Past, Advances
  <2>3. \A t \in Trees : req'[r].perTree[t] # m
    BY <2>1, <2>2, HydrateOpen
  <2>4. RequestTrue(r)'
    BY <2>1, <2>2, <2>3 DEF RequestTrue, Advances, Done
  <2> QED
    BY <1>3, <2>1, <2>4 DEF Advances
<1>9. ASSUME NEW k, Restart(k) PROVE AnswerInv'
  BY <1>9 DEF Restart, AnswerInv, RequestTrue, Past, Idle, Fresh
<1>10. ASSUME UNCHANGED req PROVE AnswerInv'
  BY <1>2, <1>10 DEF AnswerInv
<1>11. ASSUME OtherStep PROVE AnswerInv'
  BY <1>9, <1>10, <1>11 DEF OtherStep, UpdateProfile, NextDay, vars
<1> QED
  BY <1>4, <1>5, <1>6, <1>7, <1>8, <1>11, StepKinds DEF HandlerStep

\* Success and "already completed" both mean that the completion is on
\* record, and the participant of a success includes it and has moved on.
THEOREM AnswersAreTrue == Spec => []AnswersTrue
<1>1. Init => TypeOK /\ LedgerInv /\ AnswerInv
  BY InitType, LedgerInit, AnswerInit
<1>2. TypeOK /\ LedgerInv /\ AnswerInv /\ [Next]_vars
         => (TypeOK /\ LedgerInv /\ AnswerInv)'
  BY StepType, LedgerStep, AnswerStep
<1>3. AnswerInv => AnswersTrue
  BY DEF AnswerInv, RequestTrue, AnswersTrue, Past, At, Me
<1> QED
  BY <1>1, <1>2, <1>3, PTL DEF Spec

-----------------------------------------------------------------------------
(* The identity lesson.                                                    *)

Carried == {"bind", "insert", "commit"}

\* A request whose identity proof was accepted left a key behind.
RequestBound(r) ==
    req[r].pc \in Carried /\ req[r].mission \in IdentityMissions
        => row[req[r].who].pubkey # None

IdentityInv == IdentityBound /\ \A r \in Requests : RequestBound(r)

KeysStay == \A l \in Learners : row[l].pubkey # None => row'[l].pubkey # None

LEMMA IdentityInit == Init => IdentityInv
<1> SUFFICES ASSUME Init PROVE IdentityInv
  OBVIOUS
<1>1. \A r \in Requests : req[r].pc = "idle"
  BY FreshFields DEF Init, Idle
<1>2. \A l \in Learners : Done(l) = {}
  BY DEF Init, Done
<1> QED
  BY <1>1, <1>2 DEF IdentityInv, IdentityBound, RequestBound, Carried

LEMMA IdentityStep == TypeOK /\ IdentityInv /\ [Next]_vars => IdentityInv'
<1> SUFFICES ASSUME TypeOK, IdentityInv, [Next]_vars PROVE IdentityInv'
  OBVIOUS
<1>1. ASSUME KeysStay, UNCHANGED ledger PROVE IdentityBound'
  BY <1>1 DEF KeysStay, IdentityInv, IdentityBound, Done
<1>2. ASSUME KeysStay, NEW q \in Requests, req'[q] = req[q] PROVE RequestBound(q)'
  <2>1. req[q].pc \in Carried => req[q].who \in Learners
    BY RequestType DEF Carried
  <2> QED
    BY <1>2, <2>1 DEF KeysStay, IdentityInv, RequestBound
<1>3. ASSUME KeysStay, NEW r \in Requests, RequestBound(r)', UNCHANGED ledger,
             \A q \in Requests : q # r => req'[q] = req[q]
      PROVE  IdentityInv'
  BY <1>1, <1>2, <1>3 DEF IdentityInv
<1>4. ASSUME UNCHANGED row PROVE KeysStay
  BY <1>4 DEF KeysStay
<1>5. ASSUME NEW r \in Requests, QuietStep(r) PROVE IdentityInv'
  <2>1. PICK pc \in {"idle", "row", "already", "failed"},
             l \in Learners \cup {None}, m \in Pointer :
             Become(r, Fresh(pc, l, m))
    BY <1>5 DEF QuietStep
  <2>2. /\ req'[r].pc = pc
        /\ \A q \in Requests : q # r => req'[q] = req[q]
    BY <2>1, FreshFields DEF Become, TypeOK
  <2> QED
    BY <1>3, <1>4, <1>5, <2>2 DEF QuietStep, RequestBound, Carried
<1>6. ASSUME NEW r \in Requests,
             LoadRow(r) \/ PassGate(r) \/ ReloadRow(r) \/ ReloadLedger(r)
      PROVE  IdentityInv'
  <2>1. /\ req'[r].pc \notin Carried /\ UNCHANGED <<ledger, row>>
        /\ \A q \in Requests : q # r => req'[q] = req[q]
    BY <1>6, LoadRowEffect, PassGateEffect, ReloadRowEffect, ReloadLedgerEffect
    DEF Advances, Carried
  <2> QED
    BY <1>3, <1>4, <2>1 DEF RequestBound
<1>7. ASSUME NEW r \in Requests, AcceptProof(r) PROVE IdentityInv'
  <2>1. Advances(r, "verify", "bind") /\ UNCHANGED ledger /\ KeysStay
    BY <1>7, AcceptProofEffect DEF KeysStay
  <2>2. req[r].mission \in IdentityMissions => row'[req[r].who].pubkey # None
    BY <1>7, AcceptProofEffect
  <2> QED
    BY <1>3, <2>1, <2>2 DEF Advances, RequestBound
<1>8. ASSUME NEW r \in Requests, BindStamp(r) \/ InsertCompletion(r)
      PROVE  IdentityInv'
  <2>1. /\ Advances(r, "bind", "insert") \/ Advances(r, "insert", "commit")
        /\ UNCHANGED <<ledger, row>>
    BY <1>8, BindStampEffect, InsertEffect
  <2>2. RequestBound(r)'
    BY <2>1 DEF Advances, IdentityInv, RequestBound, Carried
  <2> QED
    BY <1>3, <1>4, <2>1, <2>2 DEF Advances
<1>9. ASSUME NEW r \in Requests, CommitCompletion(r) PROVE IdentityInv'
  <2> DEFINE l == req[r].who
             m == req[r].mission
  <2>1. /\ Advances(r, "commit", "reloadRow")
        /\ ledger' = [ledger EXCEPT ![l][m] = req[r].stamp]
        /\ row'[l].pubkey = row[l].pubkey
        /\ \A k \in Learners : k # l => row'[k] = row[k]
    BY <1>9, CommitEffect
  <2>2. KeysStay
    BY <2>1 DEF KeysStay
  <2>3. m \in IdentityMissions => row[l].pubkey # None
    BY <2>1 DEF Advances, IdentityInv, RequestBound, Carried
  <2>4. \A k \in Learners : Done(k)' \subseteq IF k = l THEN Done(k) \cup {m} ELSE Done(k)
    BY <2>1 DEF Done, TypeOK, Advances
  <2>5. IdentityBound'
    BY <2>1, <2>2, <2>3, <2>4 DEF IdentityInv, IdentityBound, KeysStay, Advances
  <2>6. RequestBound(r)'
    BY <2>1 DEF Advances, RequestBound, Carried
  <2> QED
    BY <1>2, <2>1, <2>2, <2>5, <2>6 DEF Advances, IdentityInv
<1>10. ASSUME NEW k, Restart(k) PROVE IdentityInv'
  <2>1. UNCHANGED <<ledger, row>> /\ \A r \in Requests : req'[r].pc = "idle"
    BY <1>10, FreshFields DEF Restart, Idle
  <2> QED
    BY <1>1, <1>4, <2>1 DEF IdentityInv, RequestBound, Carried
<1>11. ASSUME UNCHANGED <<ledger, req>>, KeysStay PROVE IdentityInv'
  BY <1>1, <1>2, <1>11 DEF IdentityInv
<1>12. ASSUME NEW l \in Learners, NEW j, UpdateProfile(l, j) PROVE IdentityInv'
  <2>1. KeysStay
    BY <1>12 DEF UpdateProfile, KeysStay, TypeOK, Row
  <2> QED
    BY <1>11, <1>12, <2>1 DEF UpdateProfile
<1>13. ASSUME OtherStep PROVE IdentityInv'
  BY <1>4, <1>10, <1>11, <1>12, <1>13 DEF OtherStep, NextDay, vars
<1> QED
  BY <1>5, <1>6, <1>7, <1>8, <1>9, <1>13, StepKinds DEF HandlerStep

\* Nobody has the identity lesson on record without a key.
THEOREM IdentityIsBound == Spec => []IdentityBound
<1>1. Init => TypeOK /\ IdentityInv
  BY InitType, IdentityInit
<1>2. TypeOK /\ IdentityInv /\ [Next]_vars => (TypeOK /\ IdentityInv)'
  BY StepType, IdentityStep
<1>3. IdentityInv => IdentityBound
  BY DEF IdentityInv
<1> QED
  BY <1>1, <1>2, <1>3, PTL DEF Spec
-----------------------------------------------------------------------------
(* The implementation of the atomic course.                                *)

\* The columns the abstract specification reads; journeys and pointers are not.
ColumnsKept ==
    \A l \in Learners : /\ row'[l].streakCount = row[l].streakCount
                        /\ row'[l].streakDay = row[l].streakDay
                        /\ (row'[l].pubkey # None) <=> (row[l].pubkey # None)

LEMMA RecordKept ==
    ASSUME UNCHANGED <<release, day, ledger>>, ColumnsKept
    PROVE  UNCHANGED Abstract!vars
  BY DEF ColumnsKept, Done, Abstract!vars

\* What was reached was led to by a list of a deployed build or by a journey.
LEMMA ReachedIsLedTo ==
    ASSUME TypeOK, NEW l \in Learners, NEW m, Reached(m, Done(l))
    PROVE  Abstract!LedTo(l, m)
<1>1. PICK s \in RoutesBy(release) : ReachedIn(s, m, Done(l))
  BY DEF Reached, ReachedBy, RoutesBy
<1>2. release \in 1..Releases
  BY DEF TypeOK
<1> QED
  BY <1>1, <1>2 DEF ReachedIn, Abstract!LedTo

\* The CASE of the UPDATE extends the streak.
LEMMA StreakAfterExtends ==
    ASSUME NEW n \in Nat, NEW d \in Nat, NEW today \in Nat
    PROVE  Abstract!Extend([length |-> n, last |-> d], today)
              = [length |-> StreakAfter(n, d, today), last |-> today]
  BY DEF Abstract!Extend, StreakAfter

\* The commit is the atomic completion: the gate, the proof and the clock were
\* read at other moments, and still hold under the lock.
LEMMA CommitCompletes ==
    ASSUME TypeOK, LedgerInv, OrderInv, StreakInv, IdentityInv,
           NEW r \in Requests, CommitCompletion(r)
    PROVE  Abstract!Next
<1>1. PICK l \in Learners, m \in Missions, today \in Nat :
         /\ req[r].who = l /\ req[r].mission = m /\ req[r].today = today
         /\ req[r].pc = "commit" /\ req[r].stamp \in Nat
  BY CommitEffect DEF Advances, Request
<1>2. /\ ledger' = [ledger EXCEPT ![l][m] = req[r].stamp]
      /\ row'[l].streakCount = StreakAfter(row[l].streakCount, row[l].streakDay, today)
      /\ row'[l].streakDay = today /\ row'[l].pubkey = row[l].pubkey
      /\ \A k \in Learners : k # l => row'[k] = row[k]
      /\ UNCHANGED <<release, day>>
  BY <1>1, CommitEffect
<1>3. m \notin Done(l) /\ req[r].stamp # NotYet
  BY <1>1 DEF LedgerInv, RequestLedgerInv
<1>4. Abstract!LedTo(l, m)
  <2>1. Reached(m, Done(l))
    BY <1>1 DEF OrderInv, RequestOrdered
  <2> QED
    BY <1>1, <2>1, ReachedIsLedTo
<1>5. m \in IdentityMissions => row[l].pubkey # None
  BY <1>1 DEF IdentityInv, RequestBound, Carried
<1>6. /\ FirstDay <= today /\ today <= day /\ row[l].streakDay <= today
      /\ day \in Nat /\ FirstDay \in Nat
      /\ row[l].streakDay \in Nat /\ row[l].streakCount \in Nat
  BY <1>1, ConstantsAssumption DEF StreakInv, TodayInLock, TypeOK, Row
<1>7. /\ Done(l)' = Done(l) \cup {m}
      /\ \A k \in Learners : k # l => Done(k)' = Done(k)
  BY <1>1, <1>2, <1>3 DEF Done, TypeOK
<1>8. [k \in Learners |-> Done(k)]'
         = [[k \in Learners |-> Done(k)] EXCEPT ![l] = @ \cup {m}]
  BY <1>1, <1>7
<1>9. [k \in Learners |-> [length |-> row[k].streakCount, last |-> row[k].streakDay]]'
         = [[k \in Learners |-> [length |-> row[k].streakCount,
                                 last |-> row[k].streakDay]]
               EXCEPT ![l] = Abstract!Extend(@, today)]
  <2> DEFINE seen == [k \in Learners |-> [length |-> row[k].streakCount,
                                          last |-> row[k].streakDay]]
  <2>1. Abstract!Extend(seen[l], today)
           = [length |-> StreakAfter(row[l].streakCount, row[l].streakDay, today),
              last |-> today]
    BY <1>6, StreakAfterExtends
  <2>2. seen'[l] = Abstract!Extend(seen[l], today)
    BY <1>2, <2>1
  <2>3. \A k \in Learners : k # l => seen'[k] = seen[k]
    BY <1>2
  <2>4. seen' = [k \in Learners |-> seen'[k]] /\ seen = [k \in Learners |-> seen[k]]
    OBVIOUS
  <2> QED
    BY <2>2, <2>3, <2>4
<1>10. {k \in Learners : row[k].pubkey # None}' = {k \in Learners : row[k].pubkey # None}
  BY <1>1, <1>2
<1>11. Abstract!Complete(l, m, today)
  BY <1>1, <1>2, <1>3, <1>4, <1>5, <1>6, <1>8, <1>9, <1>10 DEF Abstract!Complete
<1>12. today \in FirstDay..day
  BY <1>1, <1>6
<1> QED
  BY <1>1, <1>11, <1>12 DEF Abstract!Next

\* An accepted identity proof identifies its learner; a new key changes nothing.
LEMMA AcceptIdentifies ==
    ASSUME TypeOK, NEW r \in Requests, AcceptProof(r)
    PROVE  [Abstract!Next]_(Abstract!vars)
<1>1. PICK l \in Learners : req[r].who = l
  BY AcceptProofEffect DEF Advances
<1>2. /\ UNCHANGED <<release, day, ledger>> /\ row \in [Learners -> Row]
      /\ row' = row \/ \E k \in Keys : row' = [row EXCEPT ![l].pubkey = k]
  BY <1>1, AcceptProofEffect DEF AcceptProof, Me, TypeOK
<1>3. CASE row' = row
  BY <1>2, <1>3, RecordKept DEF ColumnsKept
<1>4. ASSUME NEW k \in Keys, row' = [row EXCEPT ![l].pubkey = k]
      PROVE  Abstract!Identify(l)
  <2>1. /\ row'[l].pubkey = k /\ k # None
        /\ \A q \in Learners : /\ q # l => row'[q].pubkey = row[q].pubkey
                               /\ row'[q].streakCount = row[q].streakCount
                               /\ row'[q].streakDay = row[q].streakDay
    BY <1>2, <1>4, ConstantsAssumption DEF Row
  <2> QED
    BY <1>2, <2>1 DEF Abstract!Identify, Done
<1> QED
  BY <1>1, <1>2, <1>3, <1>4 DEF Abstract!Next

\* Every step of the system is a step of the course or changes nothing in it.
LEMMA CourseStep ==
    ASSUME TypeOK, LedgerInv, OrderInv, StreakInv, IdentityInv, [Next]_vars
    PROVE  [Abstract!Next]_(Abstract!vars)
<1>1. ASSUME UNCHANGED <<release, day, ledger, row>> PROVE UNCHANGED Abstract!vars
  BY <1>1, RecordKept DEF ColumnsKept
<1>2. ASSUME NEW r \in Requests, QuietStep(r) PROVE UNCHANGED Abstract!vars
  BY <1>1, <1>2 DEF QuietStep
<1>3. ASSUME NEW r \in Requests,
             \/ LoadRow(r) \/ PassGate(r) \/ BindStamp(r) \/ InsertCompletion(r)
             \/ ReloadRow(r) \/ ReloadLedger(r)
      PROVE  UNCHANGED Abstract!vars
  BY <1>1, <1>3, LoadRowEffect, PassGateEffect, BindStampEffect, InsertEffect,
     ReloadRowEffect, ReloadLedgerEffect
<1>4. ASSUME NEW l \in Learners, NEW j \in Journeys \cup {None}, UpdateProfile(l, j)
      PROVE  UNCHANGED Abstract!vars
  BY <1>4, RecordKept DEF UpdateProfile, ColumnsKept, TypeOK, Row
<1>5. CASE NextDay
  <2>1. Abstract!NextDay
    BY <1>5 DEF NextDay, Abstract!NextDay, Done
  <2> QED
    BY <2>1 DEF Abstract!Next
<1>6. ASSUME NEW k \in 1..Releases, k \in release..(release + 1), Restart(k)
      PROVE  [Abstract!Next]_(Abstract!vars)
  <2>1. /\ release' = k /\ UNCHANGED <<day, ledger, row>>
        /\ release \in Nat /\ Releases \in Nat
    BY <1>6, ConstantsAssumption DEF Restart, TypeOK
  <2>2. CASE k = release
    BY <1>1, <2>1, <2>2
  <2>3. CASE k = release + 1
    <3>1. release < Releases
      BY <2>1, <2>3
    <3>2. Abstract!Publish
      BY <2>1, <2>3, <3>1 DEF Abstract!Publish, Done
    <3> QED
      BY <3>2 DEF Abstract!Next
  <2> QED
    BY <1>6, <2>1, <2>2, <2>3
<1>7. CASE UNCHANGED vars
  BY <1>1, <1>7 DEF vars
<1> QED
  BY <1>2, <1>3, <1>4, <1>5, <1>6, <1>7, CommitCompletes, AcceptIdentifies,
     StepKinds DEF HandlerStep, OtherStep

\* The requests, with all their interleavings, drops, restarts and deploys, implement
\* the atomic course, for any catalogue and any number of learners and requests.
THEOREM ProgressImplementsCourse == Spec => ImplementsCourse
<1>1. Init => Abstract!Init
  BY DEF Init, Done, NoPointers, Abstract!Init
<1>2. Init => TypeOK /\ LedgerInv /\ OrderInv /\ StreakInv /\ IdentityInv
  BY InitType, LedgerInit, OrderInit, StreakInit, IdentityInit
<1>3. TypeOK /\ LedgerInv /\ OrderInv /\ StreakInv /\ IdentityInv /\ [Next]_vars
         => (TypeOK /\ LedgerInv /\ OrderInv /\ StreakInv /\ IdentityInv)'
  BY StepType, LedgerStep, OrderStep, StreakStep, IdentityStep
<1>4. TypeOK /\ LedgerInv /\ OrderInv /\ StreakInv /\ IdentityInv /\ [Next]_vars
         => [Abstract!Next]_(Abstract!vars)
  BY CourseStep
<1> QED
  BY <1>1, <1>2, <1>3, <1>4, PTL DEF Spec, ImplementsCourse, Abstract!Spec

===========================================================================
