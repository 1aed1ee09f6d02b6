-------------------------- MODULE CurriculumProofs --------------------------
(***************************************************************************)
(* Why the curriculum keeps its promises: on which few facts about the     *)
(* catalogue each of them rests, in whatever order the paths are flown.    *)
(***************************************************************************)
EXTENDS Curriculum, FiniteSetTheorems, LeastNumber

-----------------------------------------------------------------------------
(* The facts about the catalogue.                                          *)

Keys == <<"money", "bitcoin", "lightning", "nostr", "ecash", "self-custody", "privacy",
          "sovereignty", "open-source">>

LEMMA TreesOf ==
    /\ Len(TREES) = 9
    /\ \A i \in 1..9 : TREES[i].key = Keys[i]
  BY DEF TREES, Flight, Keys

LEMMA KeysDistinct == \A i, j \in 1..9 : Keys[i] = Keys[j] => i = j
  BY DEF Keys

LEMMA PathsAre == Paths = {Keys[i] : i \in 1..9}
  BY TreesOf DEF Paths

LEMMA TreeOf == \A i \in 1..9 : Tree(Keys[i]) = TREES[i]
<1> SUFFICES ASSUME NEW i \in 1..9 PROVE Tree(Keys[i]) = TREES[i]
  OBVIOUS
<1>1. TREES[i] \in {TREES[j] : j \in 1..Len(TREES)} /\ TREES[i].key = Keys[i]
  BY TreesOf
<1>2. \A t \in {TREES[j] : j \in 1..Len(TREES)} : t.key = Keys[i] => t = TREES[i]
  BY TreesOf, KeysDistinct
<1> QED
  BY <1>1, <1>2 DEF Tree

\* Every path is of one of the three difficulties.
LEMMA Difficulties ==
    \A p \in Paths : Tree(p).difficulty \in {"Beginner", "Intermediate", "Advanced"}
<1>1. \A i \in 1..9 : TREES[i].difficulty \in {"Beginner", "Intermediate", "Advanced"}
  BY DEF TREES, Flight
<1> QED
  BY <1>1, TreeOf, PathsAre

\* What is recommended before a path comes before it in the catalogue.
LEMMA AfterEarlier ==
    \A i \in 1..9 : \/ TREES[i].after = "none"
                    \/ \E j \in 1..(i - 1) : TREES[i].after = Keys[j]
  BY DEF TREES, Flight, Keys

\* Every goal orders all the paths.
LEMMA GoalsComplete ==
    \A goal \in DOMAIN GOALS :
        /\ Len(GOALS[goal]) = 9
        /\ \A i \in 1..9 : GOALS[goal][i] \in Paths
        /\ \A p \in Paths : \E i \in 1..9 : GOALS[goal][i] = p
<1>1. DOMAIN GOALS = {"curious", "builder", "privacy"}
  BY DEF GOALS
<1> QED
  BY <1>1, PathsAre DEF GOALS, Keys

\* The two tables of the paths hold the same lessons, each path some, all of the catalogue.
LEMMA TablesAgree ==
    \A i \in 1..9 : /\ TREES[i].missions = BackendTrees[i]
                    /\ Len(BackendTrees[i]) \in Nat \ {0}
                    /\ \A j \in 1..Len(BackendTrees[i]) : BackendTrees[i][j] \in 0..110
<1>1. ASSUME NEW i \in 1..9 PROVE TREES[i].missions = BackendTrees[i]
  <2>1. CASE i = 1
    BY <2>1 DEF TREES, Flight, BackendTrees
  <2>2. CASE i = 2
    BY <2>2 DEF TREES, Flight, BackendTrees
  <2>3. CASE i = 3
    BY <2>3 DEF TREES, Flight, BackendTrees
  <2>4. CASE i = 4
    BY <2>4 DEF TREES, Flight, BackendTrees
  <2>5. CASE i = 5
    BY <2>5 DEF TREES, Flight, BackendTrees
  <2>6. CASE i = 6
    BY <2>6 DEF TREES, Flight, BackendTrees
  <2>7. CASE i = 7
    BY <2>7 DEF TREES, Flight, BackendTrees
  <2>8. CASE i = 8
    BY <2>8 DEF TREES, Flight, BackendTrees
  <2>9. CASE i = 9
    BY <2>9 DEF TREES, Flight, BackendTrees
  <2> QED
    BY <2>1, <2>2, <2>3, <2>4, <2>5, <2>6, <2>7, <2>8, <2>9
<1>2. ASSUME NEW i \in 1..9 PROVE Len(BackendTrees[i]) \in Nat \ {0}
  <2>1. CASE i = 1
    BY <2>1 DEF BackendTrees
  <2>2. CASE i = 2
    BY <2>2 DEF BackendTrees
  <2>3. CASE i = 3
    BY <2>3 DEF BackendTrees
  <2>4. CASE i = 4
    BY <2>4 DEF BackendTrees
  <2>5. CASE i = 5
    BY <2>5 DEF BackendTrees
  <2>6. CASE i = 6
    BY <2>6 DEF BackendTrees
  <2>7. CASE i = 7
    BY <2>7 DEF BackendTrees
  <2>8. CASE i = 8
    BY <2>8 DEF BackendTrees
  <2>9. CASE i = 9
    BY <2>9 DEF BackendTrees
  <2> QED
    BY <2>1, <2>2, <2>3, <2>4, <2>5, <2>6, <2>7, <2>8, <2>9
<1>3. ASSUME NEW i \in 1..9
      PROVE  \A j \in 1..Len(BackendTrees[i]) : BackendTrees[i][j] \in 0..110
  <2>1. CASE i = 1
    BY <2>1 DEF BackendTrees
  <2>2. CASE i = 2
    BY <2>2 DEF BackendTrees
  <2>3. CASE i = 3
    BY <2>3 DEF BackendTrees
  <2>4. CASE i = 4
    BY <2>4 DEF BackendTrees
  <2>5. CASE i = 5
    BY <2>5 DEF BackendTrees
  <2>6. CASE i = 6
    BY <2>6 DEF BackendTrees
  <2>7. CASE i = 7
    BY <2>7 DEF BackendTrees
  <2>8. CASE i = 8
    BY <2>8 DEF BackendTrees
  <2>9. CASE i = 9
    BY <2>9 DEF BackendTrees
  <2> QED
    BY <2>1, <2>2, <2>3, <2>4, <2>5, <2>6, <2>7, <2>8, <2>9
<1> QED
  BY <1>1, <1>2, <1>3

LEMMA MissionsOfTree ==
    \A i \in 1..9 : /\ Tree(Keys[i]).missions = BackendTrees[i]
                    /\ Len(Tree(Keys[i]).missions) \in Nat \ {0}
                    /\ \A j \in 1..Len(Tree(Keys[i]).missions) :
                          Tree(Keys[i]).missions[j] \in 0..110
  BY TreeOf, TablesAgree

LEMMA MissionsOfPath ==
    \A p \in Paths : /\ Len(Tree(p).missions) \in Nat \ {0}
                     /\ \A i \in 1..Len(Tree(p).missions) : Tree(p).missions[i] \in 0..110
  BY MissionsOfTree, PathsAre

\* The path a lesson belongs to.
Home(m) ==
    IF m \in {0, 1, 77, 78, 2, 5, 9, 10, 106, 108, 110} THEN 1 ELSE
    IF m \in {6, 7, 8, 87, 88, 18, 19, 89, 40, 90, 48, 49} THEN 2 ELSE
    IF m \in {21, 22, 79, 80, 23, 24, 25, 38, 81, 82, 39, 83, 107, 109} THEN 3 ELSE
    IF m \in {13, 14, 15, 97, 16, 17, 26, 27, 98, 28, 29, 30, 35, 36, 37, 99} THEN 4 ELSE
    IF m \in {31, 32, 33, 34, 84, 55, 56, 85, 57, 86} THEN 5 ELSE
    IF m \in {3, 4, 11, 12, 91, 92, 93, 20, 41, 94, 95, 43, 44, 45, 96} THEN 6 ELSE
    IF m \in {46, 51, 52, 58, 59, 60, 61, 62, 63, 64, 65, 66} THEN 7 ELSE
    IF m \in {42, 47, 53, 54, 67, 68, 69, 70, 71, 72, 73, 74, 75, 76, 50} THEN 8 ELSE
    9

LEMMA HomeOf ==
    \A t \in 1..9 : \A i \in 1..Len(BackendTrees[t]) : Home(BackendTrees[t][i]) = t
<1>1. \A i \in 1..Len(BackendTrees[1]) : Home(BackendTrees[1][i]) = 1
  BY DEF BackendTrees, Home
<1>2. \A i \in 1..Len(BackendTrees[2]) : Home(BackendTrees[2][i]) = 2
  BY DEF BackendTrees, Home
<1>3. \A i \in 1..Len(BackendTrees[3]) : Home(BackendTrees[3][i]) = 3
  BY DEF BackendTrees, Home
<1>4. \A i \in 1..Len(BackendTrees[4]) : Home(BackendTrees[4][i]) = 4
  BY DEF BackendTrees, Home
<1>5. \A i \in 1..Len(BackendTrees[5]) : Home(BackendTrees[5][i]) = 5
  BY DEF BackendTrees, Home
<1>6. \A i \in 1..Len(BackendTrees[6]) : Home(BackendTrees[6][i]) = 6
  BY DEF BackendTrees, Home
<1>7. \A i \in 1..Len(BackendTrees[7]) : Home(BackendTrees[7][i]) = 7
  BY DEF BackendTrees, Home
<1>8. \A i \in 1..Len(BackendTrees[8]) : Home(BackendTrees[8][i]) = 8
  BY DEF BackendTrees, Home
<1>9. \A i \in 1..Len(BackendTrees[9]) : Home(BackendTrees[9][i]) = 9
  BY DEF BackendTrees, Home
<1> QED
  BY <1>1, <1>2, <1>3, <1>4, <1>5, <1>6, <1>7, <1>8, <1>9

LEMMA NoneIsNoPath == "none" \notin Paths
  BY PathsAre DEF Keys

-----------------------------------------------------------------------------
(* The lessons: the table of the frontend, piece by piece, against the      *)
(* backend's classification.                                                *)

\* What a lesson is: the backend's word for it, but for 106, which it leaves unjudged.
Kind(m) == IF m = 106 THEN "paste-value" ELSE DoKind(m)

\* Where its author put the right answer.
Right(m) ==
    IF m \in {10, 13, 15, 35, 60, 65, 74, 94} THEN 1 ELSE
    IF m \in {2, 5, 40, 77} THEN 3 ELSE 2

Entry(m) == Do(Kind(m), Right(m))

Entries == {Entry(m) : m \in 0..110}

\* The sequence s holds the lessons from first to last.
Piece(s, first, last) ==
    /\ s \in Seq(Entries) /\ Len(s) = last - first + 1
    /\ \A i \in 1..Len(s) : s[i] = Entry(first + i - 1)

LEMMA Glue ==
    ASSUME NEW s, NEW t, NEW first \in Nat, NEW middle \in Nat, NEW next \in Nat,
           NEW last \in Nat, next = middle + 1, Piece(s, first, middle), Piece(t, next, last)
    PROVE  Piece(s \o t, first, last)
<1>1. /\ s \in Seq(Entries) /\ Len(s) = middle - first + 1
      /\ t \in Seq(Entries) /\ Len(t) = last - next + 1
  BY DEF Piece
<1>2. s \o t \in Seq(Entries) /\ Len(s \o t) = Len(s) + Len(t)
  BY <1>1
<1>3. ASSUME NEW i \in 1..Len(s \o t) PROVE (s \o t)[i] = Entry(first + i - 1)
  <2>1. CASE i <= Len(s)
    <3>1. (s \o t)[i] = s[i] /\ i \in 1..Len(s)
      BY <1>1, <1>2, <1>3, <2>1
    <3>2. s[i] = Entry(first + i - 1)
      BY <3>1 DEF Piece
    <3> QED
      BY <3>1, <3>2
  <2>2. CASE i > Len(s)
    <3>1. (s \o t)[i] = t[i - Len(s)] /\ i - Len(s) \in 1..Len(t)
      BY <1>1, <1>2, <1>3, <2>2
    <3>2. (s \o t)[i] = Entry(next + (i - Len(s)) - 1)
      BY <3>1 DEF Piece
    <3>3. next + (i - Len(s)) - 1 = first + i - 1
      BY <1>1, <1>2, <1>3
    <3> QED
      BY <3>2, <3>3
  <2>3. i <= Len(s) \/ i > Len(s)
    BY <1>1, <1>2, <1>3
  <2> QED
    BY <2>1, <2>2, <2>3
<1>4. Len(s \o t) = last - first + 1
  BY <1>1, <1>2
<1> QED
  BY <1>2, <1>3, <1>4 DEF Piece

LEMMA EntryIs == \A m \in 0..110 : Entry(m) \in Entries
  BY DEF Entries

LEMMA Of0to5 == Piece(Lessons0to5, 0, 5)
<1>1. Lessons0to5 =
      <<Entry(0), Entry(1), Entry(2), Entry(3), Entry(4), Entry(5)>>
  BY DEF Lessons0to5, Read, Entry, Kind, DoKind, Right
<1> QED
  BY <1>1, EntryIs DEF Piece

LEMMA Of6to10 == Piece(Lessons6to10, 6, 10)
<1>1. Lessons6to10 =
      <<Entry(6), Entry(7), Entry(8), Entry(9), Entry(10)>>
  BY DEF Lessons6to10, Read, Entry, Kind, DoKind, Right
<1> QED
  BY <1>1, EntryIs DEF Piece

LEMMA Of11to16 == Piece(Lessons11to16, 11, 16)
<1>1. Lessons11to16 =
      <<Entry(11), Entry(12), Entry(13), Entry(14), Entry(15), Entry(16)>>
  BY DEF Lessons11to16, Read, Entry, Kind, DoKind, Right
<1> QED
  BY <1>1, EntryIs DEF Piece

LEMMA Of17to22 == Piece(Lessons17to22, 17, 22)
<1>1. Lessons17to22 =
      <<Entry(17), Entry(18), Entry(19), Entry(20), Entry(21), Entry(22)>>
  BY DEF Lessons17to22, Read, Entry, Kind, DoKind, Right
<1> QED
  BY <1>1, EntryIs DEF Piece

LEMMA Of23to27 == Piece(Lessons23to27, 23, 27)
<1>1. Lessons23to27 =
      <<Entry(23), Entry(24), Entry(25), Entry(26), Entry(27)>>
  BY DEF Lessons23to27, Read, Entry, Kind, DoKind, Right
<1> QED
  BY <1>1, EntryIs DEF Piece

LEMMA Of28to33 == Piece(Lessons28to33, 28, 33)
<1>1. Lessons28to33 =
      <<Entry(28), Entry(29), Entry(30), Entry(31), Entry(32), Entry(33)>>
  BY DEF Lessons28to33, Read, Entry, Kind, DoKind, Right
<1> QED
  BY <1>1, EntryIs DEF Piece

LEMMA Of34to39 == Piece(Lessons34to39, 34, 39)
<1>1. Lessons34to39 =
      <<Entry(34), Entry(35), Entry(36), Entry(37), Entry(38), Entry(39)>>
  BY DEF Lessons34to39, Read, Entry, Kind, DoKind, Right
<1> QED
  BY <1>1, EntryIs DEF Piece

LEMMA Of40to44 == Piece(Lessons40to44, 40, 44)
<1>1. Lessons40to44 =
      <<Entry(40), Entry(41), Entry(42), Entry(43), Entry(44)>>
  BY DEF Lessons40to44, Read, Entry, Kind, DoKind, Right
<1> QED
  BY <1>1, EntryIs DEF Piece

LEMMA Of45to50 == Piece(Lessons45to50, 45, 50)
<1>1. Lessons45to50 =
      <<Entry(45), Entry(46), Entry(47), Entry(48), Entry(49), Entry(50)>>
  BY DEF Lessons45to50, Read, Entry, Kind, DoKind, Right
<1> QED
  BY <1>1, EntryIs DEF Piece

LEMMA Of51to56 == Piece(Lessons51to56, 51, 56)
<1>1. Lessons51to56 =
      <<Entry(51), Entry(52), Entry(53), Entry(54), Entry(55), Entry(56)>>
  BY DEF Lessons51to56, Read, Entry, Kind, DoKind, Right
<1> QED
  BY <1>1, EntryIs DEF Piece

LEMMA Of57to62 == Piece(Lessons57to62, 57, 62)
<1>1. Lessons57to62 =
      <<Entry(57), Entry(58), Entry(59), Entry(60), Entry(61), Entry(62)>>
  BY DEF Lessons57to62, Read, Entry, Kind, DoKind, Right
<1> QED
  BY <1>1, EntryIs DEF Piece

LEMMA Of63to68 == Piece(Lessons63to68, 63, 68)
<1>1. Lessons63to68 =
      <<Entry(63), Entry(64), Entry(65), Entry(66), Entry(67), Entry(68)>>
  BY DEF Lessons63to68, Read, Entry, Kind, DoKind, Right
<1> QED
  BY <1>1, EntryIs DEF Piece

LEMMA Of69to74 == Piece(Lessons69to74, 69, 74)
<1>1. Lessons69to74 =
      <<Entry(69), Entry(70), Entry(71), Entry(72), Entry(73), Entry(74)>>
  BY DEF Lessons69to74, Read, Entry, Kind, DoKind, Right
<1> QED
  BY <1>1, EntryIs DEF Piece

LEMMA Of75to80 == Piece(Lessons75to80, 75, 80)
<1>1. Lessons75to80 =
      <<Entry(75), Entry(76), Entry(77), Entry(78), Entry(79), Entry(80)>>
  BY DEF Lessons75to80, Read, Entry, Kind, DoKind, Right
<1> QED
  BY <1>1, EntryIs DEF Piece

LEMMA Of81to86 == Piece(Lessons81to86, 81, 86)
<1>1. Lessons81to86 =
      <<Entry(81), Entry(82), Entry(83), Entry(84), Entry(85), Entry(86)>>
  BY DEF Lessons81to86, Read, Entry, Kind, DoKind, Right
<1> QED
  BY <1>1, EntryIs DEF Piece

LEMMA Of87to92 == Piece(Lessons87to92, 87, 92)
<1>1. Lessons87to92 =
      <<Entry(87), Entry(88), Entry(89), Entry(90), Entry(91), Entry(92)>>
  BY DEF Lessons87to92, Read, Entry, Kind, DoKind, Right
<1> QED
  BY <1>1, EntryIs DEF Piece

LEMMA Of93to98 == Piece(Lessons93to98, 93, 98)
<1>1. Lessons93to98 =
      <<Entry(93), Entry(94), Entry(95), Entry(96), Entry(97), Entry(98)>>
  BY DEF Lessons93to98, Read, Entry, Kind, DoKind, Right
<1> QED
  BY <1>1, EntryIs DEF Piece

LEMMA Of99to103 == Piece(Lessons99to103, 99, 103)
<1>1. Lessons99to103 =
      <<Entry(99), Entry(100), Entry(101), Entry(102), Entry(103)>>
  BY DEF Lessons99to103, Read, Entry, Kind, DoKind, Right
<1> QED
  BY <1>1, EntryIs DEF Piece

LEMMA Of104to108 == Piece(Lessons104to108, 104, 108)
<1>1. Lessons104to108 =
      <<Entry(104), Entry(105), Entry(106), Entry(107), Entry(108)>>
  BY DEF Lessons104to108, Read, Entry, Kind, DoKind, Right
<1> QED
  BY <1>1, EntryIs DEF Piece

LEMMA Of109to110 == Piece(Lessons109to110, 109, 110)
<1>1. Lessons109to110 =
      <<Entry(109), Entry(110)>>
  BY DEF Lessons109to110, Read, Entry, Kind, DoKind, Right
<1> QED
  BY <1>1, EntryIs DEF Piece

\* Lesson n of the catalogue is what the backend's classification says, but for 106.
LEMMA LessonsAre ==
    /\ Len(Lessons) = 111
    /\ \A m \in 0..110 : LessonOf(m).kind = Kind(m) /\ LessonOf(m).right = Right(m)
<1> DEFINE upTo1 == Lessons0to5
           upTo2 == upTo1 \o Lessons6to10
           upTo3 == upTo2 \o Lessons11to16
           upTo4 == upTo3 \o Lessons17to22
           upTo5 == upTo4 \o Lessons23to27
           upTo6 == upTo5 \o Lessons28to33
           upTo7 == upTo6 \o Lessons34to39
           upTo8 == upTo7 \o Lessons40to44
           upTo9 == upTo8 \o Lessons45to50
           upTo10 == upTo9 \o Lessons51to56
           upTo11 == upTo10 \o Lessons57to62
           upTo12 == upTo11 \o Lessons63to68
           upTo13 == upTo12 \o Lessons69to74
           upTo14 == upTo13 \o Lessons75to80
           upTo15 == upTo14 \o Lessons81to86
           upTo16 == upTo15 \o Lessons87to92
           upTo17 == upTo16 \o Lessons93to98
           upTo18 == upTo17 \o Lessons99to103
           upTo19 == upTo18 \o Lessons104to108
           upTo20 == upTo19 \o Lessons109to110
<1>1. Piece(upTo1, 0, 5)
  BY Of0to5
<1>2. Piece(upTo2, 0, 10)
  <2> HIDE DEF upTo1
  <2> QED
    BY <1>1, Of6to10, Glue
<1>3. Piece(upTo3, 0, 16)
  <2> HIDE DEF upTo2
  <2> QED
    BY <1>2, Of11to16, Glue
<1>4. Piece(upTo4, 0, 22)
  <2> HIDE DEF upTo3
  <2> QED
    BY <1>3, Of17to22, Glue
<1>5. Piece(upTo5, 0, 27)
  <2> HIDE DEF upTo4
  <2> QED
    BY <1>4, Of23to27, Glue
<1>6. Piece(upTo6, 0, 33)
  <2> HIDE DEF upTo5
  <2> QED
    BY <1>5, Of28to33, Glue
<1>7. Piece(upTo7, 0, 39)
  <2> HIDE DEF upTo6
  <2> QED
    BY <1>6, Of34to39, Glue
<1>8. Piece(upTo8, 0, 44)
  <2> HIDE DEF upTo7
  <2> QED
    BY <1>7, Of40to44, Glue
<1>9. Piece(upTo9, 0, 50)
  <2> HIDE DEF upTo8
  <2> QED
    BY <1>8, Of45to50, Glue
<1>10. Piece(upTo10, 0, 56)
  <2> HIDE DEF upTo9
  <2> QED
    BY <1>9, Of51to56, Glue
<1>11. Piece(upTo11, 0, 62)
  <2> HIDE DEF upTo10
  <2> QED
    BY <1>10, Of57to62, Glue
<1>12. Piece(upTo12, 0, 68)
  <2> HIDE DEF upTo11
  <2> QED
    BY <1>11, Of63to68, Glue
<1>13. Piece(upTo13, 0, 74)
  <2> HIDE DEF upTo12
  <2> QED
    BY <1>12, Of69to74, Glue
<1>14. Piece(upTo14, 0, 80)
  <2> HIDE DEF upTo13
  <2> QED
    BY <1>13, Of75to80, Glue
<1>15. Piece(upTo15, 0, 86)
  <2> HIDE DEF upTo14
  <2> QED
    BY <1>14, Of81to86, Glue
<1>16. Piece(upTo16, 0, 92)
  <2> HIDE DEF upTo15
  <2> QED
    BY <1>15, Of87to92, Glue
<1>17. Piece(upTo17, 0, 98)
  <2> HIDE DEF upTo16
  <2> QED
    BY <1>16, Of93to98, Glue
<1>18. Piece(upTo18, 0, 103)
  <2> HIDE DEF upTo17
  <2> QED
    BY <1>17, Of99to103, Glue
<1>19. Piece(upTo19, 0, 108)
  <2> HIDE DEF upTo18
  <2> QED
    BY <1>18, Of104to108, Glue
<1>20. Piece(upTo20, 0, 110)
  <2> HIDE DEF upTo19
  <2> QED
    BY <1>19, Of109to110, Glue
<1>21. upTo20 = Lessons
  BY DEF Lessons
<1> HIDE DEF upTo20
<1>22. Len(Lessons) = 111 /\ \A m \in 0..110 : LessonOf(m) = Entry(m)
  BY <1>20, <1>21 DEF Piece, LessonOf
<1> QED
  BY <1>22 DEF Entry, Do

-----------------------------------------------------------------------------
(* The way through the catalogue.                                          *)

Way ==
    /\ path \in Paths \cup {"none"}
    /\ cleared \in SUBSET Paths
    /\ path # "none" => idx \in 1..Len(Tree(path).missions)
    /\ path = "none" => step = "read"

LEMMA WayInit == Init => Way
  BY DEF Init, Way

LEMMA WayStep == Way /\ [Next]_vars => Way'
<1> SUFFICES ASSUME Way, [Next]_vars PROVE Way'
  OBVIOUS
<1>1. ASSUME NEW p \in Paths, Fly(p) PROVE Way'
  BY <1>1, MissionsOfPath, NoneIsNoPath DEF Fly, Way
<1>2. CASE ToQuiz \/ ShuffleStep \/ (\E p \in 1..Options : Answer(p))
  BY <1>2 DEF ToQuiz, ShuffleStep, Answer, Way
<1>3. CASE DoStep
  <2>1. path \in Paths /\ Len(Tree(path).missions) \in Nat
    BY <1>3, MissionsOfPath DEF DoStep, Way
  <2>2. CASE idx < Len(Tree(path).missions)
    BY <1>3, <2>1, <2>2 DEF DoStep, Way
  <2>3. CASE ~(idx < Len(Tree(path).missions))
    BY <1>3, <2>1, <2>3 DEF DoStep, Way
  <2> QED
    BY <2>2, <2>3
<1>4. CASE ChangeBrowser \/ Finished \/ UNCHANGED vars
  BY <1>4 DEF ChangeBrowser, Finished, vars, Way
<1> QED
  BY <1>1, <1>2, <1>3, <1>4 DEF Next

LEMMA WayAlways == Spec => []Way
  BY WayInit, WayStep, PTL DEF Spec

-----------------------------------------------------------------------------
(* Ranks and recommendations.                                              *)

\* Clearing what a rank card names leaves nothing of that difficulty.
LEMMA RankRises ==
    ASSUME NEW earned \in SUBSET Paths,
           RankFor(earned).rank # Len(RankLadder)
    PROVE  /\ RankFor(earned).next # {} /\ RankFor(earned).next \cap earned = {}
           /\ RankFor(earned \cup RankFor(earned).next).rank > RankFor(earned).rank
<1> DEFINE left(d) == RemainingOf(d, earned)
           now == RankFor(earned)
           after(d) == RemainingOf(d, earned \cup now.next)
<1>1. Len(RankLadder) = 4
  BY DEF RankLadder
<1>2. \A d : left(d) \cap earned = {} /\ after(d) \subseteq left(d)
               /\ (left(d) \subseteq now.next => after(d) = {})
  BY DEF RemainingOf
<1>3. CASE left("Beginner") # {}
  <2>1. now = [rank |-> 1, next |-> left("Beginner")]
    BY <1>3 DEF RankFor
  <2>2. after("Beginner") = {}
    BY <1>2, <2>1
  <2>3. RankFor(earned \cup now.next).rank \in {2, 3, 4}
    BY <2>2 DEF RankFor
  <2> QED
    BY <1>2, <1>3, <2>1, <2>3
<1>4. CASE left("Beginner") = {} /\ left("Intermediate") # {}
  <2>1. now = [rank |-> 2, next |-> left("Intermediate")]
    BY <1>4 DEF RankFor
  <2>2. after("Beginner") = {} /\ after("Intermediate") = {}
    BY <1>2, <1>4, <2>1
  <2>3. RankFor(earned \cup now.next).rank \in {3, 4}
    BY <2>2 DEF RankFor
  <2> QED
    BY <1>2, <1>4, <2>1, <2>3
<1>5. CASE /\ left("Beginner") = {} /\ left("Intermediate") = {}
           /\ left("Advanced") # {}
  <2>1. now = [rank |-> 3, next |-> left("Advanced")]
    BY <1>5 DEF RankFor
  <2>2. after("Beginner") = {} /\ after("Intermediate") = {} /\ after("Advanced") = {}
    BY <1>2, <1>5, <2>1
  <2>3. RankFor(earned \cup now.next).rank = 4
    BY <2>2 DEF RankFor
  <2> QED
    BY <1>2, <1>5, <2>1, <2>3
<1>6. CASE /\ left("Beginner") = {} /\ left("Intermediate") = {}
           /\ left("Advanced") = {}
  <2>1. now = [rank |-> 4, next |-> {}]
    BY <1>6 DEF RankFor
  <2> QED
    BY <1>1, <2>1
<1> QED
  BY <1>3, <1>4, <1>5, <1>6

\* The top rank is for those who have cleared everything.
LEMMA TopRank ==
    ASSUME NEW earned \in SUBSET Paths, RankFor(earned).rank = Len(RankLadder)
    PROVE  earned = Paths
<1>1. /\ RemainingOf("Beginner", earned) = {} /\ RemainingOf("Intermediate", earned) = {}
      /\ RemainingOf("Advanced", earned) = {}
  BY DEF RankFor, RankLadder
<1> QED
  BY <1>1, Difficulties DEF RemainingOf

\* Clearing exactly the paths that the rank card names brings at least the next rank, and
\* only who has cleared every path is at the top.
THEOREM RanksKeepTheirPromise == Spec => []RankPromise
<1>1. Way => RankPromise
  BY RankRises, TopRank DEF Way, RankPromise
<1> QED
  BY <1>1, WayAlways, PTL

\* The earliest unfinished path of the catalogue waits for nothing.
LEMMA EarliestIsFree ==
    ASSUME NEW earned \in SUBSET Paths, earned # Paths
    PROVE  \E i \in 1..9 : /\ Keys[i] \in Paths \ earned
                           /\ TREES[i].after # "none" => TREES[i].after \in earned
<1> DEFINE open == {i \in 1..9 : Keys[i] \notin earned}
<1>1. open # {} /\ open \in SUBSET Nat
  BY PathsAre
<1>2. PICK i \in open : \A j \in open : i <= j
  BY <1>1, HasLeast
<1>3. \A j \in 1..(i - 1) : Keys[j] \in earned
  BY <1>2
<1> QED
  BY <1>2, <1>3, AfterEarlier, PathsAre

\* While a path is unfinished every goal recommends one of them, and one that is not begun
\* waits for no other: the recommendations never send a learner round in circles.
THEOREM RecommendationsLeadOn == Spec => []AlwaysAWayIn
<1>1. ASSUME Way, cleared # Paths, NEW goal \in DOMAIN GOALS
      PROVE  UpNext(goal) \in Paths \ cleared
  <2> DEFINE left == {i \in 1..Len(GOALS[goal]) : GOALS[goal][i] \notin cleared}
             first == CHOOSE i \in left : \A j \in left : i <= j
  <2>0. PICK p \in Paths : p \notin cleared
    BY <1>1 DEF Way
  <2>1. left # {} /\ left \in SUBSET Nat
    <3>1. PICK i \in 1..9 : GOALS[goal][i] = p
      BY GoalsComplete
    <3>2. i \in left
      BY <2>0, <3>1, GoalsComplete
    <3>3. left \in SUBSET Nat
      BY GoalsComplete
    <3> QED
      BY <3>2, <3>3
  <2>2. \E i \in left : \A j \in left : i <= j
    BY <2>1, HasLeast
  <2>3. first \in left
    BY <2>2
  <2>4. UpNext(goal) = GOALS[goal][first]
    BY <2>1 DEF UpNext
  <2> HIDE DEF first
  <2> QED
    BY <2>3, <2>4, GoalsComplete
<1>2. ASSUME Way, cleared # Paths PROVE \E p \in Paths \ cleared : ~Nudged(p)
  <2>1. PICK i \in 1..9 : /\ Keys[i] \in Paths \ cleared
                          /\ TREES[i].after # "none" => TREES[i].after \in cleared
    BY <1>2, EarliestIsFree DEF Way
  <2>2. ~Nudged(Keys[i])
    BY <2>1, TreeOf DEF Nudged
  <2> QED
    BY <2>1, <2>2
<1>3. Way => AlwaysAWayIn
  BY <1>1, <1>2 DEF AlwaysAWayIn
<1> QED
  BY <1>3, WayAlways, PTL

-----------------------------------------------------------------------------
(* The two sides of the catalogue.                                         *)

LEMMA OnTheWay ==
    ASSUME Way, path # "none"
    PROVE  \E t \in 1..9 : /\ path = Keys[t] /\ Tree(path).missions = BackendTrees[t]
                          /\ idx \in 1..Len(BackendTrees[t]) /\ mission = BackendTrees[t][idx]
                          /\ mission \in 0..110
<1>1. path \in Paths
  BY DEF Way
<1>2. PICK t \in 1..9 : path = Keys[t]
  BY <1>1, PathsAre
<1>3. Tree(path).missions = BackendTrees[t] /\ idx \in 1..Len(BackendTrees[t])
  BY <1>2, MissionsOfTree DEF Way
<1>4. mission = BackendTrees[t][idx]
  BY <1>3 DEF mission
<1> QED
  BY <1>2, <1>3, <1>4, TablesAgree

\* The frontend's and the backend's tables never part: the lesson on the screen is the one
\* the server's gate expects next in that path and in no other, and its Do step is what the
\* verifier of its proof takes it for.
THEOREM TheMirrorsAgree == Spec => []MirrorsAgree
<1>1. ASSUME Way, path # "none" PROVE MirrorsAgree
  <2>1. PICK t \in 1..9 : /\ path = Keys[t] /\ Tree(path).missions = BackendTrees[t]
                          /\ idx \in 1..Len(BackendTrees[t]) /\ mission = BackendTrees[t][idx]
                          /\ mission \in 0..110
    BY <1>1, OnTheWay
  <2>2. Len(BackendTrees) = 9
    BY DEF BackendTrees
  <2>3. TREES[t].key = path
    BY <2>1, TreesOf
  <2>4. ASSUME NEW u \in 1..9 \ {t}, NEW i \in 1..Len(BackendTrees[u])
        PROVE  BackendTrees[u][i] # mission
    <3>1. Home(BackendTrees[u][i]) = u
      BY HomeOf
    <3>2. Home(mission) = t
      BY <2>1, HomeOf
    <3> QED
      BY <3>1, <3>2
  <2>5. mission # 106 => lesson.kind = DoKind(mission)
    BY <2>1, LessonsAre DEF lesson, Kind
  <2> QED
    BY <2>1, <2>2, <2>3, <2>4, <2>5 DEF MirrorsAgree
<1>2. Way => MirrorsAgree
  BY <1>1 DEF MirrorsAgree
<1> QED
  BY <1>2, WayAlways, PTL

-----------------------------------------------------------------------------
(* What a Do step needs was given earlier in the same path.                *)

LEMMA NeedsAndMakes ==
    \A m \in 0..110 :
        /\ m \in {41, 92} => Needs(Kind(m)) = {"seed"}
        /\ m \in {17, 26, 27, 30} => Needs(Kind(m)) = {"nsec"}
        /\ m \notin {17, 26, 27, 30, 41, 92} => Needs(Kind(m)) = {}
        /\ m = 11 => Makes(Kind(m)) = {"seed"}
        /\ m = 14 => Makes(Kind(m)) = {"nsec"}
<1> SUFFICES ASSUME NEW m \in 0..110
             PROVE  /\ m \in {41, 92} => Needs(Kind(m)) = {"seed"}
                    /\ m \in {17, 26, 27, 30} => Needs(Kind(m)) = {"nsec"}
                    /\ m \notin {17, 26, 27, 30, 41, 92} => Needs(Kind(m)) = {}
                    /\ m = 11 => Makes(Kind(m)) = {"seed"}
                    /\ m = 14 => Makes(Kind(m)) = {"nsec"}
  OBVIOUS
<1>1. /\ Kind(41) = "derive-address" /\ Kind(92) = "passphrase-fork"
      /\ Kind(17) = "sign-event" /\ Kind(26) = "nostr-publish"
      /\ Kind(27) = "nostr-profile" /\ Kind(30) = "nostr-follow"
      /\ Kind(11) = "seed-words" /\ Kind(14) = "nostr-identity"
  BY DEF Kind, DoKind
<1>2. m \notin {17, 26, 27, 30, 41, 92} =>
         Kind(m) \notin {"derive-address", "passphrase-fork", "sign-event", "nostr-publish",
                        "nostr-profile", "nostr-follow"}
  BY DEF Kind, DoKind
<1>3. m \in {41, 92} => Needs(Kind(m)) = {"seed"}
  BY <1>1 DEF Needs
<1>4. m \in {17, 26, 27, 30} => Needs(Kind(m)) = {"nsec"}
  BY <1>1 DEF Needs
<1>5. m \notin {17, 26, 27, 30, 41, 92} => Needs(Kind(m)) = {}
  BY <1>2 DEF Needs
<1>6. (m = 11 => Makes(Kind(m)) = {"seed"}) /\ (m = 14 => Makes(Kind(m)) = {"nsec"})
  BY <1>1 DEF Makes
<1> QED
  BY <1>3, <1>4, <1>5, <1>6

\* Lessons 41 and 92 stand in their path after 11; 17, 26, 27 and 30 in theirs after 14.
LEMMA MadeEarlier ==
    ASSUME NEW t \in 1..9, NEW j \in 1..Len(BackendTrees[t]),
           Needs(Kind(BackendTrees[t][j])) # {}
    PROVE  \E k \in 1..(j - 1) :
               Needs(Kind(BackendTrees[t][j])) \subseteq Makes(Kind(BackendTrees[t][k]))
<1> DEFINE m == BackendTrees[t][j]
<1>0. m \in 0..110 /\ Len(BackendTrees[t]) \in Nat
  BY TablesAgree
<1>1. m \in {17, 26, 27, 30, 41, 92} /\ Home(m) = t
  <2>1. Home(m) = t
    BY HomeOf
  <2>2. m \notin {17, 26, 27, 30, 41, 92} => Needs(Kind(m)) = {}
    BY <1>0, NeedsAndMakes
  <2> QED
    BY <2>1, <2>2
<1>2. CASE m \in {41, 92}
  <2>0. Home(41) = 6 /\ Home(92) = 6
    BY DEF Home
  <2>1. t = 6
    BY <1>1, <1>2, <2>0
  <2>2. BackendTrees[6][3] = 11 /\ \A i \in 1..3 : BackendTrees[6][i] \notin {41, 92}
    BY DEF BackendTrees
  <2>3. 3 \in 1..(j - 1)
    BY <1>0, <1>2, <2>1, <2>2
  <2>4. Needs(Kind(m)) \subseteq Makes(Kind(BackendTrees[6][3]))
    BY <1>0, <1>2, <2>2, NeedsAndMakes
  <2> QED
    BY <2>1, <2>3, <2>4
<1>3. CASE m \in {17, 26, 27, 30}
  <2>0. Home(17) = 4 /\ Home(26) = 4 /\ Home(27) = 4 /\ Home(30) = 4
    BY DEF Home
  <2>1. t = 4
    BY <1>1, <1>3, <2>0
  <2>2. BackendTrees[4][2] = 14 /\ \A i \in 1..2 : BackendTrees[4][i] \notin {17, 26, 27, 30}
    BY DEF BackendTrees
  <2>3. 2 \in 1..(j - 1)
    BY <1>0, <1>3, <2>1, <2>2
  <2>4. Needs(Kind(m)) \subseteq Makes(Kind(BackendTrees[4][2]))
    BY <1>0, <1>3, <2>2, NeedsAndMakes
  <2> QED
    BY <2>1, <2>3, <2>4
<1> QED
  BY <1>1, <1>2, <1>3

\* What the lessons already passed in this path gave is on record.
Kept ==
    path # "none" =>
        \A k \in 1..(idx - 1) : Makes(LessonOf(Tree(path).missions[k]).kind) \subseteq made

LEMMA KeptStep == Way /\ Kept /\ [Next]_vars => Kept'
<1> SUFFICES ASSUME Way, Kept, [Next]_vars PROVE Kept'
  OBVIOUS
<1>1. ASSUME NEW p \in Paths, Fly(p) PROVE Kept'
  BY <1>1 DEF Fly, secrets, Kept
<1>2. CASE ToQuiz \/ ShuffleStep \/ (\E p \in 1..Options : Answer(p))
  BY <1>2 DEF ToQuiz, ShuffleStep, Answer, secrets, Kept
<1>3. CASE DoStep
  <2>1. path # "none" /\ idx \in Nat /\ Len(Tree(path).missions) \in Nat
    BY <1>3, MissionsOfPath DEF DoStep, Way
  <2>2. CASE idx < Len(Tree(path).missions)
    <3>1. path' = path /\ idx' = idx + 1
      BY <1>3, <2>2 DEF DoStep
    <3>2. made' = made \cup Makes(LessonOf(Tree(path).missions[idx]).kind)
      BY <1>3 DEF DoStep, lesson, mission
    <3>3. ASSUME NEW k \in 1..idx
          PROVE  Makes(LessonOf(Tree(path).missions[k]).kind) \subseteq made'
      <4>1. CASE k = idx
        BY <3>2, <4>1
      <4>2. CASE k # idx
        BY <2>1, <3>2, <4>2 DEF Kept
      <4> QED
        BY <4>1, <4>2
    <3> QED
      BY <2>1, <3>1, <3>3 DEF Kept
  <2>3. CASE ~(idx < Len(Tree(path).missions))
    BY <1>3, <2>3 DEF DoStep, Kept
  <2> QED
    BY <2>2, <2>3
<1>4. CASE ChangeBrowser \/ Finished \/ UNCHANGED vars
  BY <1>4 DEF ChangeBrowser, Finished, vars, secrets, Kept
<1> QED
  BY <1>1, <1>2, <1>3, <1>4 DEF Next

\* In whatever order the paths are flown, no lesson asks for a seed phrase or a key that no
\* lesson on record made: each path brings its own before it needs it, and whatever
\* browser the learner is in, the record of it stays.
THEOREM SecretsGivenBefore == Spec => []GivenBefore
<1>1. Init => Kept
  BY DEF Init, Kept
<1>2. ASSUME Way, Kept, path # "none" PROVE Needs(lesson.kind) \subseteq made
  <2>1. PICK t \in 1..9 : /\ path = Keys[t] /\ Tree(path).missions = BackendTrees[t]
                          /\ idx \in 1..Len(BackendTrees[t]) /\ mission = BackendTrees[t][idx]
                          /\ mission \in 0..110
    BY <1>2, OnTheWay
  <2>2. lesson.kind = Kind(BackendTrees[t][idx])
    BY <2>1, LessonsAre DEF lesson
  <2>3. CASE Needs(lesson.kind) # {}
    <3>1. PICK k \in 1..(idx - 1) :
              Needs(lesson.kind) \subseteq Makes(Kind(BackendTrees[t][k]))
      BY <2>1, <2>2, <2>3, MadeEarlier
    <3>0. Len(BackendTrees[t]) \in Nat
      BY TablesAgree
    <3>2. BackendTrees[t][k] \in 0..110
      <4>1. k \in 1..Len(BackendTrees[t])
        BY <2>1, <3>0
      <4> QED
        BY <4>1, TablesAgree
    <3>3. Makes(LessonOf(BackendTrees[t][k]).kind) \subseteq made
      BY <1>2, <2>1 DEF Kept
    <3>4. Makes(Kind(BackendTrees[t][k])) \subseteq made
      BY <3>2, <3>3, LessonsAre
    <3> QED
      BY <3>1, <3>4
  <2> QED
    BY <2>3
<1>3. Way /\ Kept => GivenBefore
  BY <1>2 DEF GivenBefore
<1> QED
  BY <1>1, <1>3, WayAlways, KeptStep, PTL DEF Spec

-----------------------------------------------------------------------------
(* The shuffle of the answers.                                             *)

States == [high : Nat, low : Nat]

LEMMA LcgStates == \A s \in States : Lcg(s) \in States
  BY DEF States, Lcg

LEMMA RngModIs ==
    ASSUME NEW s \in States
    PROVE  RngMod(s, 3) \in 0..2 /\ RngMod(s, 2) \in 0..1
<1>1. s.high \in Nat /\ s.low \in Nat
  BY DEF States
<1>2. s.high * (65536 % 3) + s.low \in Nat
  BY <1>1
<1>3. s.high * (65536 % 2) + s.low \in Nat
  BY <1>1
<1> QED
  BY <1>2, <1>3 DEF RngMod

\* Two swaps of three answers show each of them once.
LEMMA ShuffledShowsAll ==
    ASSUME NEW m \in Nat
    PROVE  {Shuffled(m)[p] : p \in 1..Options} = 1..Options
<1> DEFINE s3 == Lcg(SeedOf(m))
           s2 == Lcg(s3)
           i == RngMod(s3, 3) + 1
           j == RngMod(s2, 2) + 1
           first == Swapped(<<1, 2, 3>>, 3, i)
<1>1. s3 \in States /\ s2 \in States
  BY LcgStates DEF SeedOf, States
<1>2. i \in 1..3 /\ j \in 1..2
  BY <1>1, RngModIs
<1>3. Shuffled(m) = Swapped(first, 2, j)
  BY DEF Shuffled
<1> HIDE DEF s3, s2, i, j
<1>4. first \in {<<3, 2, 1>>, <<1, 3, 2>>, <<1, 2, 3>>}
  BY <1>2 DEF Swapped
<1> HIDE DEF first
<1>5. Shuffled(m) \in {<<3, 2, 1>>, <<2, 3, 1>>, <<1, 3, 2>>, <<3, 1, 2>>, <<1, 2, 3>>, <<2, 1, 3>>}
  BY <1>2, <1>3, <1>4 DEF Swapped
<1> QED
  BY <1>5 DEF Options

\* How far the loop is, by its counter.
Turns ==
    LET s3 == Lcg(SeedOf(mission)) IN
    /\ step \in {"shuffle", "quiz"} => path # "none"
    /\ step = "shuffle" =>
          /\ cursor \in 1..3
          /\ cursor = 3 => order = <<1, 2, 3>> /\ rng = SeedOf(mission)
          /\ cursor = 2 => order = Swapped(<<1, 2, 3>>, 3, RngMod(s3, 3) + 1) /\ rng = s3
          /\ cursor = 1 => order = Shuffled(mission)
    /\ step = "quiz" => order = Shuffled(mission)

LEMMA TurnsStep == Way /\ Turns /\ [Next]_vars => Turns'
<1> SUFFICES ASSUME Way, Turns, [Next]_vars PROVE Turns'
  OBVIOUS
<1>1. ASSUME NEW p \in Paths, Fly(p) PROVE Turns'
  BY <1>1 DEF Fly, Turns
<1>2. CASE ToQuiz
  <2>1. mission' = mission /\ path' = path /\ step' = "shuffle" /\ cursor' = 3
        /\ rng' = SeedOf(mission) /\ path # "none"
    BY <1>2 DEF ToQuiz, mission, Options
  <2>2. order' = <<1, 2, 3>>
    BY <1>2 DEF ToQuiz, Options
  <2> QED
    BY <2>1, <2>2 DEF Turns
<1>3. CASE ShuffleStep
  <2>1. mission' = mission /\ path' = path /\ path # "none" /\ step = "shuffle"
    BY <1>3 DEF ShuffleStep, mission
  <2>2. CASE cursor = 3
    BY <1>3, <2>1, <2>2 DEF ShuffleStep, Turns
  <2>3. CASE cursor = 2
    BY <1>3, <2>1, <2>3 DEF ShuffleStep, Turns, Shuffled
  <2>4. CASE cursor = 1
    BY <1>3, <2>1, <2>4 DEF ShuffleStep, Turns
  <2> QED
    BY <2>1, <2>2, <2>3, <2>4 DEF Turns
<1>4. CASE (\E p \in 1..Options : Answer(p)) \/ DoStep \/ ChangeBrowser
  BY <1>4 DEF Answer, DoStep, ChangeBrowser, Turns
<1>5. CASE Finished \/ UNCHANGED vars
  BY <1>5 DEF Finished, vars, Turns, mission
<1> QED
  BY <1>1, <1>2, <1>3, <1>4, <1>5 DEF Next

\* Whenever the quiz is on the screen its loop has come to an end: each answer is shown
\* once, in the order the seed of this very lesson gives.
THEOREM QuizShowsEachAnswerOnce == Spec => []QuizShown
<1>1. Init => Turns
  BY DEF Init, Turns
<1>2. ASSUME Way, Turns, step = "quiz" PROVE QuizShown
  <2>1. order = Shuffled(mission) /\ path # "none"
    BY <1>2 DEF Turns
  <2>2. mission \in 0..110
    BY <1>2, <2>1, OnTheWay
  <2>3. {Shuffled(mission)[p] : p \in 1..Options} = 1..Options
    <3>1. mission \in Nat
      BY <2>2
    <3> QED
      BY <3>1, ShuffledShowsAll
  <2> QED
    BY <2>1, <2>3 DEF QuizShown
<1>3. Way /\ Turns => QuizShown
  BY <1>2 DEF QuizShown
<1> QED
  BY <1>1, <1>3, WayAlways, TurnsStep, PTL DEF Spec

-----------------------------------------------------------------------------
(* Where the right answers stand.                                          *)

\* The two draws of the shuffle of lesson m.
Draw3(m) == RngMod(Lcg(SeedOf(m)), 3)
Draw2(m) == RngMod(Lcg(Lcg(SeedOf(m))), 2)

\* The order they make, by its number (the second draw is a parity, see SecondDraw).
Number(m) == 2 * Draw3(m) + ((m + 1) % 2) + 1

Orders == <<<<2, 3, 1>>, <<3, 2, 1>>, <<3, 1, 2>>, <<1, 3, 2>>, <<2, 1, 3>>, <<1, 2, 3>>>>

LEMMA LcgTurnsParity == \A s \in States : Lcg(s).low % 2 = (s.low + 1) % 2
<1> SUFFICES ASSUME NEW s \in States PROVE Lcg(s).low % 2 = (s.low + 1) % 2
  OBVIOUS
<1>1. s.low \in Nat
  BY DEF States
<1>2. Lcg(s).low = (s.low * 9301 + 49297) % 65536
  BY DEF Lcg
<1>3. ((s.low * 9301 + 49297) % 65536) % 2 = (s.low + 1) % 2
  BY <1>1
<1> QED
  BY <1>2, <1>3

\* The second draw is no more than the parity of the lesson's number.
LEMMA SecondDraw ==
    ASSUME NEW m \in Nat
    PROVE  Draw2(m) = (m + 1) % 2
<1> DEFINE s1 == SeedOf(m)
           s3 == Lcg(s1)
           s2 == Lcg(s3)
           s0 == [high |-> 0, low |-> m]
<1>1. s0 \in States /\ s1 \in States /\ s3 \in States /\ s2 \in States
  BY LcgStates DEF SeedOf, States
<1>2. s1.low % 2 = (m + 1) % 2
  BY <1>1, LcgTurnsParity DEF SeedOf
<1> HIDE DEF s1
<1>3. s3.low % 2 = (s1.low + 1) % 2
  BY <1>1, LcgTurnsParity
<1> HIDE DEF s3
<1>4. s2.low % 2 = (s3.low + 1) % 2
  BY <1>1, LcgTurnsParity
<1> HIDE DEF s2
<1>5. s1.low \in Nat /\ s3.low \in Nat /\ s2.low \in Nat /\ s2.high \in Nat
  BY <1>1 DEF States
<1>6. s2.low % 2 = (m + 1) % 2
  BY <1>2, <1>3, <1>4, <1>5
<1>7. RngMod(s2, 2) = s2.low % 2
  BY <1>5 DEF RngMod
<1> QED
  BY <1>6, <1>7 DEF Draw2, s2, s3, s1

LEMMA ShuffledIs ==
    ASSUME NEW m \in Nat
    PROVE  /\ Draw3(m) \in 0..2 /\ Draw2(m) \in 0..1
           /\ Shuffled(m) = Orders[2 * Draw3(m) + Draw2(m) + 1]
<1> DEFINE a == Draw3(m)
           b == Draw2(m)
<1>1. a \in 0..2 /\ b \in 0..1
  <2>1. SeedOf(m) \in States
    BY LcgStates DEF SeedOf, States
  <2> QED
    BY <2>1, LcgStates, RngModIs DEF Draw3, Draw2
<1>2. Shuffled(m) = Swapped(Swapped(<<1, 2, 3>>, 3, a + 1), 2, b + 1)
  BY DEF Shuffled, Draw3, Draw2
<1> HIDE DEF a, b
<1>3. Shuffled(m) = Orders[2 * a + b + 1]
  <2>1. CASE a = 0 /\ b = 0
    BY <1>2, <2>1 DEF Swapped, Orders
  <2>2. CASE a = 0 /\ b = 1
    BY <1>2, <2>2 DEF Swapped, Orders
  <2>3. CASE a = 1 /\ b = 0
    BY <1>2, <2>3 DEF Swapped, Orders
  <2>4. CASE a = 1 /\ b = 1
    BY <1>2, <2>4 DEF Swapped, Orders
  <2>5. CASE a = 2 /\ b = 0
    BY <1>2, <2>5 DEF Swapped, Orders
  <2>6. CASE a = 2 /\ b = 1
    BY <1>2, <2>6 DEF Swapped, Orders
  <2>7. a \in {0, 1, 2} /\ b \in {0, 1}
    BY <1>1
  <2> QED
    BY <2>1, <2>2, <2>3, <2>4, <2>5, <2>6, <2>7
<1> QED
  BY <1>1, <1>3 DEF a, b

\* The place of the right answer of lesson i of path t.
PlaceAt(t, i) == PlaceOf(LessonOf(BackendTrees[t][i]).right, Shuffled(BackendTrees[t][i]))

LEMMA IdsAreNumbers == \A m \in 0..110 : m \in Nat
  OBVIOUS

LEMMA PlaceIs ==
    ASSUME NEW t \in 1..9, NEW i \in 1..Len(BackendTrees[t]), NEW p \in 1..3,
           Orders[Number(BackendTrees[t][i])][p] = Right(BackendTrees[t][i])
    PROVE  PlaceAt(t, i) = p
<1> DEFINE m == BackendTrees[t][i]
<1>1. m \in 0..110
  BY TablesAgree
<1>2. LessonOf(m).right = Right(m)
  BY <1>1, LessonsAre
<1>3. Shuffled(m) = Orders[Number(m)] /\ Number(m) \in 1..6
  <2> HIDE DEF m
  <2>1. m \in Nat
    BY <1>1, IdsAreNumbers
  <2>2. Number(m) = 2 * Draw3(m) + Draw2(m) + 1
    BY <2>1, SecondDraw DEF Number
  <2> QED
    BY <2>1, <2>2, ShuffledIs
<1>4. \A k \in 1..6 : \A q \in 1..3 : Orders[k][q] = Orders[k][p] => q = p
  BY DEF Orders
<1> QED
  BY <1>2, <1>3, <1>4 DEF PlaceAt, PlaceOf, Options

\* If what stands at p has a partner elsewhere, each its own, it is half of them at most.
LEMMA HalfAtMost ==
    ASSUME NEW n \in Nat, NEW S \in SUBSET (1..n), NEW partner,
           \A i \in 1..n : partner[i] \in 1..n /\ partner[partner[i]] = i,
           \A i \in S : partner[i] \notin S
    PROVE  2 * Cardinality(S) <= n
<1> DEFINE rest == (1..n) \ S
           f == [i \in S |-> partner[i]]
<1>1. IsFiniteSet(1..n) /\ Cardinality(1..n) = n
  BY FS_Interval
<1>2. IsFiniteSet(S) /\ IsFiniteSet(rest)
  BY <1>1, FS_Subset
<1>3. Cardinality(rest) = n - Cardinality(S)
  BY <1>1, (1..n) \cap S = S, FS_Difference
<1>4. f \in Injection(S, rest)
  BY DEF Injection, IsInjective
<1>5. Cardinality(S) <= Cardinality(rest)
  BY <1>2, <1>4, FS_Injection
<1> QED
  BY <1>2, <1>3, <1>5, FS_CardinalityType

\* No position has more than half of the right answers of path t.
Even(t) ==
    \A p \in 1..Options :
        2 * Cardinality({i \in 1..Len(BackendTrees[t]) : PlaceAt(t, i) = p})
            <= Len(BackendTrees[t])

\* The place of each lesson's right answer, path by path.
Places == <<
    <<2, 1, 1, 2, 2, 1, 1, 3, 3, 2, 2>>,
    <<2, 1, 3, 1, 2, 2, 1, 3, 2, 2, 3, 1>>,
    <<1, 3, 1, 3, 1, 2, 3, 2, 1, 2, 1, 3, 1, 3>>,
    <<3, 3, 2, 3, 2, 3, 2, 1, 2, 3, 1, 2, 2, 2, 3, 1>>,
    <<3, 2, 1, 3, 2, 1, 2, 1, 3, 3>>,
    <<1, 2, 3, 2, 1, 3, 1, 2, 1, 1, 1, 3, 2, 3, 2>>,
    <<2, 3, 2, 2, 1, 1, 1, 2, 3, 2, 3, 3>>,
    <<2, 1, 1, 3, 1, 2, 3, 2, 3, 2, 1, 1, 1, 2, 2>>,
    <<3, 1, 2, 3, 2, 1>>>>

\* For each path and each place, a partner for every lesson: where the right answer of the
\* one stands at that place, that of the other does not.
Partners == <<
    <<<<2, 1, 4, 3, 6, 5, 8, 7, 9, 10, 11>>,
      <<2, 1, 4, 3, 6, 5, 10, 11, 9, 7, 8>>,
      <<8, 9, 3, 4, 5, 6, 7, 1, 2, 10, 11>>>>,
    <<<<2, 1, 4, 3, 7, 12, 5, 8, 9, 10, 11, 6>>,
      <<2, 1, 5, 6, 3, 4, 9, 10, 7, 8, 11, 12>>,
      <<3, 8, 1, 11, 5, 6, 7, 2, 9, 10, 4, 12>>>>,
    <<<<2, 1, 4, 3, 6, 5, 9, 11, 7, 13, 8, 12, 10, 14>>,
      <<6, 8, 10, 4, 5, 1, 7, 2, 9, 3, 11, 12, 13, 14>>,
      <<2, 1, 4, 3, 7, 12, 5, 14, 9, 10, 11, 6, 13, 8>>>>,
    <<<<8, 11, 16, 4, 5, 6, 7, 1, 9, 10, 2, 12, 13, 14, 15, 3>>,
      <<3, 5, 1, 7, 2, 9, 4, 12, 6, 13, 14, 8, 10, 11, 15, 16>>,
      <<3, 5, 1, 7, 2, 8, 4, 6, 10, 9, 15, 12, 13, 14, 11, 16>>>>,
    <<<<3, 6, 1, 8, 5, 2, 7, 4, 9, 10>>,
      <<2, 1, 5, 7, 3, 6, 4, 8, 9, 10>>,
      <<2, 1, 4, 3, 9, 10, 7, 8, 5, 6>>>>,
    <<<<2, 1, 5, 7, 3, 9, 4, 10, 6, 8, 12, 11, 13, 14, 15>>,
      <<2, 1, 4, 3, 8, 13, 15, 5, 9, 10, 11, 12, 6, 14, 7>>,
      <<3, 6, 1, 12, 14, 2, 7, 8, 9, 10, 11, 4, 13, 5, 15>>>>,
    <<<<5, 6, 7, 4, 1, 2, 3, 8, 9, 10, 11, 12>>,
      <<2, 1, 5, 6, 3, 4, 8, 7, 10, 9, 11, 12>>,
      <<2, 1, 9, 11, 12, 6, 7, 8, 3, 10, 4, 5>>>>,
    <<<<2, 1, 4, 3, 6, 5, 11, 12, 13, 10, 7, 8, 9, 14, 15>>,
      <<2, 1, 6, 8, 10, 3, 14, 4, 15, 5, 11, 12, 13, 7, 9>>,
      <<4, 7, 9, 1, 5, 6, 2, 8, 3, 10, 11, 12, 13, 14, 15>>>>,
    <<<<2, 1, 6, 4, 5, 3>>,
      <<3, 5, 1, 4, 2, 6>>,
      <<2, 1, 4, 3, 5, 6>>>>>>

\* The tables are right about path t.
Placed(t) == \A i \in 1..Len(BackendTrees[t]) : PlaceAt(t, i) = Places[t][i]

Partnered(t) ==
    \A p \in 1..3 : \A i \in 1..Len(BackendTrees[t]) :
        /\ Partners[t][p][i] \in 1..Len(BackendTrees[t])
        /\ Partners[t][p][Partners[t][p][i]] = i
        /\ Places[t][i] = p => Places[t][Partners[t][p][i]] # p

\* Then no position has more than half.
LEMMA EvenBy ==
    ASSUME NEW t \in 1..9, Placed(t), Partnered(t)
    PROVE  Even(t)
<1> DEFINE n == Len(BackendTrees[t])
<1>1. n \in Nat
  BY TablesAgree
<1>2. ASSUME NEW p \in 1..3
      PROVE  2 * Cardinality({i \in 1..n : PlaceAt(t, i) = p}) <= n
  <2> DEFINE S == {i \in 1..n : PlaceAt(t, i) = p}
             partner == Partners[t][p]
  <2>1. S \in SUBSET (1..n)
    OBVIOUS
  <2>2. \A i \in 1..n : partner[i] \in 1..n /\ partner[partner[i]] = i
    BY DEF Partnered
  <2>3. ASSUME NEW i \in S PROVE partner[i] \notin S
    <3>1. i \in 1..n /\ Places[t][i] = p
      BY DEF Placed
    <3>2. Places[t][partner[i]] # p
      BY <3>1 DEF Partnered
    <3> QED
      BY <3>2 DEF Placed
  <2> HIDE DEF n, S, partner
  <2>4. 2 * Cardinality(S) <= n
    BY <1>1, <2>1, <2>2, <2>3, HalfAtMost
  <2> QED
    BY <2>4 DEF S
<1> QED
  BY <1>2 DEF Even, Options

LEMMA EvenMoney == Even(1)
<1> DEFINE draws == <<2, 0, 1, 2, 1, 1, 2, 0, 1, 0, 2>>
           numbers == <<6, 1, 3, 6, 4, 3, 5, 2, 4, 2, 6>>
<1>1. Len(BackendTrees[1]) = 11
  BY DEF BackendTrees
<1>2. \A i \in 1..11 : Draw3(BackendTrees[1][i]) = draws[i]
  BY DEF BackendTrees, Draw3, Lcg, SeedOf, RngMod
<1>3. \A i \in 1..11 : 2 * draws[i] + ((BackendTrees[1][i] + 1) % 2) + 1 = numbers[i]
  BY DEF BackendTrees
<1>4. \A i \in 1..11 : Places[1][i] \in 1..3
  BY DEF Places
<1>5. \A i \in 1..11 : Orders[numbers[i]][Places[1][i]] = Right(BackendTrees[1][i])
  BY DEF Orders, BackendTrees, Right, Places
<1> HIDE DEF draws, numbers
<1>6. Placed(1)
  <2> SUFFICES ASSUME NEW i \in 1..11 PROVE PlaceAt(1, i) = Places[1][i]
    BY <1>1 DEF Placed
  <2>1. Number(BackendTrees[1][i]) = numbers[i]
    BY <1>2, <1>3 DEF Number
  <2>2. Orders[Number(BackendTrees[1][i])][Places[1][i]] = Right(BackendTrees[1][i])
    BY <1>5, <2>1
  <2>3. i \in 1..Len(BackendTrees[1]) /\ Places[1][i] \in 1..3
    BY <1>1, <1>4
  <2> QED
    BY <2>2, <2>3, PlaceIs
<1>7. Partnered(1)
  BY <1>1 DEF Partnered, Places, Partners
<1> QED
  BY <1>6, <1>7, EvenBy

LEMMA EvenBitcoin == Even(2)
<1> DEFINE draws == <<2, 0, 1, 2, 0, 2, 0, 1, 1, 2, 1, 2>>
           numbers == <<6, 1, 4, 5, 2, 6, 1, 3, 4, 6, 4, 5>>
<1>1. Len(BackendTrees[2]) = 12
  BY DEF BackendTrees
<1>2. \A i \in 1..12 : Draw3(BackendTrees[2][i]) = draws[i]
  BY DEF BackendTrees, Draw3, Lcg, SeedOf, RngMod
<1>3. \A i \in 1..12 : 2 * draws[i] + ((BackendTrees[2][i] + 1) % 2) + 1 = numbers[i]
  BY DEF BackendTrees
<1>4. \A i \in 1..12 : Places[2][i] \in 1..3
  BY DEF Places
<1>5. \A i \in 1..12 : Orders[numbers[i]][Places[2][i]] = Right(BackendTrees[2][i])
  BY DEF Orders, BackendTrees, Right, Places
<1> HIDE DEF draws, numbers
<1>6. Placed(2)
  <2> SUFFICES ASSUME NEW i \in 1..12 PROVE PlaceAt(2, i) = Places[2][i]
    BY <1>1 DEF Placed
  <2>1. Number(BackendTrees[2][i]) = numbers[i]
    BY <1>2, <1>3 DEF Number
  <2>2. Orders[Number(BackendTrees[2][i])][Places[2][i]] = Right(BackendTrees[2][i])
    BY <1>5, <2>1
  <2>3. i \in 1..Len(BackendTrees[2]) /\ Places[2][i] \in 1..3
    BY <1>1, <1>4
  <2> QED
    BY <2>2, <2>3, PlaceIs
<1>7. Partnered(2)
  BY <1>1 DEF Partnered, Places, Partners
<1> QED
  BY <1>6, <1>7, EvenBy

LEMMA EvenLightning == Even(3)
<1> DEFINE draws == <<0, 1, 0, 1, 2, 0, 1, 2, 2, 0, 0, 1, 2, 1>>
           numbers == <<1, 4, 1, 4, 5, 2, 3, 6, 5, 2, 1, 3, 5, 3>>
<1>1. Len(BackendTrees[3]) = 14
  BY DEF BackendTrees
<1>2. \A i \in 1..14 : Draw3(BackendTrees[3][i]) = draws[i]
  BY DEF BackendTrees, Draw3, Lcg, SeedOf, RngMod
<1>3. \A i \in 1..14 : 2 * draws[i] + ((BackendTrees[3][i] + 1) % 2) + 1 = numbers[i]
  BY DEF BackendTrees
<1>4. \A i \in 1..14 : Places[3][i] \in 1..3
  BY DEF Places
<1>5. \A i \in 1..14 : Orders[numbers[i]][Places[3][i]] = Right(BackendTrees[3][i])
  BY DEF Orders, BackendTrees, Right, Places
<1> HIDE DEF draws, numbers
<1>6. Placed(3)
  <2> SUFFICES ASSUME NEW i \in 1..14 PROVE PlaceAt(3, i) = Places[3][i]
    BY <1>1 DEF Placed
  <2>1. Number(BackendTrees[3][i]) = numbers[i]
    BY <1>2, <1>3 DEF Number
  <2>2. Orders[Number(BackendTrees[3][i])][Places[3][i]] = Right(BackendTrees[3][i])
    BY <1>5, <2>1
  <2>3. i \in 1..Len(BackendTrees[3]) /\ Places[3][i] \in 1..3
    BY <1>1, <1>4
  <2> QED
    BY <2>2, <2>3, PlaceIs
<1>7. Partnered(3)
  BY <1>1 DEF Partnered, Places, Partners
<1> QED
  BY <1>6, <1>7, EvenBy

LEMMA EvenNostr == Even(4)
<1> DEFINE draws == <<0, 1, 2, 1, 0, 1, 2, 0, 2, 1, 2, 0, 2, 0, 1, 0>>
           numbers == <<1, 4, 5, 3, 2, 3, 6, 1, 6, 4, 5, 2, 5, 2, 3, 1>>
<1>1. Len(BackendTrees[4]) = 16
  BY DEF BackendTrees
<1>2. \A i \in 1..16 : Draw3(BackendTrees[4][i]) = draws[i]
  BY DEF BackendTrees, Draw3, Lcg, SeedOf, RngMod
<1>3. \A i \in 1..16 : 2 * draws[i] + ((BackendTrees[4][i] + 1) % 2) + 1 = numbers[i]
  BY DEF BackendTrees
<1>4. \A i \in 1..16 : Places[4][i] \in 1..3
  BY DEF Places
<1>5. \A i \in 1..16 : Orders[numbers[i]][Places[4][i]] = Right(BackendTrees[4][i])
  BY DEF Orders, BackendTrees, Right, Places
<1> HIDE DEF draws, numbers
<1>6. Placed(4)
  <2> SUFFICES ASSUME NEW i \in 1..16 PROVE PlaceAt(4, i) = Places[4][i]
    BY <1>1 DEF Placed
  <2>1. Number(BackendTrees[4][i]) = numbers[i]
    BY <1>2, <1>3 DEF Number
  <2>2. Orders[Number(BackendTrees[4][i])][Places[4][i]] = Right(BackendTrees[4][i])
    BY <1>5, <2>1
  <2>3. i \in 1..Len(BackendTrees[4]) /\ Places[4][i] \in 1..3
    BY <1>1, <1>4
  <2> QED
    BY <2>2, <2>3, PlaceIs
<1>7. Partnered(4)
  BY <1>1 DEF Partnered, Places, Partners
<1> QED
  BY <1>6, <1>7, EvenBy

LEMMA EvenEcash == Even(5)
<1> DEFINE draws == <<1, 2, 0, 1, 2, 2, 0, 0, 1, 1>>
           numbers == <<3, 6, 1, 4, 6, 5, 2, 1, 3, 4>>
<1>1. Len(BackendTrees[5]) = 10
  BY DEF BackendTrees
<1>2. \A i \in 1..10 : Draw3(BackendTrees[5][i]) = draws[i]
  BY DEF BackendTrees, Draw3, Lcg, SeedOf, RngMod
<1>3. \A i \in 1..10 : 2 * draws[i] + ((BackendTrees[5][i] + 1) % 2) + 1 = numbers[i]
  BY DEF BackendTrees
<1>4. \A i \in 1..10 : Places[5][i] \in 1..3
  BY DEF Places
<1>5. \A i \in 1..10 : Orders[numbers[i]][Places[5][i]] = Right(BackendTrees[5][i])
  BY DEF Orders, BackendTrees, Right, Places
<1> HIDE DEF draws, numbers
<1>6. Placed(5)
  <2> SUFFICES ASSUME NEW i \in 1..10 PROVE PlaceAt(5, i) = Places[5][i]
    BY <1>1 DEF Placed
  <2>1. Number(BackendTrees[5][i]) = numbers[i]
    BY <1>2, <1>3 DEF Number
  <2>2. Orders[Number(BackendTrees[5][i])][Places[5][i]] = Right(BackendTrees[5][i])
    BY <1>5, <2>1
  <2>3. i \in 1..Len(BackendTrees[5]) /\ Places[5][i] \in 1..3
    BY <1>1, <1>4
  <2> QED
    BY <2>2, <2>3, PlaceIs
<1>7. Partnered(5)
  BY <1>1 DEF Partnered, Places, Partners
<1> QED
  BY <1>6, <1>7, EvenBy

LEMMA EvenSelfCustody == Even(6)
<1> DEFINE draws == <<2, 0, 1, 2, 0, 1, 2, 2, 2, 1, 2, 1, 2, 1, 0>>
           numbers == <<5, 2, 3, 6, 1, 4, 5, 6, 5, 4, 5, 3, 6, 3, 2>>
<1>1. Len(BackendTrees[6]) = 15
  BY DEF BackendTrees
<1>2. \A i \in 1..15 : Draw3(BackendTrees[6][i]) = draws[i]
  BY DEF BackendTrees, Draw3, Lcg, SeedOf, RngMod
<1>3. \A i \in 1..15 : 2 * draws[i] + ((BackendTrees[6][i] + 1) % 2) + 1 = numbers[i]
  BY DEF BackendTrees
<1>4. \A i \in 1..15 : Places[6][i] \in 1..3
  BY DEF Places
<1>5. \A i \in 1..15 : Orders[numbers[i]][Places[6][i]] = Right(BackendTrees[6][i])
  BY DEF Orders, BackendTrees, Right, Places
<1> HIDE DEF draws, numbers
<1>6. Placed(6)
  <2> SUFFICES ASSUME NEW i \in 1..15 PROVE PlaceAt(6, i) = Places[6][i]
    BY <1>1 DEF Placed
  <2>1. Number(BackendTrees[6][i]) = numbers[i]
    BY <1>2, <1>3 DEF Number
  <2>2. Orders[Number(BackendTrees[6][i])][Places[6][i]] = Right(BackendTrees[6][i])
    BY <1>5, <2>1
  <2>3. i \in 1..Len(BackendTrees[6]) /\ Places[6][i] \in 1..3
    BY <1>1, <1>4
  <2> QED
    BY <2>2, <2>3, PlaceIs
<1>7. Partnered(6)
  BY <1>1 DEF Partnered, Places, Partners
<1> QED
  BY <1>6, <1>7, EvenBy

LEMMA EvenPrivacy == Even(7)
<1> DEFINE draws == <<2, 1, 2, 2, 0, 1, 2, 0, 1, 2, 0, 1>>
           numbers == <<6, 3, 6, 6, 1, 4, 5, 2, 3, 6, 1, 4>>
<1>1. Len(BackendTrees[7]) = 12
  BY DEF BackendTrees
<1>2. \A i \in 1..12 : Draw3(BackendTrees[7][i]) = draws[i]
  BY DEF BackendTrees, Draw3, Lcg, SeedOf, RngMod
<1>3. \A i \in 1..12 : 2 * draws[i] + ((BackendTrees[7][i] + 1) % 2) + 1 = numbers[i]
  BY DEF BackendTrees
<1>4. \A i \in 1..12 : Places[7][i] \in 1..3
  BY DEF Places
<1>5. \A i \in 1..12 : Orders[numbers[i]][Places[7][i]] = Right(BackendTrees[7][i])
  BY DEF Orders, BackendTrees, Right, Places
<1> HIDE DEF draws, numbers
<1>6. Placed(7)
  <2> SUFFICES ASSUME NEW i \in 1..12 PROVE PlaceAt(7, i) = Places[7][i]
    BY <1>1 DEF Placed
  <2>1. Number(BackendTrees[7][i]) = numbers[i]
    BY <1>2, <1>3 DEF Number
  <2>2. Orders[Number(BackendTrees[7][i])][Places[7][i]] = Right(BackendTrees[7][i])
    BY <1>5, <2>1
  <2>3. i \in 1..Len(BackendTrees[7]) /\ Places[7][i] \in 1..3
    BY <1>1, <1>4
  <2> QED
    BY <2>2, <2>3, PlaceIs
<1>7. Partnered(7)
  BY <1>1 DEF Partnered, Places, Partners
<1> QED
  BY <1>6, <1>7, EvenBy

LEMMA EvenSovereignty == Even(8)
<1> DEFINE draws == <<0, 0, 0, 1, 2, 0, 1, 0, 1, 2, 0, 1, 2, 0, 0>>
           numbers == <<2, 1, 1, 4, 5, 2, 3, 2, 3, 6, 1, 4, 5, 2, 2>>
<1>1. Len(BackendTrees[8]) = 15
  BY DEF BackendTrees
<1>2. \A i \in 1..15 : Draw3(BackendTrees[8][i]) = draws[i]
  BY DEF BackendTrees, Draw3, Lcg, SeedOf, RngMod
<1>3. \A i \in 1..15 : 2 * draws[i] + ((BackendTrees[8][i] + 1) % 2) + 1 = numbers[i]
  BY DEF BackendTrees
<1>4. \A i \in 1..15 : Places[8][i] \in 1..3
  BY DEF Places
<1>5. \A i \in 1..15 : Orders[numbers[i]][Places[8][i]] = Right(BackendTrees[8][i])
  BY DEF Orders, BackendTrees, Right, Places
<1> HIDE DEF draws, numbers
<1>6. Placed(8)
  <2> SUFFICES ASSUME NEW i \in 1..15 PROVE PlaceAt(8, i) = Places[8][i]
    BY <1>1 DEF Placed
  <2>1. Number(BackendTrees[8][i]) = numbers[i]
    BY <1>2, <1>3 DEF Number
  <2>2. Orders[Number(BackendTrees[8][i])][Places[8][i]] = Right(BackendTrees[8][i])
    BY <1>5, <2>1
  <2>3. i \in 1..Len(BackendTrees[8]) /\ Places[8][i] \in 1..3
    BY <1>1, <1>4
  <2> QED
    BY <2>2, <2>3, PlaceIs
<1>7. Partnered(8)
  BY <1>1 DEF Partnered, Places, Partners
<1> QED
  BY <1>6, <1>7, EvenBy

LEMMA EvenOpenSource == Even(9)
<1> DEFINE draws == <<1, 2, 0, 1, 2, 0>>
           numbers == <<4, 5, 2, 3, 6, 1>>
<1>1. Len(BackendTrees[9]) = 6
  BY DEF BackendTrees
<1>2. \A i \in 1..6 : Draw3(BackendTrees[9][i]) = draws[i]
  BY DEF BackendTrees, Draw3, Lcg, SeedOf, RngMod
<1>3. \A i \in 1..6 : 2 * draws[i] + ((BackendTrees[9][i] + 1) % 2) + 1 = numbers[i]
  BY DEF BackendTrees
<1>4. \A i \in 1..6 : Places[9][i] \in 1..3
  BY DEF Places
<1>5. \A i \in 1..6 : Orders[numbers[i]][Places[9][i]] = Right(BackendTrees[9][i])
  BY DEF Orders, BackendTrees, Right, Places
<1> HIDE DEF draws, numbers
<1>6. Placed(9)
  <2> SUFFICES ASSUME NEW i \in 1..6 PROVE PlaceAt(9, i) = Places[9][i]
    BY <1>1 DEF Placed
  <2>1. Number(BackendTrees[9][i]) = numbers[i]
    BY <1>2, <1>3 DEF Number
  <2>2. Orders[Number(BackendTrees[9][i])][Places[9][i]] = Right(BackendTrees[9][i])
    BY <1>5, <2>1
  <2>3. i \in 1..Len(BackendTrees[9]) /\ Places[9][i] \in 1..3
    BY <1>1, <1>4
  <2> QED
    BY <2>2, <2>3, PlaceIs
<1>7. Partnered(9)
  BY <1>1 DEF Partnered, Places, Partners
<1> QED
  BY <1>6, <1>7, EvenBy

\* LearnerView.tsx, lines 1941-1945: no position is the right one in more than half of a
\* path, and the quiz shows each answer once, in the order its lesson's seed gives.
THEOREM PositionIsUseless == Spec => []PositionUseless
<1>1. \A t \in 1..9 : Even(t)
  BY EvenMoney, EvenBitcoin, EvenLightning, EvenNostr, EvenEcash, EvenSelfCustody,
     EvenPrivacy, EvenSovereignty, EvenOpenSource
<1>2. ASSUME Way, path # "none"
      PROVE  LET missions == Tree(path).missions
                 right(p) == {i \in 1..Len(missions) :
                                PlaceOf(LessonOf(missions[i]).right, Shuffled(missions[i])) = p}
             IN  \A p \in 1..Options : 2 * Cardinality(right(p)) <= Len(missions)
  <2>1. PICK t \in 1..9 : Tree(path).missions = BackendTrees[t]
    BY <1>2, OnTheWay
  <2>2. Even(t)
    BY <1>1
  <2> QED
    BY <2>1, <2>2 DEF Even, PlaceAt
<1>3. Way /\ QuizShown => PositionUseless
  BY <1>2 DEF PositionUseless
<1> QED
  BY <1>3, WayAlways, QuizShowsEachAnswerOnce, PTL
=============================================================================
