------------------------------ MODULE Curriculum ------------------------------
(***************************************************************************)
(* A learner's way through the real catalogue: the flight paths in any     *)
(* order, the lessons of a path in its order, the quiz of each lesson with *)
(* its answers shuffled, and what a Do step needs of earlier ones (the     *)
(* seed phrase, the Nostr key). A secret is made once, by a lesson that is *)
(* only reviewed afterwards, and kept by the browser it was made in: Exit, *)
(* Start fresh and another device leave the learner without it. The rank   *)
(* and the recommended next path are derived from what is cleared.         *)
(*                                                                         *)
(* One path is flown at a time, from its start: what is on record only     *)
(* grows, so leaving a path half-way gives a later lesson no less.         *)
(***************************************************************************)
EXTENDS Catalogue

VARIABLES
    path,     \* the path being flown, or "none"
    idx,      \* the lesson's position in it
    step,     \* "read", "shuffle", "quiz" or "do"
    order,    \* shuffleSeeded: the permutation being built
    rng,      \* shuffleSeeded: the generator's state, high and low part
    cursor,   \* shuffleSeeded: the loop counter, one more than in the code
    made,     \* the secrets that lessons on record have made
    held,     \* those of them this browser keeps
    cleared   \* the paths finished

secrets == <<made, held>>
vars == <<path, idx, step, order, rng, cursor, secrets, cleared>>

mission == Tree(path).missions[idx]
lesson == LessonOf(mission)

----------------------------------------------------------------------------
(* shuffleSeeded *)

\* s * 9301 + 49297 masked to 31 bits, on the 15 high and the 16 low bits of s.
Lcg(s) ==
    LET low == s.low * 9301 + 49297
    IN  [high |-> (s.high * 9301 + (low \div 65536)) % 32768, low |-> low % 65536]

\* s % n for a small n.
RngMod(s, n) == (s.high * (65536 % n) + s.low) % n

\* Faulty: the same shuffle for every lesson.
SeedOfFirst(m) == Lcg([high |-> 0, low |-> 0])

SeedOf(m) == Lcg([high |-> 0, low |-> m])

Swapped(seq, i, j) == [seq EXCEPT ![i] = seq[j], ![j] = seq[i]]

\* The whole loop at once, for three options.
Shuffled(m) ==
    LET s3 == Lcg(SeedOf(m))
        s2 == Lcg(s3)
    IN  Swapped(Swapped(<<1, 2, 3>>, 3, RngMod(s3, 3) + 1), 2, RngMod(s2, 2) + 1)

PlaceOf(option, shown) == CHOOSE p \in 1..Options : shown[p] = option

----------------------------------------------------------------------------
(* A lesson *)

\* Faulty: a path may be entered at any of its lessons.
FlyAnywhere(p) ==
    /\ path = "none" /\ p \notin cleared
    /\ path' = p /\ idx' \in 1..Len(Tree(p).missions) /\ step' = "read"
    /\ UNCHANGED <<order, rng, cursor, secrets, cleared>>

Fly(p) ==
    /\ path = "none" /\ p \notin cleared
    /\ path' = p /\ idx' = 1 /\ step' = "read"
    /\ UNCHANGED <<order, rng, cursor, secrets, cleared>>

ToQuiz ==
    /\ path # "none" /\ step = "read"
    /\ step' = "shuffle"
    /\ order' = [i \in 1..Options |-> i]
    /\ rng' = SeedOf(mission)
    /\ cursor' = Options
    /\ UNCHANGED <<path, idx, secrets, cleared>>

ShuffleStep ==
    /\ path # "none" /\ step = "shuffle"
    /\ \/ /\ cursor > 1
          /\ rng' = Lcg(rng)
          /\ order' = Swapped(order, cursor, RngMod(rng', cursor) + 1)
          /\ cursor' = cursor - 1
          /\ UNCHANGED step
       \/ cursor = 1 /\ step' = "quiz" /\ UNCHANGED <<order, rng, cursor>>
    /\ UNCHANGED <<path, idx, secrets, cleared>>

\* The right answer opens the Do step, a wrong one sends the learner back to the lesson.
Answer(p) ==
    /\ path # "none" /\ step = "quiz"
    /\ step' = IF order[p] = lesson.right THEN "do" ELSE "read"
    /\ UNCHANGED <<path, idx, order, rng, cursor, secrets, cleared>>

Needs(kind) ==
    CASE kind \in {"derive-address", "passphrase-fork"} -> {"seed"}
      [] kind \in {"sign-event", "nostr-publish", "nostr-profile", "nostr-follow"} -> {"nsec"}
      [] OTHER -> {}

Makes(kind) == CASE kind = "seed-words" -> {"seed"}
                 [] kind = "nostr-identity" -> {"nsec"}
                 [] OTHER -> {}

\* The page asks for a missing key, and keeps the one that is pasted; not for a seed.
AsksBack == {"nsec"}

\* A Do step that lacks its secret only shows an error. The last one clears the path.
DoStep ==
    /\ path # "none" /\ step = "do"
    /\ Needs(lesson.kind) \subseteq held \cup (made \cap AsksBack)
    /\ made' = made \cup Makes(lesson.kind)
    /\ held' = held \cup Needs(lesson.kind) \cup Makes(lesson.kind)
    /\ step' = "read"
    /\ IF idx < Len(Tree(path).missions)
       THEN idx' = idx + 1 /\ UNCHANGED <<path, cleared>>
       ELSE idx' = 1 /\ path' = "none" /\ cleared' = cleared \cup {path}
    /\ UNCHANGED <<order, rng, cursor>>

\* A cleared browser, or one of another device, with what it still holds. The learner is
\* back at the lesson that the record says is next.
ChangeBrowser ==
    /\ held' \in SUBSET made \ {held}
    /\ step' = "read"
    /\ UNCHANGED <<path, idx, order, rng, cursor, made, cleared>>

\* Every path is cleared: there is nothing left to do.
Finished == cleared = Paths /\ UNCHANGED vars

----------------------------------------------------------------------------
(* Rank and recommendation *)

RankLadder == <<"cadet", "pilot", "captain", "commander">>

RemainingOf(difficulty, earned) ==
    {p \in Paths : Tree(p).difficulty = difficulty /\ p \notin earned}

\* Faulty: captain only asks for the intermediate paths.
RankForSkipsBeginner(earned) ==
    LET beginner == RemainingOf("Beginner", earned)
        intermediate == RemainingOf("Intermediate", earned)
        advanced == RemainingOf("Advanced", earned)
    IN  CASE beginner \cup intermediate \cup advanced = {} -> [rank |-> 4, next |-> {}]
          [] intermediate = {} -> [rank |-> 3, next |-> advanced]
          [] beginner = {} -> [rank |-> 2, next |-> intermediate]
          [] OTHER -> [rank |-> 1, next |-> beginner]

\* The rank and the paths the card says are left until the next one.
RankFor(earned) ==
    LET beginner == RemainingOf("Beginner", earned)
        intermediate == RemainingOf("Intermediate", earned)
        advanced == RemainingOf("Advanced", earned)
    IN  CASE beginner # {} -> [rank |-> 1, next |-> beginner]
          [] beginner = {} /\ intermediate # {} -> [rank |-> 2, next |-> intermediate]
          [] beginner \cup intermediate = {} /\ advanced # {} -> [rank |-> 3, next |-> advanced]
          [] OTHER -> [rank |-> 4, next |-> {}]

\* TreePicker: the first unfinished path in the goal's order, if any.
UpNext(goal) ==
    LET left == {i \in 1..Len(GOALS[goal]) : GOALS[goal][i] \notin cleared}
    IN  IF left = {} THEN "none"
        ELSE GOALS[goal][CHOOSE i \in left : \A j \in left : i <= j]

\* Faulty: a path without a recommended one counts as waiting for it.
NudgedWhenMissing(p) == Tree(p).after \notin cleared

\* TreePicker: a path not begun carries "finish X first" while X is unfinished.
Nudged(p) == Tree(p).after # "none" /\ Tree(p).after \notin cleared

----------------------------------------------------------------------------
Init ==
    /\ path = "none" /\ idx = 1 /\ step = "read"
    /\ order = <<1, 2, 3>> /\ rng = [high |-> 0, low |-> 0] /\ cursor = 1
    /\ made = {} /\ held = {} /\ cleared = {}

Next ==
    \/ \E p \in Paths : Fly(p)
    \/ ToQuiz \/ ShuffleStep \/ (\E p \in 1..Options : Answer(p)) \/ DoStep
    \/ ChangeBrowser \/ Finished

Spec == Init /\ [][Next]_vars

----------------------------------------------------------------------------
(* Properties *)

\* types.ts and mission.rs each list the paths and classify the lessons, and "must agree":
\* the lesson on the screen is the one the server's gate expects next, belongs to no other
\* path, and is verified as what the learner is asked to do (106 is left unjudged by the
\* verifier on purpose, mission.rs lines 464-467).
MirrorsAgree ==
    path # "none" /\ step = "read" =>
        /\ \E t \in 1..Len(BackendTrees) :
              /\ TREES[t].key = path
              /\ BackendTrees[t] = Tree(path).missions
              /\ \A u \in 1..Len(BackendTrees) \ {t} :
                    \A i \in 1..Len(BackendTrees[u]) : BackendTrees[u][i] # mission
        /\ mission # 106 => lesson.kind = DoKind(mission)

\* In whatever order the paths are flown, no lesson asks for a seed phrase or a key that no
\* lesson on record made: short of it is only who is in a browser without it. A key can
\* then be pasted; a seed cannot, though the error (LearnerView.tsx, lines 632 and 658)
\* sends the learner to a lesson that is by then in review.
GivenBefore == path # "none" /\ step = "do" => Needs(lesson.kind) \subseteq made

\* What the quiz shows: each answer once, in the order the seed of its lesson gives.
QuizShown ==
    step = "quiz" => {order[p] : p \in 1..Options} = 1..Options /\ order = Shuffled(mission)

\* LearnerView.tsx, lines 1941-1945: the shuffle is there "so position alone (e.g. always
\* B) can never be the right answer": the quiz shows each answer once, in the order the seed
\* of its lesson gives, and no position is right in more than half of a path.
PositionUseless ==
    /\ QuizShown
    /\ path # "none" /\ idx = 1 =>
        LET missions == Tree(path).missions
            right(p) == {i \in 1..Len(missions) :
                           PlaceOf(LessonOf(missions[i]).right, Shuffled(missions[i])) = p}
        IN  \A p \in 1..Options : 2 * Cardinality(right(p)) <= Len(missions)

\* What the rank card promises: clearing exactly the paths it names as left brings at least
\* the next rank, and until the top there is always one named.
RankPromise ==
    LET now == RankFor(cleared) IN
    IF now.rank = Len(RankLadder) THEN cleared = Paths
    ELSE /\ now.next # {} /\ now.next \cap cleared = {}
         /\ RankFor(cleared \cup now.next).rank > now.rank

\* While a path is unfinished, every goal points at one, and one of those not begun is
\* free of a "finish X first": the recommendations never send a learner round in circles.
AlwaysAWayIn ==
    cleared # Paths =>
        /\ \A goal \in DOMAIN GOALS : UpNext(goal) \in Paths \ cleared
        /\ \E p \in Paths \ cleared : ~Nudged(p)

===============================================================================
