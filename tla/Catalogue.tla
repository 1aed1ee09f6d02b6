------------------------------ MODULE Catalogue ------------------------------
(***************************************************************************)
(* The curriculum as the frontend (lib/types.ts, lib/goals.ts) and the     *)
(* backend (models/mission.rs) each write it down: which lessons make up a *)
(* flight path and in which order, what each lesson's Do step is, and      *)
(* where its author put the right one of three answers. The teaching text  *)
(* is left out. Lesson n of the catalogue is Lessons[n + 1].               *)
(***************************************************************************)
EXTENDS Naturals, Sequences, FiniteSets

\* A lesson that is only read, and one with an action; both with the right answer's place.
Do(kind, right) == [kind |-> kind, right |-> right]
Read(right) == Do("knowledge", right)

Lessons0to5 == <<
    Read(2), Read(2), Read(3), Read(2), Read(2), Read(3)>>
Lessons6to10 == <<
    Do("chain-tip", 2), Read(2), Read(2), Read(2), Read(1)>>
Lessons11to16 == <<
    Do("seed-words", 2), Read(2), Read(1), Do("nostr-identity", 2), Read(1), Read(2)>>
Lessons17to22 == <<
    Do("sign-event", 2), Read(2), Read(2), Read(2), Read(2), Read(2)>>
Lessons23to27 == <<
    Do("invoice", 2), Do("pay", 2), Read(2), Do("nostr-publish", 2),
    Do("nostr-profile", 2)>>
Lessons28to33 == <<
    Read(2), Read(2), Do("nostr-follow", 2), Read(2), Read(2), Do("ecash-claim", 2)>>
Lessons34to39 == <<
    Do("ecash-spend", 2), Read(1), Do("nostr-zap", 2), Read(2), Read(2), Read(2)>>
Lessons40to44 == <<
    Read(3), Do("derive-address", 2), Do("onchain-signet", 2), Read(2), Read(2)>>
Lessons45to50 == <<
    Read(2), Read(2), Read(2), Read(2), Read(2), Read(2)>>
Lessons51to56 == <<
    Do("address-reuse", 2), Read(2), Read(2), Read(2), Read(2), Read(2)>>
Lessons57to62 == <<
    Read(2), Read(2), Read(2), Read(1), Read(2), Read(2)>>
Lessons63to68 == <<
    Read(2), Read(2), Read(1), Read(2), Read(2), Read(2)>>
Lessons69to74 == <<
    Read(2), Read(2), Read(2), Read(2), Read(2), Read(1)>>
Lessons75to80 == <<
    Read(2), Read(2), Read(3), Read(2), Read(2), Read(2)>>
Lessons81to86 == <<
    Read(2), Read(2), Read(2), Read(2), Read(2), Read(2)>>
Lessons87to92 == <<
    Read(2), Read(2), Read(2), Read(2), Read(2), Do("passphrase-fork", 2)>>
Lessons93to98 == <<
    Read(2), Read(1), Read(2), Read(2), Read(2), Read(2)>>
Lessons99to103 == <<
    Read(2), Read(2), Read(2), Do("paste-value", 2), Do("paste-value", 2)>>
Lessons104to108 == <<
    Do("paste-value", 2), Do("github-pr", 2), Do("paste-value", 2), Read(2), Read(2)>>
Lessons109to110 == <<
    Read(2), Read(2)>>

\* MISSIONS, ordered by id.
Lessons ==
    Lessons0to5 \o Lessons6to10 \o Lessons11to16 \o Lessons17to22 \o Lessons23to27
    \o Lessons28to33 \o Lessons34to39 \o Lessons40to44 \o Lessons45to50
    \o Lessons51to56 \o Lessons57to62 \o Lessons63to68 \o Lessons69to74
    \o Lessons75to80 \o Lessons81to86 \o Lessons87to92 \o Lessons93to98
    \o Lessons99to103 \o Lessons104to108 \o Lessons109to110

Options == 3
MissionCount == Len(Lessons)
MissionIds == 0..(MissionCount - 1)
LessonOf(m) == Lessons[m + 1]

----------------------------------------------------------------------------
\* A flight path: key, lessons, difficulty and the path recommended before it.
Flight(key, missions, difficulty, after) ==
    [key |-> key, missions |-> missions, difficulty |-> difficulty, after |-> after]

TREES == <<
    Flight("money", <<0, 1, 77, 78, 2, 5, 9, 10, 106, 108, 110>>, "Beginner", "none"),
    Flight("bitcoin", <<6, 7, 8, 87, 88, 18, 19, 89, 40, 90, 48, 49>>, "Beginner", "money"),
    Flight("lightning", <<21, 22, 79, 80, 23, 24, 25, 38, 81, 82, 39, 83, 107, 109>>,
           "Intermediate", "bitcoin"),
    Flight("nostr", <<13, 14, 15, 97, 16, 17, 26, 27, 98, 28, 29, 30, 35, 36, 37, 99>>,
           "Intermediate", "none"),
    Flight("ecash", <<31, 32, 33, 34, 84, 55, 56, 85, 57, 86>>, "Intermediate", "lightning"),
    Flight("self-custody", <<3, 4, 11, 12, 91, 92, 93, 20, 41, 94, 95, 43, 44, 45, 96>>,
           "Advanced", "bitcoin"),
    Flight("privacy", <<46, 51, 52, 58, 59, 60, 61, 62, 63, 64, 65, 66>>, "Advanced",
           "bitcoin"),
    Flight("sovereignty", <<42, 47, 53, 54, 67, 68, 69, 70, 71, 72, 73, 74, 75, 76, 50>>,
           "Advanced", "self-custody"),
    Flight("open-source", <<100, 101, 102, 103, 104, 105>>, "Advanced", "bitcoin")>>

Paths == {TREES[i].key : i \in 1..Len(TREES)}
Tree(key) == CHOOSE t \in {TREES[i] : i \in 1..Len(TREES)} : t.key = key

\* The order a learner's goal recommends the paths in.
GOALS == [
    curious |-> <<"money", "bitcoin", "self-custody", "lightning", "privacy", "ecash",
                  "nostr", "open-source", "sovereignty">>,
    builder |-> <<"bitcoin", "lightning", "nostr", "ecash", "self-custody", "open-source",
                  "money", "privacy", "sovereignty">>,
    privacy |-> <<"money", "bitcoin", "privacy", "self-custody", "ecash", "lightning",
                  "nostr", "open-source", "sovereignty">>]

----------------------------------------------------------------------------
(* The backend's tables *)

\* Tree::missions, in the order of Tree::ALL.
BackendTrees == <<
    <<0, 1, 77, 78, 2, 5, 9, 10, 106, 108, 110>>,
    <<6, 7, 8, 87, 88, 18, 19, 89, 40, 90, 48, 49>>,
    <<21, 22, 79, 80, 23, 24, 25, 38, 81, 82, 39, 83, 107, 109>>,
    <<13, 14, 15, 97, 16, 17, 26, 27, 98, 28, 29, 30, 35, 36, 37, 99>>,
    <<31, 32, 33, 34, 84, 55, 56, 85, 57, 86>>,
    <<3, 4, 11, 12, 91, 92, 93, 20, 41, 94, 95, 43, 44, 45, 96>>,
    <<46, 51, 52, 58, 59, 60, 61, 62, 63, 64, 65, 66>>,
    <<42, 47, 53, 54, 67, 68, 69, 70, 71, 72, 73, 74, 75, 76, 50>>,
    <<100, 101, 102, 103, 104, 105>>>>

\* Faulty: the arms of the knowledge run are listed first and take lesson 17 along.
DoKindShadowed(m) ==
    CASE m = 14 -> "nostr-identity" [] m = 11 -> "seed-words" [] OTHER -> "knowledge"

\* Mission::do_kind: what the verifier of a lesson's proof takes it for.
DoKind(m) ==
    CASE m = 17 -> "sign-event"         [] m = 92 -> "passphrase-fork"
      [] m = 6 -> "chain-tip"           [] m = 51 -> "address-reuse"
      [] m = 11 -> "seed-words"         [] m = 14 -> "nostr-identity"
      [] m = 23 -> "invoice"            [] m = 24 -> "pay"
      [] m = 26 -> "nostr-publish"      [] m = 27 -> "nostr-profile"
      [] m = 30 -> "nostr-follow"       [] m = 33 -> "ecash-claim"
      [] m = 34 -> "ecash-spend"        [] m = 36 -> "nostr-zap"
      [] m = 41 -> "derive-address"     [] m = 42 -> "onchain-signet"
      [] m = 105 -> "github-pr"         [] m \in 102..104 -> "paste-value"
      [] OTHER -> "knowledge"

==============================================================================
