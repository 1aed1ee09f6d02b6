---------------------------- MODULE MCProgress ----------------------------
(***************************************************************************)
(* Small instances of Progress. The catalogue has the shapes of the real   *)
(* one: a tree whose journey skips a lesson (Lightning skips 79), a        *)
(* journey that crosses trees, and later builds that put a new lesson in   *)
(* the middle of a tree and at the end of another.                         *)
(***************************************************************************)
EXTENDS Progress, TLC

CONSTANTS Lightning, Money, Receive

MCTrees == {Lightning, Money}
MCJourneys == {Receive}

\* A lesson the journey skips is inserted into one tree, another appended.
MCTwoBuilds ==
    <<[t \in MCTrees |-> IF t = Lightning THEN <<1, 3>> ELSE <<4>>],
      [t \in MCTrees |-> IF t = Lightning THEN <<1, 2, 3>> ELSE <<4, 5>>]>>

\* The smallest growth: a finished tree of one lesson gains a second one.
MCReopening ==
    <<[t \in MCTrees |-> IF t = Lightning THEN <<1>> ELSE <<4>>],
      [t \in MCTrees |-> IF t = Lightning THEN <<1, 5>> ELSE <<4>>]>>

MCJourneyMissions == [j \in MCJourneys |-> <<1, 3, 4>>]

MCNoJourneys == <<>>

Symmetry == Permutations(Requests)
===========================================================================
