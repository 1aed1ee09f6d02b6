----------------------------- MODULE MCWorkshop -----------------------------
(* A small instance of Workshop: one tree that a deploy lengthens.         *)
EXTENDS Workshop

CONSTANTS s1, anna, a, b, tree

\* Lesson b joins the tree in the second build.
MCTreeMissions == <<[t \in {tree} |-> {a}], [t \in {tree} |-> {a, b}]>>

\* One window is open when the clock starts and ends halfway, another opens later.
MCContests == {[missions |-> {a, b}, starts_at |-> 1, ends_at |-> 2],
               [missions |-> {a}, starts_at |-> 2, ends_at |-> 4]}
=============================================================================
