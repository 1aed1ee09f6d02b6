------------------------------- MODULE Course -------------------------------
(***************************************************************************)
(* What a completed lesson promises, whatever requests overlap, are        *)
(* dropped or are cut off by a restart: lessons are recorded one at a time *)
(* and for good, each once what leads to it is on record and, where it     *)
(* proves an identity, once there is one; the streak moves in the same     *)
(* step, by a day that is not in the future and not before the last one.   *)
(***************************************************************************)
EXTENDS Integers, Sequences

CONSTANTS
    Learners,
    Missions,
    IdentityMissions,  \* missions that prove an identity
    Releases,          \* number of builds
    Routes,            \* Routes[k]: ordered lists of lessons, up to build k
    FirstDay           \* UTC day on which the record starts

VARIABLES
    release,     \* the build that is running
    day,         \* today, in UTC days
    done,        \* the lessons on each learner's record
    streak,      \* each learner's streak: its length and its last day
    identified   \* the learners with an identity

vars == <<release, day, done, streak, identified>>

Init ==
    /\ release = 1
    /\ day = FirstDay
    /\ done = [l \in Learners |-> {}]
    /\ streak = [l \in Learners |-> [length |-> 0, last |-> 0]]
    /\ identified = {}

\* Some route leads to m, and everything before m on it is on l's record.
LedTo(l, m) ==
    \E s \in Routes[release] : \E i \in DOMAIN s :
        s[i] = m /\ \A j \in 1..(i - 1) : s[j] \in done[l]

\* A streak after one more day, which is its last day or a later one.
Extend(s, today) ==
    [length |-> CASE today = s.last -> s.length
                  [] today = s.last + 1 -> s.length + 1
                  [] OTHER -> 1,
     last |-> today]

Complete(l, m, today) ==
    /\ m \notin done[l]
    /\ LedTo(l, m)
    /\ m \in IdentityMissions => l \in identified
    /\ today \in streak[l].last..day
    /\ done' = [done EXCEPT ![l] = @ \cup {m}]
    /\ streak' = [streak EXCEPT ![l] = Extend(@, today)]
    /\ UNCHANGED <<release, day, identified>>

Identify(l) ==
    /\ identified' = identified \cup {l}
    /\ UNCHANGED <<release, day, done, streak>>

Publish ==
    /\ release < Releases
    /\ release' = release + 1
    /\ UNCHANGED <<day, done, streak, identified>>

NextDay ==
    /\ day' = day + 1
    /\ UNCHANGED <<release, done, streak, identified>>

Next ==
    \/ \E l \in Learners, m \in Missions, today \in FirstDay..day :
          Complete(l, m, today)
    \/ \E l \in Learners : Identify(l)
    \/ Publish \/ NextDay

Spec == Init /\ [][Next]_vars
=============================================================================
