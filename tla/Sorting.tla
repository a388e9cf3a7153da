--------------------------------- MODULE Sorting ---------------------------------
(***************************************************************************)
(* The order of the repositories and of the pull requests of a workspace   *)
(* (sorting.rs).  The comparison is handed to a sort that may panic when it *)
(* is no total order.                                                      *)
(*                                                                         *)
(* A value to sort by is a number: a time, a count, a rank.  Names are     *)
(* numbered in their order.  An Option is the set of its value.            *)
(***************************************************************************)
EXTENDS Integers

Direction == {"ascending", "descending"}

\* What a sort key finds in a record; a mandatory value is always there.
Optional == {{}} \cup {{n} : n \in Int}

\* A record as far as its order goes: the value of the sort key, then number
\* and id (of a repository its name and id).
SortRecord == [key : Optional, number : Int, id : Int]

apply_direction(left, right, direction) ==
    IF direction = "ascending" THEN left < right ELSE right < left

\* compare_optional and compare_value, as "comes before"; an unknown value
\* comes last in both directions.
Precedes(left, right, direction) ==
    \/ \E a \in left, b \in right : apply_direction(a, b, direction)
    \/ left # {} /\ right = {}

\* sort_pull_requests and sort_repositories compare the key, then the number,
\* then the id, whatever the direction.
Before(r, s, direction) ==
    \/ Precedes(r.key, s.key, direction)
    \/ r.key = s.key /\ r.number < s.number
    \/ r.key = s.key /\ r.number = s.number /\ r.id < s.id
================================================================================
