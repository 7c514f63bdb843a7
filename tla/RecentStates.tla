---------------------------- MODULE RecentStates ----------------------------
(***************************************************************************)
(* What LRUCache in src/src/Renderer/LRUCache.hpp promises about the       *)
(* states it has cached: they are kept in a list, without duplicates, the  *)
(* one to be replaced next last.  A state that is found moves up by one    *)
(* place, which is a cheap approximation of "least recently used"; a new   *)
(* one is first.                                                           *)
(***************************************************************************)
EXTENDS Naturals, Sequences, SequencesExt

CONSTANTS
    State,      \* what routines are generated for
    Capacity    \* sizes that the cache may have

VARIABLES
    list,       \* the cached states, the newest first
    size

RSvars == <<list, size>>

RSInit == list = << >> /\ size \in Capacity

\* query() finds the state at position i.
Found(i) ==
    /\ i \in 2 .. Len(list)
    /\ list' = [list EXCEPT ![i] = list[i - 1], ![i - 1] = list[i]]
    /\ UNCHANGED size

\* query() does not find the state, and add() inserts it.
Inserted(s) ==
    /\ ~Contains(list, s)
    /\ list' = <<s>> \o (IF Len(list) < size THEN list ELSE Front(list))
    /\ UNCHANGED size

\* The cache is replaced by an empty one.
Replaced == list' = << >> /\ size' \in Capacity

RSNext == \/ \E i \in 2 .. Len(list) : Found(i)
          \/ \E s \in State : Inserted(s)
          \/ Replaced

RSSpec == RSInit /\ [][RSNext]_RSvars
=============================================================================
