-------------------------- MODULE InOrderRendering --------------------------
(***************************************************************************)
(* What the renderer promises, whatever its threads do: draw calls are     *)
(* rendered in the order they were submitted, by every cluster, every      *)
(* batch of primitives once and in order, and a draw call is retired (its  *)
(* resources unlocked, its object free for reuse) when every cluster has   *)
(* rendered all of it.                                                     *)
(***************************************************************************)
EXTENDS Integers

CONSTANTS
    Cluster,      \* pixel clusters
    Draw,         \* 0 .. n - 1, draw calls in the order submitted
    DRAW_COUNT,   \* draw calls that may be in flight
    DrawShape     \* the pairs <<primitives, batch size>> of draw calls

VARIABLES
    submitted,    \* number of draw calls submitted
    shape,        \* of the draw calls in flight; <<0, 1>> for the others
    rendered      \* per cluster, the last batch it has rendered

vars == <<submitted, shape, rendered>>

NoDraw == <<0, 1>>

Init ==
    /\ submitted = 0
    /\ shape = [d \in Draw |-> NoDraw]
    /\ rendered = [c \in Cluster |-> [draw |-> -1, first |-> 0]]

InFlight == {d \in Draw : shape[d] # NoDraw}

\* No primitives of the draw call are left after batch b.
Last(b) == b.draw = -1 \/ b.first + shape[b.draw][2] >= shape[b.draw][1]

Following(b) == IF Last(b) THEN [draw |-> b.draw + 1, first |-> 0]
                ELSE [draw |-> b.draw, first |-> b.first + shape[b.draw][2]]

Submit(s) ==
    /\ submitted \in Draw
    /\ submitted - DRAW_COUNT \notin InFlight
    /\ shape' = [shape EXCEPT ![submitted] = s]
    /\ submitted' = submitted + 1
    /\ UNCHANGED rendered

Render(c) ==
    /\ Following(rendered[c]).draw \in InFlight
    /\ rendered' = [rendered EXCEPT ![c] = Following(@)]
    /\ UNCHANGED <<submitted, shape>>

\* The oldest draw call in flight is retired, when no cluster is behind.
Retire(d) ==
    /\ d \in InFlight
    /\ \A e \in InFlight : d <= e
    /\ \A c \in Cluster : \/ rendered[c].draw > d
                          \/ rendered[c].draw = d /\ Last(rendered[c])
    /\ shape' = [shape EXCEPT ![d] = NoDraw]
    /\ UNCHANGED <<submitted, rendered>>

Next ==
    \/ \E s \in DrawShape : Submit(s)
    \/ \E c \in Cluster : Render(c)
    \/ \E d \in Draw : Retire(d)

Spec == Init /\ [][Next]_vars
=============================================================================
