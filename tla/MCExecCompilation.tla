------------------------- MODULE MCExecCompilation --------------------------
(* A task graph for TLC, and the roots of the rounds over it.              *)
EXTENDS ExecCompilation

CONSTANTS r1, r2, r3, r4, a, b, c, x, y, main, w1

\* b needs a and c, a needs c; x and y need each other.
KeyInputs == (a :> << <<c>> >>) @@ (b :> << <<a, c>> >>) @@ (c :> <<>>) @@
             (x :> << <<y>> >>) @@ (y :> << <<x>> >>)

\* One root wants b, another one a and b; the other two end up in the cycle, one
\* of them by way of a task that also asks for the leaf c.
Graph == (r1 :> << <<b>> >>) @@ (r2 :> << <<a>>, <<b>> >>) @@
         (r3 :> << <<x>> >>) @@ (r4 :> << <<y, c>> >>) @@ KeyInputs

SharedRound == {{r1, r2}}
BothRounds == {{r1, r2}, {r3, r4}}
=============================================================================
