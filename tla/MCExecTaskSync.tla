--------------------------- MODULE MCExecTaskSync ---------------------------
(* Small instances of ExecTaskSync for TLC.                                *)
EXTENDS ExecTaskSync, TLC

CONSTANTS t1, t2, t3, a, b

\* Two tasks that ask for the same keys in opposite order, and a third one
\* that asks for one of them.  b cannot be compiled: of the tasks that ask for
\* it, the one that did not claim it waits for ever.
CrossedKeys == (t1 :> <<a, b>>) @@ (t2 :> <<b, a>>) @@ (t3 :> <<a>>)
=============================================================================
