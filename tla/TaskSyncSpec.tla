---------------------------- MODULE TaskSyncSpec ----------------------------
(***************************************************************************)
(* What Exec_CompilerTaskSync promises to the compilation tasks that use   *)
(* it.  A request is one call of Claim for one output key.  The first      *)
(* request for a key gets Claimed, the others wait or find the key done,   *)
(* and each request that waits is released exactly once, after the key was *)
(* marked done.                                                            *)
(***************************************************************************)
CONSTANTS
  Keys,           \* the output keys of one round of compilation
  Requests,       \* the calls of Claim
  KeyOf(_)        \* the key a request asks for

VARIABLES
  status,         \* per key: Unclaimed, Claimed or Done
  closed,         \* per key: no request can join the waiters any more
  answer          \* per request: None, Claimed, Wait, Done, or Released

vars == <<status, closed, answer>>

Init == /\ status = [k \in Keys |-> "Unclaimed"]
        /\ closed = [k \in Keys |-> FALSE]
        /\ answer = [r \in Requests |-> "None"]

\* The first request for a key wins it.
Claimed(r) == /\ answer[r] = "None"
              /\ status[KeyOf(r)] = "Unclaimed"
              /\ status' = [status EXCEPT ![KeyOf(r)] = "Claimed"]
              /\ answer' = [answer EXCEPT ![r] = "Claimed"]
              /\ UNCHANGED closed

\* A request joins the waiters of a claimed key until the list is closed.
Wait(r) == /\ answer[r] = "None"
           /\ status[KeyOf(r)] # "Unclaimed"
           /\ ~closed[KeyOf(r)]
           /\ answer' = [answer EXCEPT ![r] = "Wait"]
           /\ UNCHANGED <<status, closed>>

\* A request that comes after the key was marked done need not wait.
Done(r) == /\ answer[r] = "None"
           /\ status[KeyOf(r)] = "Done"
           /\ answer' = [answer EXCEPT ![r] = "Done"]
           /\ UNCHANGED <<status, closed>>

MarkDone(k) == /\ status[k] = "Claimed"
               /\ status' = [status EXCEPT ![k] = "Done"]
               /\ UNCHANGED <<closed, answer>>

Close(k) == /\ status[k] = "Done"
            /\ ~closed[k]
            /\ closed' = [closed EXCEPT ![k] = TRUE]
            /\ UNCHANGED <<status, answer>>

\* A waiter is released once, and only after the list was closed.
Release(r) == /\ answer[r] = "Wait"
              /\ closed[KeyOf(r)]
              /\ answer' = [answer EXCEPT ![r] = "Released"]
              /\ UNCHANGED <<status, closed>>

Next == \/ \E r \in Requests : Claimed(r) \/ Wait(r) \/ Done(r) \/ Release(r)
        \/ \E k \in Keys : MarkDone(k) \/ Close(k)

\* Marking a key done closes its list and releases every waiter.
Fairness == /\ \A k \in Keys : WF_vars(Close(k))
            /\ \A r \in Requests : WF_vars(Release(r))

Safety == Init /\ [][Next]_vars
Spec == Safety /\ Fairness
=============================================================================
