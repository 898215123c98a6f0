-------------------------- MODULE WorkSingularTask --------------------------
(***************************************************************************)
(* WorkSingularTask: a task in a dispatcher that never runs concurrently   *)
(* with itself, and runs at least once after every call of Wake.           *)
(***************************************************************************)
EXTENDS Naturals

CONSTANTS
  Wakers,   \* threads that call Wake
  Runners   \* threads that run tasks of the dispatcher

VARIABLES
  count,    \* _count
  queued,   \* tasks in the dispatcher that no thread has started
  wpc,      \* where a waker is
  rpc,      \* where a runner is
  old,      \* its local variable old
  due       \* history: a Wake counted since the function last began

singularVars == <<count, queued, wpc, rpc, old, due>>

SingularInit == /\ count = 0
                /\ queued = 0
                /\ wpc = [w \in Wakers |-> "Out"]
                /\ rpc = [r \in Runners |-> "Idle"]
                /\ old = [r \in Runners |-> 0]
                /\ due = FALSE

WGoto(w, from, to) == wpc[w] = from /\ wpc' = [wpc EXCEPT ![w] = to]
RGoto(r, from, to) == rpc[r] = from /\ rpc' = [rpc EXCEPT ![r] = to]

-----------------------------------------------------------------------------
\* As a bug would have it: every Wake runs the task in the dispatcher.
WakeAlways(w) ==
  /\ WGoto(w, "Out", "Run")
  /\ count' = count + 1
  /\ due' = TRUE
  /\ UNCHANGED <<queued, rpc, old>>

\* Wake: whoever takes the count from 0 to 1 runs the task in the dispatcher.
Wake(w) ==
  /\ WGoto(w, "Out", IF count = 0 THEN "Run" ELSE "Out")
  /\ count' = count + 1
  /\ due' = TRUE
  /\ UNCHANGED <<queued, rpc, old>>

Run(w) ==
  /\ WGoto(w, "Run", "Out")
  /\ queued' = queued + 1
  /\ UNCHANGED <<count, rpc, old, due>>

\* A thread of the dispatcher takes the task; the task reads the count.
Start(r) ==
  /\ RGoto(r, "Idle", "Load")
  /\ queued > 0
  /\ queued' = queued - 1
  /\ UNCHANGED <<count, wpc, old, due>>

Load(r) ==
  /\ RGoto(r, "Load", "Begin")
  /\ old' = [old EXCEPT ![r] = count]
  /\ UNCHANGED <<count, queued, wpc, due>>

\* The task function is called and, in as many steps as it likes, returns.
Begin(r) ==
  /\ RGoto(r, "Begin", "In")
  /\ due' = FALSE
  /\ UNCHANGED <<count, queued, wpc, old>>

Return(r) ==
  /\ RGoto(r, "In", "Exchange")
  /\ UNCHANGED <<count, queued, wpc, old, due>>

\* As a bug would have it: the count is set to 0 whatever it has become.
ExchangeBlind(r) ==
  /\ RGoto(r, "Exchange", "Idle")
  /\ count' = 0
  /\ UNCHANGED <<queued, wpc, old, due>>

\* compare_exchange_strong(old, 0), which on failure loads the count into old.
Exchange(r) ==
  /\ RGoto(r, "Exchange", IF count = old[r] THEN "Idle" ELSE "Begin")
  /\ count' = IF count = old[r] THEN 0 ELSE count
  /\ old' = [old EXCEPT ![r] = count]
  /\ UNCHANGED <<queued, wpc, due>>

SingularNext ==
  \/ \E w \in Wakers : Wake(w) \/ Run(w)
  \/ \E r \in Runners : Start(r) \/ Load(r) \/ Begin(r) \/ Return(r) \/ Exchange(r)

SingularSpec == SingularInit /\ [][SingularNext]_singularVars

-----------------------------------------------------------------------------
SingularTypeOK ==
  /\ count \in Nat /\ queued \in Nat /\ due \in BOOLEAN
  /\ wpc \in [Wakers -> {"Out", "Run"}]
  /\ rpc \in [Runners -> {"Idle", "Load", "Begin", "In", "Exchange"}]
  /\ old \in [Runners -> Nat]

\* "A singular task is one that will not run concurrently with itself": no two
\* threads are in the task function.
NotConcurrent == \A r, s \in Runners : rpc[r] = "In" /\ rpc[s] = "In" => r = s

\* "Ensure that this task runs at least once after this call": if the function
\* has not begun since a Wake was counted, a thread is still to call it.
NoLostWake ==
  due => \/ queued > 0
         \/ \E w \in Wakers : wpc[w] = "Run"
         \/ \E r \in Runners : \/ rpc[r] \in {"Load", "Begin"}
                               \/ rpc[r] \in {"In", "Exchange"} /\ old[r] # count
=============================================================================
