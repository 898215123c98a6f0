---------------------------- MODULE ExecTaskSync ----------------------------
(***************************************************************************)
(* Exec_CompilerTaskSyncBase: the lock-free protocol by which the input    *)
(* resolving tasks of one round of compilation claim output keys, wait for *)
(* the keys other tasks claimed, and are run again when all of them are    *)
(* done.  Every atomic load, exchange, compare-exchange and fetch-add is   *)
(* an action of its own.                                                   *)
(*                                                                         *)
(* A task (Exec_InputResolvingCompilationTask) resolves to a sequence of   *)
(* output keys and asks for them one after the other; the slot is the      *)
(* index of the key it asks for.  The output providing task of a claimed   *)
(* key is the publisher of that key: its own inputs are left to module     *)
(* ExecCompilation, here it compiles its node at any time after the claim. *)
(* A node of a waiting list is a pair <<task, slot>>.  A list is the set   *)
(* of its nodes: it only grows until it is closed and no node is freed     *)
(* during the round, so its head pointer is unchanged iff the set is.      *)
(***************************************************************************)
EXTENDS Integers, Sequences, FiniteSets

CONSTANTS
  Tasks,          \* the input resolving tasks
  Keys,           \* identities of output keys (Exec_OutputKey::Identity)
  OutputKeys,     \* per task, the output keys its input resolves to
  Cached,         \* keys an earlier round of compilation has compiled
  Failing,        \* keys whose CompileNode returns a null node
  NotifiedTag,    \* the sentinel that closes a waiting list
  NoNode          \* no <<task, slot>> pair

Slots(t) == 1 .. Len(OutputKeys[t])
Node == UNION {{t} \X Slots(t) : t \in Tasks}
Key(n) == OutputKeys[n[1]][n[2]]

ASSUME KeysAssumption == /\ OutputKeys \in [Tasks -> Seq(Keys)]
                         /\ Cached \subseteq Keys
                         /\ Failing \subseteq Keys
ASSUME SentinelAssumption == /\ \A S \in SUBSET Node : NotifiedTag # S
                             /\ NoNode \notin Node

VARIABLES
  state,          \* _Entry::state of a key
  waiting,        \* _Entry::waiting of a key
  compiled,       \* the key is in the compiled output cache
  parent,         \* the <<task, slot>> that created the publisher of a key
  pub,            \* where the publisher of a key is
  notify,         \* nodes the publisher has still to notify
  numDependents,  \* _numDependents of a task
  dispatched,     \* runs of a task the dispatcher has not started yet
  taskPhase,      \* the phase of the task that runs next: 1 or 2
  pc,             \* where a task is
  slot,           \* the output key a task asks for
  head,           \* headNode, the list head a task has read
  result          \* what a <<task, slot>> was told of its key

keyVars == <<state, waiting, compiled, parent, pub, notify>>
taskVars == <<taskPhase, pc, slot, head, result>>
vars == <<keyVars, taskVars, numDependents, dispatched>>

Init == /\ state = [k \in Keys |-> "Unclaimed"]
        /\ waiting = [k \in Keys |-> {}]
        /\ compiled = [k \in Keys |-> k \in Cached]
        /\ parent = [k \in Keys |-> NoNode]
        /\ pub = [k \in Keys |-> "Idle"]
        /\ notify = [k \in Keys |-> {}]
        /\ numDependents = [t \in Tasks |-> 0]
        /\ dispatched = [t \in Tasks |-> 1]
        /\ taskPhase = [t \in Tasks |-> 1]
        /\ pc = [t \in Tasks |-> "Asleep"]
        /\ slot = [t \in Tasks |-> 1]
        /\ head = [t \in Tasks |-> {}]
        /\ result = [n \in Node |-> "None"]

-----------------------------------------------------------------------------
(* The dependency counter of a task.                                       *)

AddDependency(t) ==
  /\ numDependents' = [numDependents EXCEPT ![t] = @ + 1]
  /\ UNCHANGED dispatched

\* As a bug would have it: the count is tested as it was before the decrement.
RemoveDependencyTestsOldCount(t) ==
  /\ numDependents' = [numDependents EXCEPT ![t] = @ - 1]
  /\ dispatched' = IF numDependents[t] = 0
                   THEN [dispatched EXCEPT ![t] = @ + 1]
                   ELSE dispatched

\* Whoever removes the last dependency runs the task again.
RemoveDependency(t) ==
  /\ numDependents' = [numDependents EXCEPT ![t] = @ - 1]
  /\ dispatched' = IF numDependents[t] = 1
                   THEN [dispatched EXCEPT ![t] = @ + 1]
                   ELSE dispatched

-----------------------------------------------------------------------------
(* A task: operator(), and phase 1 with one Claim per output key.          *)

Goto(t, from, to) == pc[t] = from /\ pc' = [pc EXCEPT ![t] = to]

Here(t) == <<t, slot[t]>>

\* The answer for the current key, and on to the next one.
Answer(t, r) ==
  /\ pc' = [pc EXCEPT ![t] = "Lookup"]
  /\ slot' = [slot EXCEPT ![t] = @ + 1]
  /\ result' = [result EXCEPT ![Here(t)] = r]

\* As a bug would have it: the running task does not depend on itself, and so
\* has nothing to give up when it goes to sleep.
RunWithoutSelfDependency(t) ==
  /\ dispatched[t] > 0
  /\ Goto(t, "Asleep", IF taskPhase[t] = 1 THEN "Lookup" ELSE "Populate")
  /\ dispatched' = [dispatched EXCEPT ![t] = @ - 1]
  /\ UNCHANGED <<keyVars, taskPhase, slot, head, result, numDependents>>

\* operator() begins: a dependency of the task on itself prevents re-entry.
Run(t) ==
  /\ dispatched[t] > 0
  /\ Goto(t, "Asleep", IF taskPhase[t] = 1 THEN "Lookup" ELSE "Populate")
  /\ dispatched' = [dispatched EXCEPT ![t] = @ - 1]
  /\ numDependents' = [numDependents EXCEPT ![t] = @ + 1]
  /\ UNCHANGED <<keyVars, taskPhase, slot, head, result>>

\* The compiled output cache is asked first.
CacheHit(t) ==
  /\ pc[t] = "Lookup"
  /\ slot[t] \in Slots(t)
  /\ compiled[Key(Here(t))]
  /\ Answer(t, "Hit")
  /\ UNCHANGED <<keyVars, taskPhase, head, numDependents, dispatched>>

CacheMiss(t) ==
  /\ Goto(t, "Lookup", "Load")
  /\ slot[t] \in Slots(t)
  /\ ~compiled[Key(Here(t))]
  /\ UNCHANGED <<keyVars, taskPhase, slot, head, result, numDependents,
                 dispatched>>

\* As a bug would have it: a key that was claimed counts as done.
LoadDoneIfClaimed(t) ==
  /\ pc[t] = "Load"
  /\ state[Key(Here(t))] # "Unclaimed"
  /\ Answer(t, "Done")
  /\ UNCHANGED <<keyVars, taskPhase, head, numDependents, dispatched>>

\* _Claim loads the state of the entry ...
LoadDone(t) ==
  /\ pc[t] = "Load"
  /\ state[Key(Here(t))] = "Done"
  /\ Answer(t, "Done")
  /\ UNCHANGED <<keyVars, taskPhase, head, numDependents, dispatched>>

LoadPending(t) ==
  /\ pc[t] = "Load"
  /\ state[Key(Here(t))] # "Done"
  /\ Goto(t, "Load", IF state[Key(Here(t))] = "Unclaimed" THEN "Cas"
                                                          ELSE "Head")
  /\ UNCHANGED <<keyVars, taskPhase, slot, head, result, numDependents,
                 dispatched>>

\* As a bug would have it: the claim is a store instead of a compare-exchange.
CasWonByStore(t) ==
  LET k == Key(Here(t)) IN
  /\ pc[t] = "Cas"
  /\ state' = [state EXCEPT ![k] = "Claimed"]
  /\ parent' = [parent EXCEPT ![k] = Here(t)]
  /\ Answer(t, "Claimed")
  /\ AddDependency(t)
  /\ UNCHANGED <<waiting, compiled, pub, notify, taskPhase, head>>

\* ... and claims an unclaimed key.  The winner creates the subtask that
\* provides the output, with itself as the parent.
CasWon(t) ==
  LET k == Key(Here(t)) IN
  /\ pc[t] = "Cas"
  /\ state[k] = "Unclaimed"
  /\ state' = [state EXCEPT ![k] = "Claimed"]
  /\ parent' = [parent EXCEPT ![k] = Here(t)]
  /\ Answer(t, "Claimed")
  /\ AddDependency(t)
  /\ UNCHANGED <<waiting, compiled, pub, notify, taskPhase, head>>

CasLost(t) ==
  /\ Goto(t, "Cas", "Head")
  /\ state[Key(Here(t))] # "Unclaimed"
  /\ UNCHANGED <<keyVars, taskPhase, slot, head, result, numDependents,
                 dispatched>>

\* _WaitOn reads the head of the waiting list; nobody else depends on the
\* counter of a running task, so the increment is part of the same action.
HeadClosed(t) ==
  /\ pc[t] = "Head"
  /\ waiting[Key(Here(t))] = NotifiedTag
  /\ Answer(t, "Done")
  /\ UNCHANGED <<keyVars, taskPhase, head, numDependents, dispatched>>

HeadOpen(t) ==
  /\ Goto(t, "Head", "Push")
  /\ waiting[Key(Here(t))] # NotifiedTag
  /\ head' = [head EXCEPT ![t] = waiting[Key(Here(t))]]
  /\ AddDependency(t)
  /\ UNCHANGED <<keyVars, taskPhase, slot, result>>

\* As a bug would have it: the node is stored as the head, even of a list that
\* was closed meanwhile.
PushWonByStore(t) ==
  LET k == Key(Here(t)) IN
  /\ pc[t] = "Push"
  /\ waiting[k] \in {head[t], NotifiedTag}
  /\ waiting' = [waiting EXCEPT ![k] = head[t] \cup {Here(t)}]
  /\ Answer(t, "Wait")
  /\ UNCHANGED <<state, compiled, parent, pub, notify, taskPhase, head,
                 numDependents, dispatched>>

\* The compare-exchange of _WaitOn: the node becomes the head ...
PushWon(t) ==
  LET k == Key(Here(t)) IN
  /\ pc[t] = "Push"
  /\ waiting[k] = head[t]
  /\ waiting' = [waiting EXCEPT ![k] = @ \cup {Here(t)}]
  /\ Answer(t, "Wait")
  /\ UNCHANGED <<state, compiled, parent, pub, notify, taskPhase, head,
                 numDependents, dispatched>>

\* ... or another node came first, and the loop tries again (a spurious failure
\* of the weak compare-exchange changes nothing and is a stutter) ...
PushRetry(t) ==
  LET k == Key(Here(t)) IN
  /\ pc[t] = "Push"
  /\ waiting[k] \notin {head[t], NotifiedTag}
  /\ head' = [head EXCEPT ![t] = waiting[k]]
  /\ UNCHANGED <<keyVars, taskPhase, pc, slot, result, numDependents,
                 dispatched>>

\* As a bug would have it: the dependency added before the loop is kept.
PushClosedKeepsDependency(t) ==
  /\ pc[t] = "Push"
  /\ waiting[Key(Here(t))] = NotifiedTag
  /\ Answer(t, "Done")
  /\ UNCHANGED <<keyVars, taskPhase, head, numDependents, dispatched>>

\* ... or the list was closed, and the task must not wait.
PushClosed(t) ==
  /\ pc[t] = "Push"
  /\ waiting[Key(Here(t))] = NotifiedTag
  /\ Answer(t, "Done")
  /\ RemoveDependency(t)
  /\ UNCHANGED <<keyVars, taskPhase, head>>

\* As a bug would have it: ClaimSubtask does not note that the task waits.
HasDependenciesClaimedOnly(t) ==
  \E i \in Slots(t) : result[<<t, i>>] = "Claimed"

\* TaskDependencies::_hasDependencies after the last key.
HasDependencies(t) == \E i \in Slots(t) : result[<<t, i>>] \in {"Wait", "Claimed"}

\* The phase ends: with dependencies the task goes to sleep, without it runs
\* phase 2 in the same call.
EndPhase(t) ==
  /\ slot[t] \notin Slots(t)
  /\ Goto(t, "Lookup", IF HasDependencies(t) THEN "Release" ELSE "Populate")
  /\ taskPhase' = [taskPhase EXCEPT ![t] = 2]
  /\ UNCHANGED <<keyVars, slot, head, result, numDependents, dispatched>>

\* operator() gives up its own dependency; if it was the last one, the task
\* runs itself again.
Release(t) ==
  /\ Goto(t, "Release", "Asleep")
  /\ RemoveDependency(t)
  /\ UNCHANGED <<keyVars, taskPhase, slot, head, result>>

\* Phase 2 reads the outputs from the cache, then the task is deleted.
Populate(t) ==
  /\ Goto(t, "Populate", "Deleted")
  /\ numDependents' = [numDependents EXCEPT ![t] = @ - 1]
  /\ UNCHANGED <<keyVars, taskPhase, slot, head, result, dispatched>>

-----------------------------------------------------------------------------
(* The publisher of a key: the last phase of its output providing task.    *)

PubGoto(k, from, to) == pub[k] = from /\ pub' = [pub EXCEPT ![k] = to]

\* As a bug would have it: the key is done before its output is published.
CompileUnpublished(k) ==
  /\ state[k] = "Claimed"
  /\ k \notin Failing
  /\ PubGoto(k, "Idle", "Compiled")
  /\ UNCHANGED <<state, waiting, compiled, parent, notify, taskVars,
                 numDependents, dispatched>>

\* CompileNode and SetCompiledOutput.
Compile(k) ==
  /\ state[k] = "Claimed"
  /\ k \notin Failing
  /\ PubGoto(k, "Idle", "Compiled")
  /\ compiled' = [compiled EXCEPT ![k] = TRUE]
  /\ UNCHANGED <<state, waiting, parent, notify, taskVars, numDependents,
                 dispatched>>

\* CompileNode returns null: the task returns without _MarkDone.
CompileFails(k) ==
  /\ state[k] = "Claimed"
  /\ k \in Failing
  /\ PubGoto(k, "Idle", "Return")
  /\ UNCHANGED <<state, waiting, compiled, parent, notify, taskVars,
                 numDependents, dispatched>>

\* _MarkDone exchanges the state ...
MarkDone(k) ==
  /\ PubGoto(k, "Compiled", "Marked")
  /\ state' = [state EXCEPT ![k] = "Done"]
  /\ UNCHANGED <<waiting, compiled, parent, notify, taskVars, numDependents,
                 dispatched>>

\* ... then _CloseAndNotify exchanges the head of the list ...
Close(k) ==
  /\ PubGoto(k, "Marked", "Notify")
  /\ waiting' = [waiting EXCEPT ![k] = NotifiedTag]
  /\ notify' = [notify EXCEPT ![k] = waiting[k]]
  /\ UNCHANGED <<state, compiled, parent, taskVars, numDependents, dispatched>>

\* As a bug would have it: the loop does not move on to the next node.
NotifyAgain(k, n) ==
  /\ pub[k] = "Notify"
  /\ n \in notify[k]
  /\ RemoveDependency(n[1])
  /\ UNCHANGED <<state, waiting, compiled, parent, pub, notify, taskVars>>

\* ... and notifies the waiting tasks one by one.
Notify(k, n) ==
  /\ pub[k] = "Notify"
  /\ n \in notify[k]
  /\ notify' = [notify EXCEPT ![k] = @ \ {n}]
  /\ RemoveDependency(n[1])
  /\ UNCHANGED <<state, waiting, compiled, parent, pub, taskVars>>

NotifyEnd(k) ==
  /\ notify[k] = {}
  /\ PubGoto(k, "Notify", "Return")
  /\ UNCHANGED <<state, waiting, compiled, parent, notify, taskVars,
                 numDependents, dispatched>>

\* The output providing task is complete: one dependency less for its parent.
Return(k) ==
  /\ PubGoto(k, "Return", "Finished")
  /\ RemoveDependency(parent[k][1])
  /\ UNCHANGED <<state, waiting, compiled, parent, notify, taskVars>>

-----------------------------------------------------------------------------
TaskStep(t) == \/ Run(t) \/ CacheHit(t) \/ CacheMiss(t)
               \/ LoadDone(t) \/ LoadPending(t) \/ CasWon(t) \/ CasLost(t)
               \/ HeadClosed(t) \/ HeadOpen(t)
               \/ PushWon(t) \/ PushRetry(t) \/ PushClosed(t)
               \/ EndPhase(t) \/ Release(t) \/ Populate(t)

PubStep(k) == \/ Compile(k) \/ CompileFails(k) \/ MarkDone(k) \/ Close(k)
              \/ (\E n \in notify[k] : Notify(k, n))
              \/ NotifyEnd(k) \/ Return(k)

\* A task that waits for a key whose compilation failed waits forever.
Stranded(t) == /\ pc[t] = "Asleep" /\ dispatched[t] = 0
               /\ \E i \in Slots(t) : /\ result[<<t, i>>] = "Wait"
                                      /\ Key(<<t, i>>) \in Failing

Terminated == /\ \A t \in Tasks : pc[t] = "Deleted" \/ Stranded(t)
              /\ \A k \in Keys : state[k] = "Unclaimed" \/ pub[k] = "Finished"
              /\ UNCHANGED vars

Next == \/ \E t \in Tasks : TaskStep(t)
        \/ \E k \in Keys : PubStep(k)
        \/ Terminated

\* The dispatcher runs what it was given and no running task is suspended
\* forever; the claimed subtasks complete (module ExecCompilation).
Fairness == /\ \A t \in Tasks : WF_vars(TaskStep(t))
            /\ \A k \in Keys : WF_vars(PubStep(k))

Spec == Init /\ [][Next]_vars
FairSpec == Spec /\ Fairness

-----------------------------------------------------------------------------
(* Properties.                                                             *)

TypeOK ==
  /\ state \in [Keys -> {"Unclaimed", "Claimed", "Done"}]
  /\ waiting \in [Keys -> {NotifiedTag} \cup SUBSET Node]
  /\ compiled \in [Keys -> BOOLEAN]
  /\ parent \in [Keys -> {NoNode} \cup Node]
  /\ pub \in [Keys -> {"Idle", "Compiled", "Marked", "Notify", "Return",
                      "Finished"}]
  /\ notify \in [Keys -> SUBSET Node]
  /\ numDependents \in [Tasks -> Nat]
  /\ dispatched \in [Tasks -> Nat]
  /\ taskPhase \in [Tasks -> {1, 2}]
  /\ pc \in [Tasks -> {"Asleep", "Lookup", "Load", "Cas", "Head", "Push",
                      "Release", "Populate", "Deleted"}]
  /\ slot \in [Tasks -> Nat \ {0}]
  /\ head \in [Tasks -> SUBSET Node]
  /\ result \in [Node -> {"None", "Hit", "Done", "Wait", "Claimed"}]

\* The task is inside operator() and holds the dependency on itself.
Running(t) == pc[t] \notin {"Asleep", "Deleted"}

\* The node is on the waiting list of its key, or was taken from it by the
\* publisher and not notified yet.
Enlisted(n) == n \in notify[Key(n)]
               \/ (waiting[Key(n)] # NotifiedTag /\ n \in waiting[Key(n)])

\* The slots of t that hold one of its dependencies: it is about to enlist,
\* it is enlisted, or the subtask it created is not complete.
Pending(t) ==
  {i \in Slots(t) :
     \/ pc[t] = "Push" /\ i = slot[t]
     \/ result[<<t, i>>] = "Wait" /\ Enlisted(<<t, i>>)
     \/ result[<<t, i>>] = "Claimed" /\ pub[Key(<<t, i>>)] # "Finished"}

\* The reference count is exact: one for every unfulfilled dependency, and
\* one while the task runs (AddDependency and RemoveDependency are called by
\* different tasks on different threads).
CountIsExact ==
  \A t \in Tasks :
    numDependents[t] = Cardinality(Pending(t)) + (IF Running(t) THEN 1 ELSE 0)

\* operator(): no notification re-runs a task that still runs, that still has
\* dependencies, or that another notification has already run.
NotReentrant ==
  \A t \in Tasks : /\ dispatched[t] <= 1
                   /\ dispatched[t] = 1 => /\ pc[t] = "Asleep"
                                           /\ numDependents[t] = 0

\* No wake-up is lost between the last RemoveDependency of a notifier and the
\* task that goes to sleep, or between the close of a list and a node pushed on
\* it: a sleeping task has been dispatched again, or it has a dependency whose
\* publisher has still to remove it or could not compile the key.
NoLostWakeup ==
  \A t \in Tasks : pc[t] = "Asleep" =>
    \/ dispatched[t] = 1
    \/ \E i \in Pending(t) : \/ pub[Key(<<t, i>>)] # "Finished"
                            \/ Key(<<t, i>>) \in Failing

\* Phase 2 finds every output it asked for in the cache, whichever way each key
\* was answered, except those this very task claimed and whose node could not
\* be compiled.
OutputsReady ==
  \A t \in Tasks : pc[t] = "Populate" =>
    \A i \in Slots(t) : \/ compiled[Key(<<t, i>>)]
                        \/ /\ result[<<t, i>>] = "Claimed"
                           /\ Key(<<t, i>>) \in Failing

\* Of all the requests for a key at most one is told to compile it, and none
\* for a key of an earlier round.
ClaimedOnce ==
  \A m, n \in Node :
    result[m] = "Claimed" => /\ Key(m) \notin Cached
                             /\ (result[n] = "Claimed" /\ Key(m) = Key(n)) => m = n

\* A task deletes itself at the end of phase 2: no list, notifier or subtask
\* has a pointer to it any more.
NoDanglingTask ==
  \A t \in Tasks : pc[t] = "Deleted" =>
    /\ dispatched[t] = 0
    /\ \A k \in Keys : /\ \A i \in Slots(t) : ~Enlisted(<<t, i>>)
                       /\ parent[k] # NoNode /\ parent[k][1] = t
                            => pub[k] = "Finished"

\* Every task of the round runs both phases and is deleted, unless it waits for
\* a key whose compilation failed.
EveryTaskCompletes ==
  \A t \in Tasks : <>(pc[t] = "Deleted" \/ Stranded(t))

\* Refinement of what the tasks are promised.
Released(n) == result[n] = "Wait" /\ ~Enlisted(n)

Promise == INSTANCE TaskSyncSpec WITH
  Requests <- Node,
  KeyOf <- Key,
  status <- state,
  closed <- [k \in Keys |-> waiting[k] = NotifiedTag],
  answer <- [n \in Node |->
               IF result[n] = "Hit" THEN "None"
               ELSE IF Released(n) THEN "Released" ELSE result[n]]

\* The protocol keeps the promise of TaskSyncSpec, fairness included.
KeepsPromise == Promise!Spec
=============================================================================
