-------------------------- MODULE ExecCompilation ---------------------------
(***************************************************************************)
(* One round of Exec_Compiler::Compile: the graph of compilation tasks,    *)
(* the worker threads that run them, and the task cycle detector.          *)
(*                                                                         *)
(* There is a root task per requested value key or input to recompile, an  *)
(* input resolving task <<owner, i>> per input key of a root or an output  *)
(* key, and an output providing task per claimed output key (named by its  *)
(* key).  A thread runs tasks from the dispatcher; a task invokes its last *)
(* subtask, itself or its parent recursively up to a depth, so that a      *)
(* thread has a stack of frames, the first one being the innermost.        *)
(*                                                                         *)
(* Claim and _MarkDone are atomic here but for the notifications: that the *)
(* lock-free code implements them is the subject of ExecTaskSync.          *)
(***************************************************************************)
EXTENDS ExecBusyCounter, FiniteSets, SequencesExt

CONSTANTS
  Threads,      \* threads that run tasks
  Main,         \* the thread that calls Compile, one of Threads
  Roots,        \* leaf tasks and input recompilation tasks
  Rounds,       \* the sets of roots that Compile is asked for
  Keys,         \* identities of output keys
  InputKeys,    \* per root and key: the output keys of each of its inputs
  Cached,       \* keys compiled in an earlier round
  Failing,      \* keys whose CompileNode returns a null node
  MaxDepth,     \* nested invocations of operator() on a stack (50)
  None          \* no task

Owners == Roots \cup Keys
InputTasks == UNION {{o} \X (1 .. Len(InputKeys[o])) : o \in Owners}
Tasks == Owners \cup InputTasks
IsInputTask(t) == t \in InputTasks
OutputKeys(t) == InputKeys[t[1]][t[2]]      \* of an input resolving task

ASSUME InputsAssumption == /\ InputKeys \in [Owners -> Seq(Seq(Keys))]
                           /\ Roots \cap Keys = {} /\ Owners \cap InputTasks = {}
                           /\ Rounds \subseteq SUBSET Roots
                           /\ Cached \subseteq Keys
                           /\ Main \in Threads
                           /\ MaxDepth \in Nat
                           /\ None \notin Tasks

\* The counters of the detector are wide enough.
ASSUME CountersAssumption == /\ IsFiniteSet(Threads) /\ Cardinality(Threads) < Bias
                             /\ IsFiniteSet(Tasks) /\ 2 * Cardinality(Tasks) < Bias

VARIABLES
  life,           \* per task: Absent, Alive, Deleted
  parent,         \* _parent
  numDependents,  \* _numDependents
  taskPhase,      \* _taskPhase
  dispatched,     \* runs of a task the dispatcher has not started
  claimed,        \* per key: Unclaimed, Claimed, Done
  waiting,        \* per key: the tasks on its waiting list, latest first
  compiled,       \* the keys in the compiled output cache
  unspawned,      \* root tasks Compile has not created yet
  stack,          \* per thread: frames of operator(), innermost first
  local,          \* per thread: _ThreadData of the cycle detector
  packed,         \* its busy threads and unblocked tasks, in one word
  blockedTasks,   \* its other shared counter
  aborted         \* the cycle detector ended the process

taskVars == <<life, parent, numDependents, taskPhase, dispatched>>
keyVars == <<claimed, waiting, compiled>>
sharedVars == <<packed, blockedTasks>>
vars == <<taskVars, keyVars, unspawned, stack, local, sharedVars, aborted>>

busyThreads == Unpack(packed)[1]
unblockedTasks == Unpack(packed)[2]

Frame(t, d) == [task |-> t, pc |-> "Enter", depth |-> d,
                i |-> 1,            \* index into the input or output keys
                next |-> None,      \* _nextSubtask
                deps |-> FALSE,     \* _hasDependencies
                list |-> <<>>]      \* tasks to notify

Zero == [blocked |-> 0, unblocked |-> 0]

\* The main thread is busy while it creates the root tasks.
Init == /\ life = [t \in Tasks |-> "Absent"]
        /\ parent = [t \in Tasks |-> None]
        /\ numDependents = [t \in Tasks |-> 0]
        /\ taskPhase = [t \in Tasks |-> 0]
        /\ dispatched = [t \in Tasks |-> 0]
        /\ claimed = [k \in Keys |-> "Unclaimed"]
        /\ waiting = [k \in Keys |-> <<>>]
        /\ compiled = Cached
        /\ unspawned \in Rounds
        /\ stack = [th \in Threads |->
                      IF th = Main
                      THEN <<[Frame(None, 0) EXCEPT !.pc = "Spawn"]>>
                      ELSE <<>>]
        /\ local = [th \in Threads |-> Zero]
        /\ packed = AddTo(PackedZero, 1, 0)
        /\ blockedTasks = 0
        /\ aborted = FALSE

-----------------------------------------------------------------------------
(* Frames, the dispatcher, and the counters.                               *)

At(th, p) == ~aborted /\ stack[th] # <<>> /\ Head(stack[th]).pc = p
Top(th) == Head(stack[th])
This(th) == Top(th).task

\* The innermost frame becomes f ...
Set(th, f) == stack' = [stack EXCEPT ![th] = <<f>> \o Tail(@)]

\* As a bug would have it: the depth is not passed on.
InvokeSameDepth(th, f, t) ==
  stack' = [stack EXCEPT ![th] = <<Frame(t, f.depth), f>> \o Tail(@)]

\* ... and, in Invoke, calls operator() of t.
Invoke(th, f, t) ==
  stack' = [stack EXCEPT ![th] = <<Frame(t, f.depth + 1), f>> \o Tail(@)]

\* As a bug would have it: the task stays counted as unblocked.
BlockStaysUnblocked(th) == local' = [local EXCEPT ![th].blocked = @ + 1]

\* Counter changes of the calling thread's _ThreadData.
Block(th) == local' = [local EXCEPT ![th].blocked = @ + 1,
                                    ![th].unblocked = @ - 1]
Unblock(th) == local' = [local EXCEPT ![th].blocked = @ - 1,
                                      ![th].unblocked = @ + 1]

\* Remove one dependency of t and, if it was the last one, run t: nested in
\* frame f when invoke holds and the depth allows it, else by the dispatcher.
RemoveDependency(th, t, f, invoke) ==
  /\ numDependents' = [numDependents EXCEPT ![t] = @ - 1]
  /\ IF numDependents[t] # 1
     THEN Set(th, f) /\ UNCHANGED <<dispatched, local>>
     ELSE /\ Unblock(th)
          /\ IF invoke /\ f.depth < MaxDepth
             THEN Invoke(th, f, t) /\ UNCHANGED dispatched
             ELSE /\ dispatched' = [dispatched EXCEPT ![t] = @ + 1]
                  /\ Set(th, f)

\* As a bug would have it: the parent does not depend on the new subtask.
NewSubtaskWithoutDependency(th, t, f) ==
  /\ life' = [life EXCEPT ![t] = "Alive"]
  /\ parent' = [parent EXCEPT ![t] = This(th)]
  /\ dispatched' = IF f.next = None THEN dispatched
                   ELSE [dispatched EXCEPT ![f.next] = @ + 1]
  /\ local' = [local EXCEPT ![th].unblocked = @ + 1]
  /\ Set(th, [f EXCEPT !.i = @ + 1, !.next = t, !.deps = TRUE])
  /\ UNCHANGED <<numDependents, taskPhase>>

\* NewSubtask: this task depends on the new one; a subtask recorded before
\* goes to the dispatcher.
NewSubtask(th, t, f) ==
  /\ life' = [life EXCEPT ![t] = "Alive"]
  /\ parent' = [parent EXCEPT ![t] = This(th)]
  /\ numDependents' = [numDependents EXCEPT ![This(th)] = @ + 1]
  /\ dispatched' = IF f.next = None THEN dispatched
                   ELSE [dispatched EXCEPT ![f.next] = @ + 1]
  /\ local' = [local EXCEPT ![th].unblocked = @ + 1]
  /\ Set(th, [f EXCEPT !.i = @ + 1, !.next = t, !.deps = TRUE])
  /\ UNCHANGED taskPhase

-----------------------------------------------------------------------------
(* Compile creates the root tasks.                                         *)

Spawn(r) ==
  /\ At(Main, "Spawn")
  /\ r \in unspawned
  /\ unspawned' = unspawned \ {r}
  /\ life' = [life EXCEPT ![r] = "Alive"]
  /\ dispatched' = [dispatched EXCEPT ![r] = @ + 1]
  /\ local' = [local EXCEPT ![Main].unblocked = @ + 1]
  /\ UNCHANGED <<parent, numDependents, taskPhase, keyVars, stack, sharedVars,
                 aborted>>

SpawnEnd ==
  /\ At(Main, "Spawn")
  /\ unspawned = {}
  /\ Set(Main, [Top(Main) EXCEPT !.pc = "End"])
  /\ UNCHANGED <<taskVars, keyVars, unspawned, local, sharedVars, aborted>>

-----------------------------------------------------------------------------
(* operator() of a task.                                                   *)

\* An idle thread takes a task from the dispatcher and becomes busy.
Start(th, t) ==
  /\ ~aborted
  /\ stack[th] = <<>>
  /\ dispatched[t] > 0
  /\ dispatched' = [dispatched EXCEPT ![t] = @ - 1]
  /\ stack' = [stack EXCEPT ![th] = <<Frame(t, 0)>>]
  /\ packed' = AddTo(packed, 1, 0)
  /\ local' = [local EXCEPT ![th] = Zero]
  /\ UNCHANGED <<life, parent, numDependents, taskPhase, keyVars, unspawned,
                 blockedTasks, aborted>>

\* As a bug would have it: the task does not depend on itself.
EnterUnguarded(th) ==
  LET t == This(th) IN
  /\ At(th, "Enter")
  /\ Set(th, [Top(th) EXCEPT !.pc = IF taskPhase[t] = 0 THEN "Inputs"
                                    ELSE IF t \in Keys THEN "Compile"
                                    ELSE "Complete"])
  /\ UNCHANGED <<taskVars, keyVars, unspawned, local, sharedVars, aborted>>

\* The task depends on itself while it runs; it resumes at its phase.
Enter(th) ==
  LET t == This(th) IN
  /\ At(th, "Enter")
  /\ numDependents' = [numDependents EXCEPT ![t] = @ + 1]
  /\ IF numDependents[t] = 0 THEN Block(th) ELSE UNCHANGED local
  /\ Set(th, [Top(th) EXCEPT !.pc = IF taskPhase[t] = 0 THEN "Inputs"
                                    ELSE IF t \in Keys THEN "Compile"
                                    ELSE "Complete"])
  /\ UNCHANGED <<life, parent, taskPhase, dispatched, keyVars, unspawned,
                 sharedVars, aborted>>

\* Phase 1 of a root or an output providing task: a subtask per input.
ResolveInput(th) ==
  LET t == This(th) IN
  /\ At(th, "Inputs")
  /\ ~IsInputTask(t)
  /\ Top(th).i <= Len(InputKeys[t])
  /\ NewSubtask(th, <<t, Top(th).i>>, Top(th))
  /\ UNCHANGED <<keyVars, unspawned, sharedVars, aborted>>

\* Phase 1 of an input resolving task: each output key is in the cache, done,
\* claimed by another task, or claimed by this one.
Requested(th) == OutputKeys(This(th))[Top(th).i]

Requests(th) == /\ At(th, "Inputs")
                /\ IsInputTask(This(th))
                /\ Top(th).i <= Len(OutputKeys(This(th)))

Available(th) ==
  /\ Requests(th)
  /\ Requested(th) \in compiled \/ claimed[Requested(th)] = "Done"
  /\ Set(th, [Top(th) EXCEPT !.i = @ + 1])
  /\ UNCHANGED <<taskVars, keyVars, unspawned, local, sharedVars, aborted>>

\* As a bug would have it: ClaimSubtask does not note that the task waits.
WaitUnnoted(th) ==
  LET k == Requested(th) t == This(th) IN
  /\ Requests(th)
  /\ k \notin compiled
  /\ claimed[k] = "Claimed"
  /\ waiting' = [waiting EXCEPT ![k] = <<t>> \o @]
  /\ numDependents' = [numDependents EXCEPT ![t] = @ + 1]
  /\ Set(th, [Top(th) EXCEPT !.i = @ + 1])
  /\ UNCHANGED <<life, parent, taskPhase, dispatched, claimed, compiled,
                 unspawned, local, sharedVars, aborted>>

Wait(th) ==
  LET k == Requested(th) t == This(th) IN
  /\ Requests(th)
  /\ k \notin compiled
  /\ claimed[k] = "Claimed"
  /\ waiting' = [waiting EXCEPT ![k] = <<t>> \o @]
  /\ numDependents' = [numDependents EXCEPT ![t] = @ + 1]
  /\ Set(th, [Top(th) EXCEPT !.i = @ + 1, !.deps = TRUE])
  /\ UNCHANGED <<life, parent, taskPhase, dispatched, claimed, compiled,
                 unspawned, local, sharedVars, aborted>>

Claim(th) ==
  LET k == Requested(th) IN
  /\ Requests(th)
  /\ k \notin compiled
  /\ claimed[k] = "Unclaimed"
  /\ claimed' = [claimed EXCEPT ![k] = "Claimed"]
  /\ NewSubtask(th, k, Top(th))
  /\ UNCHANGED <<waiting, compiled, unspawned, sharedVars, aborted>>

\* The phase ends.  With dependencies the task returns its last subtask as
\* the one to run next; without it goes on with phase 2.
NumRequests(t) == IF IsInputTask(t) THEN Len(OutputKeys(t)) ELSE Len(InputKeys[t])

EndPhase(th) ==
  LET t == This(th) IN
  /\ At(th, "Inputs")
  /\ Top(th).i > NumRequests(t)
  /\ taskPhase' = [taskPhase EXCEPT ![t] = 1]
  /\ Set(th, [Top(th) EXCEPT !.pc =
                IF Top(th).deps THEN "Suspend"
                ELSE IF t \in Keys THEN "Compile" ELSE "Complete"])
  /\ UNCHANGED <<life, parent, numDependents, dispatched, keyVars, unspawned,
                 local, sharedVars, aborted>>

\* The task is not complete: it runs its last subtask ...
RunSubtask(th) ==
  LET f == [Top(th) EXCEPT !.next = None] IN
  /\ At(th, "Suspend")
  /\ Top(th).next # None
  /\ IF f.depth < MaxDepth
     THEN Invoke(th, f, Top(th).next) /\ UNCHANGED dispatched
     ELSE /\ Set(th, f)
          /\ dispatched' = [dispatched EXCEPT ![Top(th).next] = @ + 1]
  /\ UNCHANGED <<life, parent, numDependents, taskPhase, keyVars, unspawned,
                 local, sharedVars, aborted>>

\* ... and gives up the dependency on itself; without others it runs again.
Suspend(th) ==
  /\ At(th, "Suspend")
  /\ Top(th).next = None
  /\ RemoveDependency(th, This(th), [Top(th) EXCEPT !.pc = "End"], TRUE)
  /\ UNCHANGED <<life, parent, taskPhase, keyVars, unspawned, sharedVars,
                 aborted>>

\* Phase 2 of an output providing task.  A null node ends the task before the
\* output is published and before the key is marked done.
CompileNode(th) ==
  LET k == This(th) IN
  /\ At(th, "Compile")
  /\ IF k \in Failing
     THEN /\ Set(th, [Top(th) EXCEPT !.pc = "Complete"])
          /\ UNCHANGED compiled
     ELSE /\ Set(th, [Top(th) EXCEPT !.pc = "MarkDone"])
          /\ compiled' = compiled \cup {k}
  /\ UNCHANGED <<taskVars, claimed, waiting, unspawned, local, sharedVars,
                 aborted>>

\* As a bug would have it: the head of the waiting list is skipped.
MarkDoneSkipsHead(th) ==
  LET k == This(th) IN
  /\ At(th, "MarkDone")
  /\ claimed' = [claimed EXCEPT ![k] = "Done"]
  /\ waiting' = [waiting EXCEPT ![k] = <<>>]
  /\ Set(th, [Top(th) EXCEPT !.pc = "Notify",
                             !.list = IF waiting[k] = <<>> THEN <<>>
                                      ELSE Tail(waiting[k])])
  /\ UNCHANGED <<taskVars, compiled, unspawned, local, sharedVars, aborted>>

MarkDone(th) ==
  LET k == This(th) IN
  /\ At(th, "MarkDone")
  /\ claimed' = [claimed EXCEPT ![k] = "Done"]
  /\ waiting' = [waiting EXCEPT ![k] = <<>>]
  /\ Set(th, [Top(th) EXCEPT !.pc = "Notify", !.list = waiting[k]])
  /\ UNCHANGED <<taskVars, compiled, unspawned, local, sharedVars, aborted>>

\* The waiting tasks go to the dispatcher as their last dependency is removed.
Notify(th) ==
  /\ At(th, "Notify")
  /\ IF Top(th).list = <<>>
     THEN /\ Set(th, [Top(th) EXCEPT !.pc = "Complete"])
          /\ UNCHANGED <<numDependents, dispatched, local>>
     ELSE RemoveDependency(th, Head(Top(th).list),
                           [Top(th) EXCEPT !.list = Tail(@)], FALSE)
  /\ UNCHANGED <<life, parent, taskPhase, keyVars, unspawned, sharedVars,
                 aborted>>

\* The task is complete: its parent has one dependency less.
Complete(th) ==
  LET f == [Top(th) EXCEPT !.pc = "Destroy"] p == parent[This(th)] IN
  /\ At(th, "Complete")
  /\ IF p = None
     THEN Set(th, f) /\ UNCHANGED <<numDependents, dispatched, local>>
     ELSE RemoveDependency(th, p, f, TRUE)
  /\ UNCHANGED <<life, parent, taskPhase, keyVars, unspawned, sharedVars,
                 aborted>>

\* The task removes the dependency on itself and is deleted: it was blocked,
\* becomes unblocked, and is gone.
Destroy(th) ==
  LET t == This(th) IN
  /\ At(th, "Destroy")
  /\ numDependents' = [numDependents EXCEPT ![t] = @ - 1]
  /\ IF numDependents[t] = 1
     THEN local' = [local EXCEPT ![th].blocked = @ - 1]
     ELSE local' = [local EXCEPT ![th].unblocked = @ - 1]
  /\ life' = [life EXCEPT ![t] = "Deleted"]
  /\ Set(th, [Top(th) EXCEPT !.pc = "End"])
  /\ UNCHANGED <<parent, taskPhase, dispatched, keyVars, unspawned, sharedVars,
                 aborted>>

-----------------------------------------------------------------------------
(* EndThreadBusy.                                                          *)

\* A nested frame just returns.
EndNested(th) ==
  /\ At(th, "End")
  /\ Len(stack[th]) > 1
  /\ stack' = [stack EXCEPT ![th] = Tail(@)]
  /\ UNCHANGED <<taskVars, keyVars, unspawned, local, sharedVars, aborted>>

\* As a bug would have it: the blocked tasks are not flushed.
FlushBlockedNot(th) ==
  /\ At(th, "End")
  /\ Len(stack[th]) = 1
  /\ Set(th, [Top(th) EXCEPT !.pc = "Flush"])
  /\ UNCHANGED <<taskVars, keyVars, unspawned, local, sharedVars, aborted>>

\* The outermost one adds the blocked tasks of the thread first ...
FlushBlocked(th) ==
  /\ At(th, "End")
  /\ Len(stack[th]) = 1
  /\ blockedTasks' = blockedTasks + local[th].blocked
  /\ Set(th, [Top(th) EXCEPT !.pc = "Flush"])
  /\ UNCHANGED <<taskVars, keyVars, unspawned, local, packed, aborted>>

\* As a bug would have it: unblocked tasks do not matter.
FlushBusyAnyUnblocked(th) ==
  /\ At(th, "Flush")
  /\ packed' = AddTo(packed, -1, local[th].unblocked)
  /\ IF busyThreads' = 0
     THEN Set(th, [Top(th) EXCEPT !.pc = "Check"])
     ELSE stack' = [stack EXCEPT ![th] = <<>>]
  /\ UNCHANGED <<taskVars, keyVars, unspawned, local, blockedTasks, aborted>>

\* As a bug would have it: busy threads do not matter.
FlushBusyAnyThread(th) ==
  /\ At(th, "Flush")
  /\ packed' = AddTo(packed, -1, local[th].unblocked)
  /\ IF unblockedTasks' = 0
     THEN Set(th, [Top(th) EXCEPT !.pc = "Check"])
     ELSE stack' = [stack EXCEPT ![th] = <<>>]
  /\ UNCHANGED <<taskVars, keyVars, unspawned, local, blockedTasks, aborted>>

\* As a bug would have it: the values before the addition are tested.
FlushBusyOldValues(th) ==
  /\ At(th, "Flush")
  /\ packed' = AddTo(packed, -1, local[th].unblocked)
  /\ IF busyThreads = 0 /\ unblockedTasks = 0
     THEN Set(th, [Top(th) EXCEPT !.pc = "Check"])
     ELSE stack' = [stack EXCEPT ![th] = <<>>]
  /\ UNCHANGED <<taskVars, keyVars, unspawned, local, blockedTasks, aborted>>

\* ... then, in one atomic operation, the unblocked tasks and the thread.
FlushBusy(th) ==
  /\ At(th, "Flush")
  /\ packed' = AddTo(packed, -1, local[th].unblocked)
  /\ IF busyThreads' = 0 /\ unblockedTasks' = 0
     THEN Set(th, [Top(th) EXCEPT !.pc = "Check"])
     ELSE stack' = [stack EXCEPT ![th] = <<>>]
  /\ UNCHANGED <<taskVars, keyVars, unspawned, local, blockedTasks, aborted>>

\* Without busy threads and unblocked tasks, blocked ones mean a cycle.
Check(th) ==
  /\ At(th, "Check")
  /\ aborted' = (blockedTasks # 0)
  /\ stack' = [stack EXCEPT ![th] = <<>>]
  /\ UNCHANGED <<taskVars, keyVars, unspawned, local, sharedVars>>

-----------------------------------------------------------------------------
Step(th) == \/ Enter(th) \/ ResolveInput(th)
            \/ Available(th) \/ Wait(th) \/ Claim(th)
            \/ EndPhase(th) \/ RunSubtask(th) \/ Suspend(th)
            \/ CompileNode(th) \/ MarkDone(th) \/ Notify(th)
            \/ Complete(th) \/ Destroy(th)
            \/ EndNested(th) \/ FlushBlocked(th) \/ FlushBusy(th) \/ Check(th)

Spawning == SpawnEnd \/ \E r \in Roots : Spawn(r)

Starting == \E th \in Threads, t \in Tasks : Start(th, t)

\* dispatcher.Wait returns when every task it was given has returned; that
\* says nothing of tasks that are asleep.
WaitReturns == /\ unspawned = {}
               /\ \A th \in Threads : stack[th] = <<>>
               /\ \A t \in Tasks : dispatched[t] = 0

Terminated == (aborted \/ WaitReturns) /\ UNCHANGED vars

Next == \/ \E th \in Threads : Step(th)
        \/ Spawning
        \/ Starting
        \/ Terminated

\* Threads are not suspended forever, and the dispatcher finds a thread for
\* the tasks it was given.
Fairness == /\ \A th \in Threads : WF_vars(Step(th))
            /\ WF_vars(Spawning)
            /\ WF_vars(Starting)

Spec == Init /\ [][Next]_vars
FairSpec == Spec /\ Fairness

-----------------------------------------------------------------------------
(* Properties.                                                             *)

Pcs == {"Spawn", "Enter", "Inputs", "Suspend", "Compile", "MarkDone", "Notify",
        "Complete", "Destroy", "End", "Flush", "Check"}

\* Counters and program counters are in range, and the recursion of
\* _RunOrInvoke keeps the stack of every thread within its bound.
TypeOK ==
  /\ life \in [Tasks -> {"Absent", "Alive", "Deleted"}]
  /\ parent \in [Tasks -> {None} \cup Tasks]
  /\ numDependents \in [Tasks -> Nat]
  /\ taskPhase \in [Tasks -> 0 .. 1]
  /\ dispatched \in [Tasks -> 0 .. 1]
  /\ claimed \in [Keys -> {"Unclaimed", "Claimed", "Done"}]
  /\ \A k \in Keys : waiting[k] \in Seq(InputTasks)
  /\ compiled \subseteq Keys
  /\ unspawned \subseteq Roots
  /\ \A th \in Threads :
       /\ Len(stack[th]) <= MaxDepth + 1
       /\ \A j \in DOMAIN stack[th] : stack[th][j].pc \in Pcs
  /\ busyThreads \in 0 .. Cardinality(Threads)
  /\ aborted \in BOOLEAN

Frames == UNION {{<<th, j>> : j \in DOMAIN stack[th]} : th \in Threads}
FrameOf(x) == stack[x[1]][x[2]]

\* The frame still uses the task: operator() has not reached a return.
InUse(x, t) == FrameOf(x).task = t /\ FrameOf(x).pc \notin {"End", "Flush", "Check"}

\* operator() is not re-entrant: no task is inside two frames, of one thread or
\* of two, and a task that was handed to the dispatcher is in none and has no
\* unfulfilled dependency.
NotReentrant ==
  \A t \in Tasks :
    /\ \A x, y \in Frames : InUse(x, t) /\ InUse(y, t) => x = y
    /\ dispatched[t] > 0 => /\ \A x \in Frames : ~InUse(x, t)
                            /\ numDependents[t] = 0

\* Tasks delete themselves: what a frame uses, the parent a task has still to
\* notify, the tasks on a waiting list and those taken from it are alive.
NoUseAfterDelete ==
  /\ \A t \in Tasks :
       /\ \A x \in Frames : InUse(x, t) => life[t] = "Alive"
       /\ dispatched[t] > 0 => life[t] = "Alive"
       /\ life[t] = "Alive" /\ parent[t] # None =>
            \/ life[parent[t]] = "Alive"
            \/ \E x \in Frames : FrameOf(x).task = t /\ FrameOf(x).pc = "Destroy"
  /\ \A k \in Keys : \A j \in DOMAIN waiting[k] : life[waiting[k][j]] = "Alive"
  /\ \A x \in Frames : \A j \in DOMAIN FrameOf(x).list :
       life[FrameOf(x).list[j]] = "Alive"

\* A node is compiled after the nodes that provide its inputs, so that Connect
\* has a source for each of them; a source whose compilation failed is null.
CompiledInOrder ==
  \A k \in compiled \ Cached : \A i \in DOMAIN InputKeys[k] :
    \A j \in DOMAIN InputKeys[k][i] :
      InputKeys[k][i][j] \in compiled \cup Failing

\* The sum of the amounts of the threads in T: an amount of n has n units, or
\* -n units of debt.
Units(amount, T) == UNION {{th} \X (1 .. amount[th]) : th \in T}
Total(amount, T) == Cardinality(Units(amount, T))
                    - Cardinality(Units([th \in T |-> -amount[th]], T))

\* What busy threads have counted and not flushed yet.
Unflushed(field, pcs) ==
  Total([th \in Threads |-> local[th][field]],
      {th \in Threads : stack[th] # <<>> /\ stack[th][1].pc \notin pcs})

Alive == {t \in Tasks : life[t] = "Alive"}
Blocked == {t \in Alive : numDependents[t] > 0}

\* The cycle detector counts right although a thread may see a task created,
\* blocked, unblocked and destroyed by four different threads: the shared
\* counters and the unflushed ones of the busy threads add up to the tasks
\* that are blocked and unblocked.
CountersExact ==
  /\ blockedTasks + Unflushed("blocked", {"Flush", "Check"}) = Cardinality(Blocked)
  /\ unblockedTasks + Unflushed("unblocked", {"Check"}) =
       Cardinality(Alive \ Blocked)
  /\ busyThreads = Cardinality({th \in Threads : /\ stack[th] # <<>>
                                                 /\ stack[th][1].pc # "Check"})

\* EndThreadBusy ends the process only when the task graph is incapable of
\* making further progress: no thread runs, nothing is dispatched or still to
\* be spawned, and a task is left.
NoFalseAlarm == aborted => WaitReturns /\ Blocked # {} /\ Alive = Blocked

\* When dispatcher.Wait returns in a process that was not ended, no task is left
\* asleep and the destructor of the detector finds all counters 0: a round is
\* never silently incomplete.
NoSilentLoss ==
  WaitReturns /\ ~aborted => /\ Alive = {}
                             /\ <<busyThreads, unblockedTasks, blockedTasks>> =
                                  <<0, 0, 0>>

\* The tasks u that t waits for: its subtasks and the keys whose list it is on.
WaitsFor(t, u) == \/ life[u] = "Alive" /\ parent[u] = t
                  \/ u \in Keys /\ \E j \in DOMAIN waiting[u] : waiting[u][j] = t

\* taskCycleDetector.h: if blocked tasks remain after all unblocked tasks have
\* executed, "then at least one task-cycle must exist among the blocked tasks".
AbortMeansCycle ==
  aborted => \E S \in SUBSET Blocked \ {{}} :
               \A t \in S : \E u \in S : WaitsFor(t, u)

\* The keys whose output an owner needs and an earlier round did not compile.
Needs(o) == {k \in Keys \ Cached :
               \E i \in DOMAIN InputKeys[o] : Contains(InputKeys[o][i], k)}

\* Among the keys the roots need, directly or not, some need each other.
Cyclic(roots) ==
  \A K \in SUBSET Keys :
    (\A o \in roots \cup K : Needs(o) \subseteq K) =>
      \E S \in SUBSET K \ {{}} : \A k \in S : Needs(k) \cap S # {}

\* Every root task of a round without a cycle completes.
RoundCompletes ==
  ~Cyclic(unspawned) => <>(unspawned = {} /\ \A r \in Roots : life[r] # "Alive")

\* A task graph that cannot complete does not hang: the detector ends the process.
CycleIsReported == Cyclic(unspawned) => <>aborted
=============================================================================
