------------------------ MODULE ExecCompilation_proofs ------------------------
(***************************************************************************)
(* The task graph of ExecCompilation, for any inputs, threads and depth.   *)
(***************************************************************************)
EXTENDS ExecCompilation, FiniteSetTheorems, TLAPS

-----------------------------------------------------------------------------
(***************************************************************************)
(* The inductive invariant of the task graph.                              *)
(***************************************************************************)

\* The frames of operator() there can be.
FrameRecs == [task : {None} \cup Tasks, pc : Pcs, depth : 0 .. MaxDepth,
            i : Nat \ {0}, next : {None} \cup Tasks, deps : BOOLEAN,
            list : Seq(InputTasks)]

\* What the variables of the task graph are; a count may be negative here.
Types ==
  /\ life \in [Tasks -> {"Absent", "Alive", "Deleted"}]
  /\ parent \in [Tasks -> {None} \cup Tasks]
  /\ numDependents \in [Tasks -> Int]
  /\ taskPhase \in [Tasks -> 0 .. 1]
  /\ dispatched \in [Tasks -> 0 .. 1]
  /\ claimed \in [Keys -> {"Unclaimed", "Claimed", "Done"}]
  /\ waiting \in [Keys -> Seq(InputTasks)]
  /\ compiled \subseteq Keys /\ unspawned \subseteq Roots
  /\ stack \in [Threads -> Seq(FrameRecs)]

\* The frames on the stacks, and those that are not the innermost one of th.
Active == UNION {{stack[th][j] : j \in 1 .. Len(stack[th])} : th \in Threads}

\* A frame of t is at one of pcs.
In(t, pcs) == \E f \in Active : f.task = t /\ f.pc \in pcs

\* Where an output providing task is once its key is done, and where a task
\* depends on itself.
Leaving == {"Notify", "Complete", "Destroy"}
RunPcs == {"Inputs", "Suspend", "Compile", "MarkDone", "Notify", "Complete", "Destroy"}

\* Frames that use t, or are going to run it.
Handles(t) == {f \in FrameRecs : \/ f.task = t /\ f.pc \notin {"End", "Flush", "Check"}
                               \/ f.next = t}
\* Somebody is going to run t, or runs it.
Handled(t) == \/ dispatched[t] > 0
              \/ \E f \in Active : f \in Handles(t)

\* The n-th entry of s from its end is t: a position that neither a longer list
\* nor one whose head was taken gives to another entry.
AtEnd(s, n, t) == n \in 1 .. Len(s) /\ s[Len(s) + 1 - n] = t

\* The dependencies of t: itself while it runs, its subtasks until they
\* have told it, and its places on waiting lists.
Child(u, t) == life[u] = "Alive" /\ parent[u] = t /\ ~In(u, {"Destroy"})
Entry(k, n, t) == /\ k \in Keys
                  /\ \/ AtEnd(waiting[k], n, t)
                     \/ \E f \in Active : f.task = k /\ AtEnd(f.list, n, t)
Depends(t, u, n) == \/ (n = -1 /\ u = t /\ In(t, RunPcs))
                    \/ (n = 0 /\ Child(u, t))
                    \/ (n > 0 /\ Entry(u, n, t))
Deps(t) == {e \in Tasks \X Int : Depends(t, e[1], e[2])}

\* _numDependents is the number of the dependencies.
CountOK(t) == IsFiniteSet(Deps(t)) /\ numDependents[t] = Cardinality(Deps(t))

\* The outputs an input resolving task asked for are there.
InputDone(u) == \A j \in 1 .. Len(OutputKeys(u)) : OutputKeys(u)[j] \in compiled \cup Failing
\* What the j-th request of t asked for is there, or t depends on it.
Met(t, j) == IF IsInputTask(t)
             THEN \/ OutputKeys(t)[j] \in compiled \cup Failing
                  \/ \E n \in Nat : <<OutputKeys(t)[j], n>> \in Deps(t)
             ELSE <<<<t, j>>, 0>> \in Deps(t) \/ InputDone(<<t, j>>)

\* The depth counts the frames below; these are at a nested invocation, and have
\* handed over their last subtask; EndThreadBusy is for the outermost frame only.
StackOK(th) ==
  LET s == stack[th] IN
  /\ Len(s) <= MaxDepth + 1
  /\ \A j \in 1 .. Len(s) : s[j].depth = Len(s) - j
  /\ \A j \in 2 .. Len(s) : s[j].pc \in {"Suspend", "End", "Destroy"} /\ s[j].next = None
  /\ s # <<>> /\ s[1].pc \in {"Flush", "Check"} => Len(s) = 1

\* What is true of a task where its frame is.  One that has given its last
\* subtask to nobody yet depends on it; past the first phase a running task
\* depends on nothing but itself.
FrameOK(f) ==
  /\ f.pc = "Spawn" => f.task = None
  /\ f.task = None => f.pc \in {"Spawn", "End", "Flush", "Check"}
  /\ f.pc \in {"Compile", "MarkDone", "Notify"} => f.task \in Keys
  /\ f.pc = "Inputs" => taskPhase[f.task] = 0 /\ f.i <= NumRequests(f.task) + 1
  /\ f.pc \in RunPcs \ {"Inputs"} => taskPhase[f.task] = 1
  /\ f.next # None => f.pc \in {"Inputs", "Suspend"} /\ f.deps /\ f.next # f.task
  /\ f.list # <<>> => f.pc = "Notify"
  /\ f.pc = "Inputs" => \A j \in 1 .. f.i - 1 : Met(f.task, j)
  /\ f.pc = "Enter" => f.i = 1 /\ Deps(f.task) = {}
  /\ f.next # None => Deps(f.next) = {}
  /\ f.pc = "Inputs" => f.deps \/ Deps(f.task) = {<<f.task, -1>>}
  /\ f.pc \in RunPcs \ {"Inputs", "Suspend"} => Deps(f.task) = {<<f.task, -1>>}
  /\ f.pc = "MarkDone" => f.task \in compiled
  /\ f.pc = "Notify" => claimed[f.task] = "Done"
  /\ f.pc \in {"Complete", "Destroy"} /\ f.task \in Keys => claimed[f.task] = "Done" \/ f.task \in Failing

\* At most one frame is in S.
Once(S) == \A th, u \in Threads : \A i \in 1 .. Len(stack[th]), j \in 1 .. Len(stack[u]) :
              stack[th][i] \in S /\ stack[u][j] \in S => th = u /\ i = j

\* A task has one place: a frame that uses it, a frame that is to run it, or the
\* dispatcher.
Exclusive(t) == /\ Once(Handles(t))
                /\ dispatched[t] > 0 => \A f \in Active : f \notin Handles(t)

\* A task that nobody runs or is going to run waits for something, and one that
\* the dispatcher has waits for nothing.
TaskOK(t) ==
  /\ life[t] # "Alive" => Deps(t) = {} /\ ~Handled(t)
  /\ life[t] = "Absent" => taskPhase[t] = 0 /\ parent[t] = None
  /\ life[t] = "Deleted" => taskPhase[t] = 1
  /\ dispatched[t] > 0 => Deps(t) = {}
  /\ life[t] = "Alive" => Handled(t) \/ (taskPhase[t] = 1 /\ Deps(t) # {})
  /\ taskPhase[t] = 1 => \A j \in 1 .. NumRequests(t) : Met(t, j)

\* The subtasks of an owner that it has not come to do not exist.
InputsOK(o, i) ==
  (taskPhase[o] = 0 /\ \A f \in Active : (f.task = o /\ f.pc = "Inputs") => f.i <= i)
  => life[<<o, i>>] = "Absent"

\* The claim and the waiting list of a key and the task that compiles it.
KeyOK(k) ==
  /\ life[k] = "Absent" <=> claimed[k] = "Unclaimed"
  /\ claimed[k] # "Claimed" => waiting[k] = <<>>
  /\ claimed[k] = "Done" => k \in compiled /\ (life[k] = "Deleted" \/ In(k, Leaving))
  /\ life[k] = "Deleted" => claimed[k] = "Done" \/ k \in Failing

\* The main thread is busy until all roots exist.
RootsOK == /\ \A r \in unspawned : life[r] = "Absent"
           /\ unspawned # {} => stack[Main] # <<>> /\ Top(Main).pc = "Spawn"

\* The stacks.
StackType == stack \in [Threads -> Seq(FrameRecs)]

Stacks == StackType /\ \A th \in Threads : StackOK(th)

\* The parts that are about one task, frame or key, for all of them.
Counts == \A t \in Tasks : CountOK(t)
FramesOK == \A f \in Active : FrameOK(f)
Handling == \A t \in Tasks : Exclusive(t)
TasksOK == \A t \in Tasks : TaskOK(t)
InputTasksOK == \A o \in Owners : \A i \in 1 .. Len(InputKeys[o]) : InputsOK(o, i)
KeysOK == \A k \in Keys : KeyOK(k)

\* The invariant.
GInv == /\ Types /\ Stacks /\ Counts /\ FramesOK /\ Handling /\ TasksOK
        /\ InputTasksOK /\ KeysOK /\ RootsOK /\ CompiledInOrder

-----------------------------------------------------------------------------
(* What the operations on stacks do to the frames on them.                 *)

\* The frames but the innermost one of th.
Others(th) == (UNION {{stack[u][j] : j \in 1 .. Len(stack[u])} : u \in Threads \ {th}})
              \cup {stack[th][j] : j \in 2 .. Len(stack[th])}

\* Membership in Active and in Others.
LEMMA ActiveDef ==
  \A f : f \in Active <=> \E u \in Threads : \E j \in 1 .. Len(stack[u]) : f = stack[u][j]
  BY DEF Active

LEMMA OthersDef ==
  \A th, f : f \in Others(th) <=>
    \/ \E u \in Threads \ {th} : \E j \in 1 .. Len(stack[u]) : f = stack[u][j]
    \/ \E j \in 2 .. Len(stack[th]) : f = stack[th][j]
<1> SUFFICES ASSUME NEW th, NEW f
             PROVE  f \in Others(th) <=>
                      \/ \E u \in Threads \ {th} : \E j \in 1 .. Len(stack[u]) : f = stack[u][j]
                      \/ \E j \in 2 .. Len(stack[th]) : f = stack[th][j]
  OBVIOUS
<1> DEFINE T == Threads \ {th}
           A == UNION {{stack[u][j] : j \in 1 .. Len(stack[u])} : u \in T}
           B == {stack[th][j] : j \in 2 .. Len(stack[th])}
<1>1. f \in A <=> \E u \in T : \E j \in 1 .. Len(stack[u]) : f = stack[u][j]
  OBVIOUS
<1>2. f \in B <=> \E j \in 2 .. Len(stack[th]) : f = stack[th][j]
  OBVIOUS
<1>3. Others(th) = A \cup B  BY DEF Others
<1> HIDE DEF A, B
<1> QED  BY <1>1, <1>2, <1>3

\* The innermost frame and the others are all the frames.
LEMMA TopFrame ==
  ASSUME StackType, NEW th \in Threads, stack[th] # <<>>
  PROVE  /\ Top(th) \in FrameRecs /\ Top(th) = stack[th][1] /\ Len(stack[th]) \in Nat \ {0}
         /\ Active = {Top(th)} \cup Others(th)
         /\ \A S : Once(S) /\ Top(th) \in S => \A g \in Others(th) : g \notin S
<1>1. stack[th] \in Seq(FrameRecs) /\ Len(stack[th]) \in Nat \ {0}
  BY DEF StackType
<1>2. Top(th) = stack[th][1] /\ Top(th) \in FrameRecs  BY <1>1 DEF Top
<1>3. ASSUME NEW f PROVE f \in Active <=> f = Top(th) \/ f \in Others(th)
  BY <1>1, <1>2, ActiveDef, OthersDef
<1>4. ASSUME NEW S, Once(S), Top(th) \in S, NEW g \in Others(th), g \in S PROVE FALSE
  BY <1>1, <1>2, <1>4, OthersDef DEF Once, StackType
<1> QED  BY <1>1, <1>2, <1>3, <1>4

\* The innermost frame is replaced; a frame that was unique stays so, provided
\* the new one is in S only if the old one was.
LEMMA SetFrame ==
  ASSUME StackType, NEW th \in Threads, stack[th] # <<>>,
         NEW f \in FrameRecs, Set(th, f)
  PROVE  /\ StackType' /\ Active' = {f} \cup Others(th)
         /\ stack'[th] # <<>> /\ Top(th)' = f /\ Len(stack'[th]) = Len(stack[th])
         /\ \A j \in 2 .. Len(stack[th]) : stack'[th][j] = stack[th][j]
         /\ \A u \in Threads \ {th} : stack'[u] = stack[u]
         /\ \A S : /\ Once(S) /\ (f \in S => Top(th) \in S \/ \A g \in Active : g \notin S)
                   => Once(S)'
<1>1. stack[th] \in Seq(FrameRecs) /\ Len(stack[th]) \in Nat \ {0}
  BY DEF StackType
<1>2. stack'[th] = <<f>> \o Tail(stack[th]) /\ \A u \in Threads \ {th} : stack'[u] = stack[u]
  BY DEF Set, StackType
<1>3. /\ stack'[th] \in Seq(FrameRecs) /\ Len(stack'[th]) = Len(stack[th])
      /\ stack'[th][1] = f /\ \A j \in 2 .. Len(stack[th]) : stack'[th][j] = stack[th][j]
  BY <1>1, <1>2
<1>4. StackType'  BY <1>2, <1>3 DEF StackType, Set
<1>5. Top(th)' = f /\ stack'[th] # <<>>  BY <1>1, <1>3 DEF Top
<1>6. ASSUME NEW g PROVE g \in Active' <=> g = f \/ g \in Others(th)
  <2>1. g \in Active' <=> \E u \in Threads : \E j \in 1 .. Len(stack'[u]) : g = stack'[u][j]
    BY DEF Active
  <2>2. g \in Active' => g = f \/ g \in Others(th)
    BY <1>1, <1>2, <1>3, <2>1, OthersDef
  <2>3. g = f => g \in Active'
    BY <1>1, <1>3, <2>1
  <2>4. g \in Others(th) => g \in Active'
    BY <1>1, <1>2, <1>3, <2>1, OthersDef
  <2> QED  BY <2>2, <2>3, <2>4
<1>7. ASSUME NEW S, Once(S), f \in S => Top(th) \in S \/ \A g \in Active : g \notin S
      PROVE  Once(S)'
  <2> SUFFICES ASSUME NEW t \in Threads, NEW u \in Threads,
                      NEW i \in 1 .. Len(stack'[t]), NEW j \in 1 .. Len(stack'[u]),
                      stack'[t][i] \in S, stack'[u][j] \in S
               PROVE  t = u /\ i = j
    BY DEF Once
  <2>1. i \in 1 .. Len(stack[t]) /\ j \in 1 .. Len(stack[u])  BY <1>2, <1>3
  <2>2. CASE f \notin S \/ Top(th) \in S
    <3>1. ASSUME NEW v \in Threads, NEW k \in 1 .. Len(stack[v]), stack'[v][k] \in S
          PROVE  stack[v][k] \in S
      <4>1. CASE v = th /\ k = 1  BY <1>1, <1>3, <2>2, <3>1, <4>1 DEF Top
      <4>2. CASE v # th \/ k # 1  BY <1>1, <1>2, <1>3, <3>1, <4>2
      <4> QED  BY <4>1, <4>2
    <3>2. stack[t][i] \in S /\ stack[u][j] \in S  BY <2>1, <3>1
    <3> QED  BY <1>7, <2>1, <3>2 DEF Once
  <2>3. CASE \A g \in Active : g \notin S
    BY <1>1, <1>2, <1>3, <2>1, <2>3, ActiveDef
  <2> QED  BY <1>7, <2>2, <2>3
<1> QED  BY <1>2, <1>3, <1>4, <1>5, <1>6, <1>7

\* A frame comes on top of the innermost one.
LEMMA PushFrame ==
  ASSUME StackType, NEW th \in Threads, stack[th] # <<>>,
         NEW f \in FrameRecs, NEW t \in Tasks, f.depth < MaxDepth, Invoke(th, f, t)
  PROVE  LET g == Frame(t, f.depth + 1) IN
         /\ g \in FrameRecs
         /\ StackType' /\ Active' = {f, g} \cup Others(th)
         /\ Len(stack'[th]) = Len(stack[th]) + 1
         /\ stack'[th][1] = g /\ stack'[th][2] = f /\ stack'[th] # <<>>
         /\ \A j \in 2 .. Len(stack[th]) : stack'[th][j + 1] = stack[th][j]
         /\ \A u \in Threads \ {th} : stack'[u] = stack[u]
         /\ \A S : /\ Once(S) /\ ~(f \in S /\ g \in S)
                   /\ (f \in S \/ g \in S => Top(th) \in S \/ \A h \in Active : h \notin S)
                   => Once(S)'
<1> DEFINE g == Frame(t, f.depth + 1)
<1>1. stack[th] \in Seq(FrameRecs) /\ Len(stack[th]) \in Nat \ {0}
  BY DEF StackType
<1>2. g \in FrameRecs
  BY InputsAssumption DEF Frame, FrameRecs, Pcs
<1> HIDE DEF g
<1>3. stack'[th] = <<g, f>> \o Tail(stack[th]) /\ \A u \in Threads \ {th} : stack'[u] = stack[u]
  BY DEF Invoke, StackType, g
<1>4. /\ stack'[th] \in Seq(FrameRecs) /\ Len(stack'[th]) = Len(stack[th]) + 1
      /\ stack'[th][1] = g /\ stack'[th][2] = f
      /\ \A j \in 2 .. Len(stack[th]) : stack'[th][j + 1] = stack[th][j]
  BY <1>1, <1>2, <1>3
<1>5. StackType'  BY <1>3, <1>4 DEF StackType, Invoke
<1>6. ASSUME NEW h PROVE h \in Active' <=> h = f \/ h = g \/ h \in Others(th)
  <2>1. h \in Active' <=> \E u \in Threads : \E j \in 1 .. Len(stack'[u]) : h = stack'[u][j]
    BY DEF Active
  <2>2. ASSUME NEW j \in 1 .. Len(stack'[th]), h = stack'[th][j]
        PROVE  h = f \/ h = g \/ h \in Others(th)
    <3>1. CASE j > 2
      <4>1. j - 1 \in 2 .. Len(stack[th]) /\ stack'[th][(j - 1) + 1] = stack[th][j - 1]
        BY <1>1, <1>4, <3>1
      <4> QED  BY <2>2, <4>1, OthersDef
    <3> QED  BY <1>4, <2>2, <3>1
  <2>3. ASSUME NEW u \in Threads \ {th}, NEW j \in 1 .. Len(stack'[u]), h = stack'[u][j]
        PROVE  h \in Others(th)
    BY <1>3, <2>3, OthersDef
  <2>4. h \in Active' => h = f \/ h = g \/ h \in Others(th)  BY <2>1, <2>2, <2>3
  <2>5. h = f \/ h = g => h \in Active'
    BY <1>1, <1>4, <2>1
  <2>6. ASSUME h \in Others(th) PROVE h \in Active'
    <3>1. ASSUME NEW j \in 2 .. Len(stack[th]), h = stack[th][j] PROVE h \in Active'
      <4>1. j + 1 \in 1 .. Len(stack'[th]) /\ stack'[th][j + 1] = h  BY <1>1, <1>4, <3>1
      <4> QED  BY <2>1, <4>1
    <3>2. ASSUME NEW u \in Threads \ {th}, NEW j \in 1 .. Len(stack[u]), h = stack[u][j]
          PROVE  h \in Active'
      BY <1>3, <2>1, <3>2
    <3> QED  BY <2>6, <3>1, <3>2, OthersDef
  <2> QED  BY <2>4, <2>5, <2>6
<1>7. ASSUME NEW S, Once(S), ~(f \in S /\ g \in S),
             f \in S \/ g \in S => Top(th) \in S \/ \A h \in Active : h \notin S
      PROVE  Once(S)'
  <2> SUFFICES ASSUME NEW v \in Threads, NEW u \in Threads,
                      NEW i \in 1 .. Len(stack'[v]), NEW j \in 1 .. Len(stack'[u]),
                      stack'[v][i] \in S, stack'[u][j] \in S
               PROVE  v = u /\ i = j
    BY DEF Once
  <2>1. ASSUME NEW w \in Threads, NEW k \in 1 .. Len(stack'[w])
        PROVE  \/ w = th /\ k \in 1 .. 2 /\ stack'[w][k] \in {f, g}
               \/ /\ w = th /\ k > 2 /\ k - 1 \in 2 .. Len(stack[th])
                  /\ stack'[th][k] = stack[th][k - 1]
               \/ w # th /\ k \in 1 .. Len(stack[w]) /\ stack'[w][k] = stack[w][k]
    <3>1. CASE w # th  BY <1>3, <2>1, <3>1
    <3>2. CASE w = th /\ k > 2
      <4>1. k \in 1 .. Len(stack[th]) + 1 /\ k > 2  BY <1>4, <2>1, <3>2
      <4>2. k - 1 \in 2 .. Len(stack[th]) /\ (k - 1) + 1 = k  BY <1>1, <4>1
      <4>3. stack'[th][(k - 1) + 1] = stack[th][k - 1]  BY <1>4, <4>2
      <4> QED  BY <3>2, <4>2, <4>3
    <3>3. CASE w = th /\ k <= 2
      BY <1>4, <3>3
    <3> QED  BY <3>1, <3>2, <3>3
  <2>2. CASE \A h \in Active : h \notin S
    <3>1. ASSUME NEW w \in Threads, NEW k \in 1 .. Len(stack[w]) PROVE stack[w][k] \notin S
      BY <2>2, ActiveDef
    <3>2. ASSUME NEW w \in Threads, NEW k \in 1 .. Len(stack'[w]), stack'[w][k] \in S
          PROVE  w = th /\ k \in 1 .. 2
      <4>1. CASE w = th /\ k > 2 /\ k - 1 \in 2 .. Len(stack[th]) /\ stack'[th][k] = stack[th][k - 1]
        <5>1. k - 1 \in 1 .. Len(stack[th])  BY <1>1, <4>1
        <5> QED  BY <3>1, <3>2, <4>1, <5>1
      <4> QED  BY <2>1, <3>1, <3>2, <4>1
    <3>3. v = th /\ u = th /\ i \in 1 .. 2 /\ j \in 1 .. 2  BY <3>2
    <3> QED  BY <1>4, <1>7, <3>3
  <2>3. CASE ~(f \in S \/ g \in S)
    <3>1. ASSUME NEW w \in Threads, NEW k \in 1 .. Len(stack'[w]), stack'[w][k] \in S
          PROVE  \/ w = th /\ k - 1 \in 1 .. Len(stack[w]) /\ stack[w][k - 1] \in S
                 \/ w # th /\ k \in 1 .. Len(stack[w]) /\ stack[w][k] \in S
      <4>1. CASE w = th /\ k > 2 /\ k - 1 \in 2 .. Len(stack[th]) /\ stack'[th][k] = stack[th][k - 1]
        <5>1. k - 1 \in 1 .. Len(stack[th])  BY <1>1, <4>1
        <5> QED  BY <3>1, <4>1, <5>1
      <4> QED  BY <2>1, <2>3, <3>1, <4>1
    <3>2. CASE v = th
      <4>1. i - 1 \in 1 .. Len(stack[v]) /\ stack[v][i - 1] \in S  BY <3>1, <3>2
      <4>2. u = th /\ j - 1 \in 1 .. Len(stack[u]) /\ stack[u][j - 1] \in S
        BY <1>7, <3>1, <3>2, <4>1 DEF Once
      <4>3. i - 1 = j - 1  BY <1>7, <3>2, <4>1, <4>2 DEF Once
      <4> QED  BY <1>4, <3>2, <4>2, <4>3
    <3>3. CASE v # th
      <4>1. i \in 1 .. Len(stack[v]) /\ stack[v][i] \in S  BY <3>1, <3>3
      <4> QED  BY <1>1, <1>4, <1>7, <3>1, <3>3, <4>1 DEF Once
    <3> QED  BY <3>2, <3>3
  <2>4. CASE Top(th) \in S
    <3>1. Top(th) = stack[th][1] /\ 1 \in 1 .. Len(stack[th])  BY <1>1 DEF Top
    <3>2. ASSUME NEW w \in Threads, NEW k \in 1 .. Len(stack'[w]), stack'[w][k] \in S
          PROVE  w = th /\ k \in 1 .. 2
      <4>1. ASSUME w = th, k > 2 PROVE FALSE
        <5>1. stack[th][k - 1] \in S /\ k - 1 \in 2 .. Len(stack[th])
          BY <1>1, <2>1, <3>2, <4>1
        <5> QED  BY <1>1, <1>7, <2>4, <3>1, <5>1 DEF Once
      <4>2. ASSUME w # th PROVE FALSE
        <5>1. stack[w][k] \in S /\ k \in 1 .. Len(stack[w])  BY <2>1, <3>2, <4>2
        <5> QED  BY <1>1, <1>7, <2>4, <3>1, <4>2, <5>1 DEF Once
      <4> QED  BY <2>1, <3>2, <4>1, <4>2
    <3>3. v = th /\ u = th /\ i \in 1 .. 2 /\ j \in 1 .. 2  BY <3>2
    <3> QED  BY <1>4, <1>7, <3>3
  <2> QED  BY <1>7, <2>2, <2>3, <2>4
<1> QED  BY <1>2, <1>3, <1>4, <1>5, <1>6, <1>7 DEF g

LEMMA OnceNext ==
  ASSUME NEW S,
         \A v, u \in Threads : \A i \in 1 .. Len(stack'[v]), j \in 1 .. Len(stack'[u]) :
           stack'[v][i] \in S /\ stack'[u][j] \in S => v = u /\ i = j
  PROVE  Once(S)'
  BY DEF Once

\* The innermost frame is left; the only one of a stack goes with the stack.
LEMMA PopFrame ==
  ASSUME StackType, NEW th \in Threads, stack[th] # <<>>,
         stack' = [stack EXCEPT ![th] = Tail(@)]
  PROVE  /\ StackType' /\ Active' = Others(th)
         /\ Len(stack'[th]) = Len(stack[th]) - 1
         /\ \A j \in 1 .. Len(stack'[th]) : stack'[th][j] = stack[th][j + 1]
         /\ \A u \in Threads \ {th} : stack'[u] = stack[u]
         /\ \A S : Once(S) => Once(S)'
<1>1. stack[th] \in Seq(FrameRecs) /\ Len(stack[th]) \in Nat \ {0}
  BY DEF StackType
<1>2. stack'[th] = Tail(stack[th]) /\ \A u \in Threads \ {th} : stack'[u] = stack[u]
  BY DEF StackType
<1>3. /\ stack'[th] \in Seq(FrameRecs) /\ Len(stack'[th]) = Len(stack[th]) - 1
      /\ \A j \in 1 .. Len(stack'[th]) : stack'[th][j] = stack[th][j + 1]
  <2>1. \A s \in Seq(FrameRecs) : s # <<>> =>
          /\ Tail(s) \in Seq(FrameRecs) /\ Len(Tail(s)) = Len(s) - 1
          /\ \A j \in 1 .. Len(Tail(s)) : Tail(s)[j] = s[j + 1]
    OBVIOUS
  <2> QED  BY <1>1, <1>2, <2>1
<1>4. StackType'  BY <1>2, <1>3 DEF StackType
<1>5. ASSUME NEW g PROVE g \in Active' <=> g \in Others(th)
  <2>1. g \in Active' <=> \E u \in Threads : \E j \in 1 .. Len(stack'[u]) : g = stack'[u][j]
    BY DEF Active
  <2>2. ASSUME NEW j \in 1 .. Len(stack'[th]), g = stack'[th][j] PROVE g \in Others(th)
    <3>1. j + 1 \in 2 .. Len(stack[th]) /\ g = stack[th][j + 1]  BY <1>1, <1>3, <2>2
    <3> QED  BY <3>1, OthersDef
  <2>3. ASSUME NEW j \in 2 .. Len(stack[th]), g = stack[th][j] PROVE g \in Active'
    <3>1. j - 1 \in 1 .. Len(stack'[th]) /\ g = stack'[th][j - 1]
      BY <1>1, <1>3, <2>3
    <3> QED  BY <2>1, <3>1
  <2> QED  BY <1>2, <2>1, <2>2, <2>3, OthersDef
<1>6. ASSUME NEW S, Once(S) PROVE Once(S)'
  <2> SUFFICES ASSUME NEW v \in Threads, NEW u \in Threads,
                      NEW i \in 1 .. Len(stack'[v]), NEW j \in 1 .. Len(stack'[u]),
                      stack'[v][i] \in S, stack'[u][j] \in S
               PROVE  v = u /\ i = j
    BY OnceNext
  <2>1. ASSUME NEW w \in Threads, NEW k \in 1 .. Len(stack'[w]), stack'[w][k] \in S
        PROVE  \/ w = th /\ k + 1 \in 1 .. Len(stack[w]) /\ stack[w][k + 1] \in S
               \/ w # th /\ k \in 1 .. Len(stack[w]) /\ stack[w][k] \in S
    <3>1. CASE w = th  BY <1>1, <1>3, <2>1, <3>1
    <3>2. CASE w # th  BY <1>2, <2>1, <3>2
    <3> QED  BY <3>1, <3>2
  <2>2. CASE v = th
    <3>1. i + 1 \in 1 .. Len(stack[v]) /\ stack[v][i + 1] \in S  BY <2>1, <2>2
    <3>2. u = th /\ j + 1 \in 1 .. Len(stack[u]) /\ stack[u][j + 1] \in S
      BY <1>6, <2>1, <2>2, <3>1 DEF Once
    <3>3. i + 1 = j + 1  BY <1>6, <2>2, <3>1, <3>2 DEF Once
    <3> QED  BY <1>3, <2>2, <3>2, <3>3
  <2>3. CASE v # th
    <3>1. i \in 1 .. Len(stack[v]) /\ stack[v][i] \in S  BY <2>1, <2>3
    <3> QED  BY <1>6, <2>1, <2>3, <3>1 DEF Once
  <2> QED  BY <2>2, <2>3
<1> QED  BY <1>2, <1>3, <1>4, <1>5, <1>6

\* To leave the only frame is to leave the stack.
LEMMA LastFrame ==
  ASSUME StackType, NEW th \in Threads, Len(stack[th]) = 1
  PROVE  [stack EXCEPT ![th] = <<>>] = [stack EXCEPT ![th] = Tail(@)]
<1>1. stack[th] \in Seq(FrameRecs)  BY DEF StackType
<1>2. Tail(stack[th]) \in Seq(FrameRecs) /\ Len(Tail(stack[th])) = 0  BY <1>1
<1>3. \A s \in Seq(FrameRecs) : Len(s) = 0 => s = <<>>  OBVIOUS
<1> QED  BY <1>2, <1>3

\* The first frame of a thread that had none.
LEMMA FirstFrame ==
  ASSUME StackType, NEW th \in Threads, stack[th] = <<>>, NEW t \in Tasks,
         stack' = [stack EXCEPT ![th] = <<Frame(t, 0)>>]
  PROVE  /\ Frame(t, 0) \in FrameRecs
         /\ StackType' /\ Active' = {Frame(t, 0)} \cup Active
         /\ Len(stack'[th]) = 1 /\ stack'[th][1] = Frame(t, 0) /\ stack'[th] # <<>>
         /\ \A u \in Threads \ {th} : stack'[u] = stack[u]
         /\ \A S : Once(S) /\ (Frame(t, 0) \in S => \A g \in Active : g \notin S) => Once(S)'
<1>1. Frame(t, 0) \in FrameRecs
  BY InputsAssumption DEF Frame, FrameRecs, Pcs
<1> DEFINE f == Frame(t, 0)
<1>2. stack'[th] = <<f>> /\ \A u \in Threads \ {th} : stack'[u] = stack[u]
  BY DEF StackType
<1> HIDE DEF f
<1>3. /\ stack'[th] \in Seq(FrameRecs) /\ Len(stack'[th]) = 1 /\ stack'[th][1] = f
      /\ stack'[th] # <<>>
  BY <1>1, <1>2 DEF f
<1>4. StackType'  BY <1>2, <1>3 DEF StackType
<1>5. ASSUME NEW g PROVE g \in Active' <=> g = f \/ g \in Active
  <2>1. g \in Active' <=> \E u \in Threads : \E j \in 1 .. Len(stack'[u]) : g = stack'[u][j]
    BY DEF Active
  <2>2. \A j \in 1 .. Len(stack[th]) : FALSE  OBVIOUS
  <2>3. 1 \in 1 .. Len(stack'[th])  BY <1>3
  <2>4. g \in Active' => g = f \/ g \in Active  BY <1>2, <1>3, <2>1, ActiveDef
  <2>5. g = f => g \in Active'  BY <1>3, <2>1, <2>3
  <2>6. g \in Active => g \in Active'  BY <1>2, <2>1, <2>2, ActiveDef
  <2> QED  BY <2>4, <2>5, <2>6
<1>6. ASSUME NEW S, Once(S), f \in S => \A g \in Active : g \notin S PROVE Once(S)'
  <2> SUFFICES ASSUME NEW v \in Threads, NEW u \in Threads,
                      NEW i \in 1 .. Len(stack'[v]), NEW j \in 1 .. Len(stack'[u]),
                      stack'[v][i] \in S, stack'[u][j] \in S
               PROVE  v = u /\ i = j
    BY DEF Once
  <2>1. ASSUME NEW w \in Threads, NEW k \in 1 .. Len(stack'[w]), stack'[w][k] \in S
        PROVE  \/ w = th /\ k = 1 /\ f \in S
               \/ w # th /\ k \in 1 .. Len(stack[w]) /\ stack[w][k] \in S /\ stack[w][k] \in Active
    BY <1>2, <1>3, <2>1, ActiveDef
  <2> QED  BY <1>6, <2>1 DEF Once
<1> QED  BY <1>1, <1>2, <1>3, <1>4, <1>5, <1>6 DEF f

-----------------------------------------------------------------------------
(* StackOK.                                                                *)

\* The operations on stacks keep StackOK: the recursion of _RunOrInvoke stays
\* within its depth.
LEMMA SetStack ==
  ASSUME Stacks, NEW th \in Threads, stack[th] # <<>>,
         NEW f \in FrameRecs, Set(th, f), f.depth = Top(th).depth,
         f.pc \in {"Flush", "Check"} => Len(stack[th]) = 1
  PROVE  Stacks'
<1>1. StackType /\ StackOK(th)  BY DEF Stacks
<1>2. /\ StackType' /\ Len(stack'[th]) = Len(stack[th]) /\ stack'[th][1] = f
      /\ \A j \in 2 .. Len(stack[th]) : stack'[th][j] = stack[th][j]
      /\ \A u \in Threads \ {th} : stack'[u] = stack[u]
  <2>1. Top(th)' = stack'[th][1]
    <3>1. stack'[th] \in Seq(FrameRecs) /\ stack'[th] # <<>>
      BY <1>1, SetFrame DEF StackType
    <3> QED  BY <3>1 DEF Top
  <2> QED  BY <1>1, <2>1, SetFrame
<1>3. Top(th) = stack[th][1] /\ Len(stack[th]) \in Nat \ {0}  BY <1>1, TopFrame
<1>4. StackOK(th)'  BY <1>1, <1>2, <1>3 DEF StackOK
<1>5. ASSUME NEW u \in Threads \ {th} PROVE StackOK(u)'
  BY <1>2, <1>5 DEF StackOK, Stacks
<1> QED  BY <1>2, <1>4, <1>5 DEF Stacks

LEMMA PushStack ==
  ASSUME Stacks, NEW th \in Threads, stack[th] # <<>>,
         NEW f \in FrameRecs, NEW t \in Tasks, Invoke(th, f, t),
         f.depth = Top(th).depth, f.depth < MaxDepth,
         f.pc \in {"Suspend", "End", "Destroy"}, f.next = None
  PROVE  Stacks'
<1> DEFINE g == Frame(t, f.depth + 1)
<1>1. StackType /\ StackOK(th)  BY DEF Stacks
<1>2. /\ StackType' /\ Len(stack'[th]) = Len(stack[th]) + 1
      /\ stack'[th][1] = g /\ stack'[th][2] = f
      /\ \A j \in 2 .. Len(stack[th]) : stack'[th][j + 1] = stack[th][j]
      /\ \A u \in Threads \ {th} : stack'[u] = stack[u]
  BY <1>1, PushFrame
<1>3. Top(th) = stack[th][1] /\ Len(stack[th]) \in Nat \ {0}  BY <1>1, TopFrame
<1>4. g.pc = "Enter" /\ g.depth = f.depth + 1  BY DEF Frame
<1> HIDE DEF g
<1>5. f.depth = Len(stack[th]) - 1  BY <1>1, <1>3 DEF StackOK
<1>6. StackOK(th)'
  <2>1. Len(stack'[th]) <= MaxDepth + 1  BY <1>2, <1>3, <1>5, InputsAssumption
  <2>2. ASSUME NEW j \in 1 .. Len(stack'[th])
        PROVE  /\ stack'[th][j].depth = Len(stack'[th]) - j
               /\ j > 1 => stack'[th][j].pc \in {"Suspend", "End", "Destroy"} /\ stack'[th][j].next = None
    <3>1. CASE j <= 2
      <4>1. j = 1 \/ j = 2  BY <3>1
      <4>2. Len(stack'[th]) = f.depth + 2 /\ f.depth \in Nat  BY <1>2, <1>3, <1>5
      <4>3. CASE j = 1  BY <1>2, <1>4, <4>2, <4>3
      <4>4. CASE j = 2
        <5>1. stack'[th][j] = f  BY <1>2, <4>4
        <5>2. Len(stack'[th]) - j = f.depth  BY <4>2, <4>4
        <5> QED  BY <5>1, <5>2
      <4> QED  BY <4>1, <4>3, <4>4
    <3>2. CASE j > 2
      <4>1. j - 1 \in 2 .. Len(stack[th]) /\ (j - 1) + 1 = j  BY <1>2, <1>3, <3>2
      <4>2. stack'[th][j] = stack[th][j - 1]  BY <1>2, <4>1
      <4>3. stack[th][j - 1].depth = Len(stack[th]) - (j - 1)
        <5>1. j - 1 \in 1 .. Len(stack[th])  BY <1>3, <4>1
        <5> QED  BY <1>1, <5>1 DEF StackOK
      <4>4. stack[th][j - 1].pc \in {"Suspend", "End", "Destroy"} /\ stack[th][j - 1].next = None
        BY <1>1, <4>1 DEF StackOK
      <4>5. Len(stack[th]) - (j - 1) = Len(stack'[th]) - j  BY <1>2, <1>3
      <4> QED  BY <4>2, <4>3, <4>4, <4>5
    <3> QED  BY <3>1, <3>2
  <2> QED  BY <1>2, <1>4, <2>1, <2>2 DEF StackOK
<1>7. ASSUME NEW u \in Threads \ {th} PROVE StackOK(u)'
  <2>1. StackOK(u) /\ stack'[u] = stack[u]  BY <1>2 DEF Stacks
  <2> QED  BY <2>1 DEF StackOK
<1> QED  BY <1>2, <1>6, <1>7 DEF Stacks

LEMMA PopStack ==
  ASSUME Stacks, NEW th \in Threads, stack[th] # <<>>,
         stack' = [stack EXCEPT ![th] = Tail(@)]
  PROVE  Stacks'
<1>1. StackType /\ StackOK(th)  BY DEF Stacks
<1>2. /\ StackType' /\ Len(stack'[th]) = Len(stack[th]) - 1
      /\ \A j \in 1 .. Len(stack'[th]) : stack'[th][j] = stack[th][j + 1]
      /\ \A u \in Threads \ {th} : stack'[u] = stack[u]
  BY <1>1, PopFrame
<1>3. Len(stack[th]) \in Nat \ {0}  BY <1>1, TopFrame
<1>4. ASSUME NEW j \in 1 .. Len(stack'[th])
      PROVE  /\ stack'[th][j].depth = Len(stack'[th]) - j
             /\ stack'[th][j].pc \in {"Suspend", "End", "Destroy"} /\ stack'[th][j].next = None
  <2>1. j + 1 \in 2 .. Len(stack[th]) /\ stack'[th][j] = stack[th][j + 1]
    BY <1>2, <1>3
  <2> QED  BY <1>1, <1>2, <1>3, <2>1 DEF StackOK
<1>5. stack'[th] # <<>> => 1 \in 1 .. Len(stack'[th])  BY <1>2 DEF StackType
<1>6. Len(stack'[th]) <= MaxDepth + 1  BY <1>1, <1>2, <1>3, InputsAssumption DEF StackOK
<1>7. Len(stack'[th]) \in Nat  BY <1>2, <1>3
<1>8. StackOK(th)'
  <2>1. \A j \in 2 .. Len(stack'[th]) : j \in 1 .. Len(stack'[th])  BY <1>7
  <2>2. ~(stack'[th] # <<>> /\ stack'[th][1].pc \in {"Flush", "Check"})  BY <1>4, <1>5
  <2> QED  BY <1>4, <1>6, <2>1, <2>2, Zenon DEF StackOK
<1>9. ASSUME NEW u \in Threads \ {th} PROVE StackOK(u)'
  BY <1>2, <1>9 DEF StackOK, Stacks
<1> QED  BY <1>2, <1>8, <1>9 DEF Stacks

LEMMA FirstStack ==
  ASSUME Stacks, NEW th \in Threads, stack[th] = <<>>, NEW t \in Tasks,
         stack' = [stack EXCEPT ![th] = <<Frame(t, 0)>>]
  PROVE  Stacks'
<1>1. /\ StackType' /\ Len(stack'[th]) = 1 /\ stack'[th][1] = Frame(t, 0)
      /\ \A u \in Threads \ {th} : stack'[u] = stack[u]
  BY FirstFrame DEF Stacks
<1>2. Frame(t, 0).depth = 0 /\ Frame(t, 0).pc = "Enter"  BY DEF Frame
<1>3. StackOK(th)'  BY <1>1, <1>2, InputsAssumption DEF StackOK
<1>4. ASSUME NEW u \in Threads \ {th} PROVE StackOK(u)'
  BY <1>1, <1>4 DEF StackOK, Stacks
<1> QED  BY <1>1, <1>3, <1>4 DEF Stacks

-----------------------------------------------------------------------------
(* Dependencies.                                                           *)

\* The pcs of a frame that does not use its task, or not yet.
Idle == {"Spawn", "Enter", "End", "Flush", "Check"}

\* Membership in Deps, and how a step changes it.
LEMMA DepsDef ==
  /\ \A t, u, n : <<u, n>> \in Deps(t) <=> u \in Tasks /\ n \in Int /\ Depends(t, u, n)
  /\ \A t : \A e \in Deps(t) : e \in Tasks \X Int /\ e = <<e[1], e[2]>>
  BY DEF Deps

LEMMA DepsNext ==
  /\ \A t, u, n : <<u, n>> \in Deps(t)' <=> u \in Tasks /\ n \in Int /\ Depends(t, u, n)'
  /\ \A t : \A e \in Deps(t)' : e \in Tasks \X Int /\ e = <<e[1], e[2]>>
  BY DEF Deps

LEMMA DepsSame ==
  ASSUME NEW t, \A u \in Tasks, n \in Int : Depends(t, u, n)' <=> Depends(t, u, n)
  PROVE  Deps(t)' = Deps(t)
<1>1. ASSUME NEW e \in Tasks \X Int PROVE e \in Deps(t)' <=> e \in Deps(t)
  BY DepsDef, DepsNext
<1> QED  BY <1>1 DEF Deps

LEMMA DepsPlus ==
  ASSUME NEW t, NEW w \in Tasks, NEW m \in Int,
         \A u \in Tasks, n \in Int :
           Depends(t, u, n)' <=> Depends(t, u, n) \/ (u = w /\ n = m)
  PROVE  Deps(t)' = Deps(t) \cup {<<w, m>>}
<1>1. ASSUME NEW e \in Tasks \X Int PROVE e \in Deps(t)' <=> e \in Deps(t) \cup {<<w, m>>}
  BY DepsDef, DepsNext
<1>2. Deps(t)' \subseteq Tasks \X Int /\ Deps(t) \cup {<<w, m>>} \subseteq Tasks \X Int
  BY DepsDef, DepsNext
<1> QED  BY <1>1, <1>2

LEMMA DepsMinus ==
  ASSUME NEW t, NEW w \in Tasks, NEW m \in Int,
         \A u \in Tasks, n \in Int :
           Depends(t, u, n)' <=> Depends(t, u, n) /\ ~(u = w /\ n = m)
  PROVE  Deps(t)' = Deps(t) \ {<<w, m>>}
<1>1. ASSUME NEW e \in Tasks \X Int PROVE e \in Deps(t)' <=> e \in Deps(t) \ {<<w, m>>}
  BY DepsDef, DepsNext
<1>2. Deps(t)' \subseteq Tasks \X Int /\ Deps(t) \ {<<w, m>>} \subseteq Tasks \X Int
  BY DepsDef, DepsNext
<1> QED  BY <1>1, <1>2

\* The count goes with the dependencies.
LEMMA CountSame ==
  ASSUME NEW t \in Tasks, CountOK(t), Deps(t)' = Deps(t), numDependents'[t] = numDependents[t]
  PROVE  CountOK(t)'
  BY DEF CountOK

LEMMA CountPlus ==
  ASSUME NEW t \in Tasks, CountOK(t), NEW e, e \notin Deps(t),
         Deps(t)' = Deps(t) \cup {e}, numDependents'[t] = numDependents[t] + 1
  PROVE  CountOK(t)'
  BY FS_AddElement DEF CountOK

LEMMA CountMinus ==
  ASSUME NEW t \in Tasks, CountOK(t), NEW e, e \in Deps(t),
         Deps(t)' = Deps(t) \ {e}, numDependents'[t] = numDependents[t] - 1
  PROVE  CountOK(t)'
  BY FS_RemoveElement DEF CountOK

LEMMA CountIs ==
  ASSUME NEW t \in Tasks, CountOK(t)
  PROVE  /\ numDependents[t] \in Nat
         /\ numDependents[t] = 0 <=> Deps(t) = {}
         /\ \A e \in Deps(t) : numDependents[t] = 1 <=> Deps(t) = {e}
<1>1. IsFiniteSet(Deps(t)) /\ numDependents[t] = Cardinality(Deps(t))  BY DEF CountOK
<1>2. ASSUME NEW e \in Deps(t) PROVE numDependents[t] = 1 <=> Deps(t) = {e}
  BY <1>1, FS_Singleton
<1> QED  BY <1>1, <1>2, FS_CardinalityType, FS_EmptySet

\* Names of tasks tell their kinds.
LEMMA TypeFacts ==
  /\ Owners \subseteq Tasks /\ Roots \subseteq Owners /\ Keys \subseteq Owners
  /\ InputTasks \subseteq Tasks /\ InputTasks \cap Owners = {}
  /\ \A t \in Tasks : t # None /\ (t \in InputTasks \/ t \in Owners)
  /\ \A o \in Owners : InputKeys[o] \in Seq(Seq(Keys)) /\ Len(InputKeys[o]) \in Nat
  /\ \A o \in Owners : \A i \in 1 .. Len(InputKeys[o]) : <<o, i>> \in InputTasks
  /\ \A u \in InputTasks : /\ u[1] \in Owners /\ u[2] \in 1 .. Len(InputKeys[u[1]])
                           /\ u = <<u[1], u[2]>> /\ OutputKeys(u) \in Seq(Keys)
  /\ \A t \in Tasks : NumRequests(t) \in Nat
<1>1. \A o \in Owners : InputKeys[o] \in Seq(Seq(Keys)) /\ Len(InputKeys[o]) \in Nat
  BY InputsAssumption
<1>2. ASSUME NEW u \in InputTasks
      PROVE  /\ u[1] \in Owners /\ u[2] \in 1 .. Len(InputKeys[u[1]]) /\ u = <<u[1], u[2]>>
             /\ OutputKeys(u) \in Seq(Keys)
  <2>1. PICK o \in Owners : u \in {o} \X (1 .. Len(InputKeys[o]))  BY DEF InputTasks
  <2>2. u[1] = o /\ u[2] \in 1 .. Len(InputKeys[o]) /\ u = <<u[1], u[2]>>  BY <2>1
  <2>3. InputKeys[o][u[2]] \in Seq(Keys)  BY <1>1, <2>2
  <2> QED  BY <2>2, <2>3 DEF OutputKeys
<1>3. ASSUME NEW o \in Owners, NEW i \in 1 .. Len(InputKeys[o]) PROVE <<o, i>> \in InputTasks
  BY DEF InputTasks
<1>4. /\ Owners \subseteq Tasks /\ Roots \subseteq Owners /\ Keys \subseteq Owners
      /\ InputTasks \subseteq Tasks /\ InputTasks \cap Owners = {}
      /\ \A t \in Tasks : t # None /\ (t \in InputTasks \/ t \in Owners)
  BY InputsAssumption DEF Tasks, Owners
<1>5. ASSUME NEW t \in Tasks PROVE NumRequests(t) \in Nat
  <2>1. CASE t \in InputTasks
    <3>1. Len(OutputKeys(t)) \in Nat  BY <1>2, <2>1
    <3> QED  BY <2>1, <3>1 DEF NumRequests, IsInputTask
  <2>2. CASE t \notin InputTasks
    BY <1>1, <1>4, <2>2 DEF NumRequests, IsInputTask
  <2> QED  BY <2>1, <2>2
<1> QED  BY <1>1, <1>2, <1>3, <1>4, <1>5

-----------------------------------------------------------------------------
(* What a step of a task leaves as it was.                                 *)

Over == {"End", "Flush", "Check"}

\* The innermost frame of th becomes f, and the frames in New come on top of it.
Replaced(th, f, New) ==
  /\ Stacks' /\ Active' = {f} \cup New \cup Others(th)
  /\ \A u \in Threads \ {th} : stack'[u] = stack[u]
  /\ \A S : /\ Once(S) /\ (\A g \in New : ~(f \in S /\ g \in S))
            /\ (f \in S \/ \E g \in New : g \in S) =>
                 (Top(th) \in S \/ \A h \in Active : h \notin S)
            => Once(S)'

\* The two ways to go on with a frame.
LEMMA SetReplaces ==
  ASSUME Stacks, NEW th \in Threads, stack[th] # <<>>,
         NEW f \in FrameRecs, Set(th, f), f.depth = Top(th).depth,
         f.pc \in {"Flush", "Check"} => Len(stack[th]) = 1
  PROVE  Replaced(th, f, {})
<1>1. Stacks'  BY SetStack
<1>2. /\ Active' = {f} \cup Others(th) /\ \A u \in Threads \ {th} : stack'[u] = stack[u]
      /\ \A S : Once(S) /\ (f \in S => Top(th) \in S \/ \A g \in Active : g \notin S) => Once(S)'
  BY SetFrame DEF Stacks
<1> QED  BY <1>1, <1>2 DEF Replaced

LEMMA PushReplaces ==
  ASSUME Stacks, NEW th \in Threads, stack[th] # <<>>,
         NEW f \in FrameRecs, NEW t \in Tasks, Invoke(th, f, t),
         f.depth = Top(th).depth, f.depth < MaxDepth,
         f.pc \in {"Suspend", "End", "Destroy"}, f.next = None
  PROVE  /\ Replaced(th, f, {Frame(t, f.depth + 1)})
         /\ Frame(t, f.depth + 1) \in FrameRecs
<1> DEFINE g == Frame(t, f.depth + 1)
<1>1. Stacks'  BY PushStack
<1>2. /\ g \in FrameRecs
      /\ Active' = {f, g} \cup Others(th) /\ \A u \in Threads \ {th} : stack'[u] = stack[u]
      /\ \A S : /\ Once(S) /\ ~(f \in S /\ g \in S)
                /\ (f \in S \/ g \in S => Top(th) \in S \/ \A h \in Active : h \notin S)
                => Once(S)'
  BY PushFrame DEF Stacks
<1> HIDE DEF g
<1>3. Replaced(th, f, {g})  BY <1>1, <1>2 DEF Replaced
<1> QED  BY <1>2, <1>3 DEF g

\* A task that another one's step may only bring closer to its end.
Steady(v) ==
  /\ taskPhase'[v] = taskPhase[v]
  /\ Deps(v) = {} => Deps(v)' = {}
  /\ Deps(v) = {<<v, -1>>} => Deps(v)' = {<<v, -1>>}
  /\ \A j \in 1 .. NumRequests(v) : Met(v, j) => Met(v, j)'

Grows == compiled \subseteq compiled' /\ \A k \in Keys : claimed[k] = "Done" => claimed'[k] = "Done"

\* What each part of the invariant needs of a step, to be kept by it.
LEMMA MetKept ==
  ASSUME NEW v \in Tasks, NEW j \in 1 .. NumRequests(v),
         compiled \subseteq compiled', Deps(v) \subseteq Deps(v)', Met(v, j)
  PROVE  Met(v, j)'
<1>1. ASSUME NEW u, InputDone(u) PROVE InputDone(u)'
  BY <1>1 DEF InputDone
<1> QED  BY <1>1 DEF Met

LEMMA SteadyIfSame ==
  ASSUME NEW v \in Tasks, compiled \subseteq compiled',
         taskPhase'[v] = taskPhase[v], Deps(v)' = Deps(v)
  PROVE  Steady(v)
  BY MetKept DEF Steady

LEMMA FrameKept ==
  ASSUME NEW f \in FrameRecs, FrameOK(f), Grows,
         f.task \in Tasks /\ f.pc \notin Over => Steady(f.task),
         f.next # None => Steady(f.next)
  PROVE  FrameOK(f)'
<1>1. f.pc \in Pcs /\ f.i \in Nat \ {0} /\ f.task \in {None} \cup Tasks  BY DEF FrameRecs
<1>2. CASE f.pc \in Over \cup {"Spawn"}
  BY <1>2 DEF FrameOK, Over, RunPcs
<1>3. CASE f.pc \notin Over \cup {"Spawn"}
  <2>1. f.task \in Tasks /\ Steady(f.task)  BY <1>1, <1>3 DEF FrameOK, Over
  <2>2. NumRequests(f.task) \in Nat  BY <2>1, TypeFacts
  <2>3. f.pc = "Inputs" => \A j \in 1 .. f.i - 1 : Met(f.task, j)'
    BY <1>1, <2>1, <2>2 DEF FrameOK, Steady
  <2>4. f.next # None => Deps(f.next)' = {}  BY DEF FrameOK, Steady
  <2>5. f.pc = "Enter" => Deps(f.task)' = {}  BY <2>1 DEF FrameOK, Steady
  <2>6. /\ f.pc = "Inputs" => f.deps \/ Deps(f.task)' = {<<f.task, -1>>}
        /\ f.pc \in RunPcs \ {"Inputs", "Suspend"} => Deps(f.task)' = {<<f.task, -1>>}
    BY <2>1 DEF FrameOK, Steady
  <2>7. /\ f.pc = "Inputs" => taskPhase'[f.task] = 0 /\ f.i <= NumRequests(f.task) + 1
        /\ f.pc \in RunPcs \ {"Inputs"} => taskPhase'[f.task] = 1
    BY <2>1 DEF FrameOK, Steady
  <2>8. /\ f.pc = "MarkDone" => f.task \in compiled'
        /\ f.pc = "Notify" => claimed'[f.task] = "Done"
        /\ f.pc \in {"Complete", "Destroy"} /\ f.task \in Keys => claimed'[f.task] = "Done" \/ f.task \in Failing
    BY DEF FrameOK, Grows
  <2> QED  BY <2>3, <2>4, <2>5, <2>6, <2>7, <2>8 DEF FrameOK
<1> QED  BY <1>2, <1>3

\* The frames of other tasks.
LEMMA OthersKept ==
  ASSUME GInv, NEW th \in Threads, stack[th] # <<>>, Grows,
         Top(th).pc \notin Over, \A v \in Tasks \ {Top(th).task} : Steady(v)
  PROVE  \A g \in Others(th) : FrameOK(g)'
<1> SUFFICES ASSUME NEW g \in Others(th) PROVE FrameOK(g)'
  OBVIOUS
<1>1. StackType  BY DEF GInv, Stacks
<1>2. /\ Top(th) \in FrameRecs /\ g \in Active
      /\ \A S : Once(S) /\ Top(th) \in S => g \notin S
  BY <1>1, TopFrame
<1>3. g \in FrameRecs  BY <1>1, <1>2, ActiveDef DEF StackType
<1>4. FrameOK(g)  BY <1>2 DEF GInv, FramesOK
<1> DEFINE t == Top(th).task
<1>5. t \in Tasks => g \notin Handles(t)
  BY <1>2 DEF GInv, Handling, Exclusive, Handles, Over
<1>6. g.task \in Tasks /\ g.pc \notin Over => Steady(g.task)
  BY <1>3, <1>5 DEF Handles, Over
<1>7. g.next # None => Steady(g.next)
  BY <1>3, <1>5 DEF Handles, FrameRecs
<1> QED  BY <1>3, <1>4, <1>6, <1>7, FrameKept

LEMMA TaskKept ==
  ASSUME NEW v \in Tasks, TaskOK(v), Steady(v),
         life'[v] = life[v], parent'[v] = parent[v],
         Deps(v) # {} => Deps(v)' # {},
         dispatched'[v] = dispatched[v], Handled(v)' <=> Handled(v)
  PROVE  TaskOK(v)'
  BY DEF TaskOK, Steady

\* The tasks that are not the one that runs and of which nothing but
\* dependencies is changed.
LEMMA RestKept ==
  ASSUME GInv, NEW th \in Threads, stack[th] # <<>>,
         NEW f \in FrameRecs, NEW New \in SUBSET FrameRecs, Replaced(th, f, New),
         NEW v \in Tasks, Top(th).task # v, f.task # v, f.next = v <=> Top(th).next = v,
         \A g \in New : g \notin Handles(v),
         dispatched'[v] = dispatched[v]
  PROVE  Exclusive(v)' /\ (Handled(v)' <=> Handled(v))
<1>1. /\ Top(th) \in FrameRecs /\ Active = {Top(th)} \cup Others(th)
  BY TopFrame DEF GInv, Stacks
<1>2. f \in Handles(v) <=> Top(th) \in Handles(v)
  BY <1>1 DEF Handles
<1>3. Once(Handles(v))  BY DEF GInv, Handling, Exclusive
<1>4. Once(Handles(v))'
  <2> DEFINE S == Handles(v)
  <2>1. Once(S) /\ (f \in S => Top(th) \in S) /\ \A g \in New : g \notin S  BY <1>2, <1>3
  <2> HIDE DEF S
  <2>2. Once(S)'  BY <2>1 DEF Replaced
  <2> QED  BY <2>2 DEF S, Once, Handles
<1>5. \A g : g \in Handles(v) => (g \in Active' <=> g = f \/ g \in Others(th))
  BY DEF Replaced
<1>6. (\E g \in Active' : g \in Handles(v)) <=> (\E g \in Active : g \in Handles(v))
  BY <1>1, <1>2, <1>5
<1>7. Handles(v)' = Handles(v)  BY DEF Handles
<1>8. (\A g \in Active : g \notin Handles(v)) => (\A g \in Active' : g \notin Handles(v))
  BY <1>6
<1> QED  BY <1>4, <1>6, <1>7, <1>8 DEF Exclusive, Handled, GInv, Handling

LEMMA InputsKept ==
  ASSUME GInv, NEW th \in Threads, stack[th] # <<>>,
         NEW f \in FrameRecs, NEW New \in SUBSET FrameRecs, Replaced(th, f, New),
         NEW o \in Owners, NEW i \in 1 .. Len(InputKeys[o]),
         life[<<o, i>>] = "Absent" => life'[<<o, i>>] = "Absent",
         taskPhase'[o] = 0 => taskPhase[o] = 0,
         Top(th).task = o /\ Top(th).pc = "Inputs" =>
           \/ taskPhase'[o] = 1
           \/ f.task = o /\ f.pc = "Inputs" /\ Top(th).i <= f.i
  PROVE  InputsOK(o, i)'
<1>1. Top(th) \in FrameRecs /\ Active = {Top(th)} \cup Others(th)
  BY TopFrame DEF GInv, Stacks
<1>2. InputsOK(o, i)  BY DEF GInv, InputTasksOK
<1> SUFFICES ASSUME taskPhase'[o] = 0,
                    \A g \in Active' : g.task = o /\ g.pc = "Inputs" => g.i <= i
             PROVE  life'[<<o, i>>] = "Absent"
  BY DEF InputsOK
<1>3. ASSUME NEW g \in Active, g.task = o, g.pc = "Inputs" PROVE g.i <= i
  <2>1. CASE g \in Others(th)  BY <1>3, <2>1 DEF Replaced
  <2>2. CASE g = Top(th)
    <3>1. f \in Active' /\ f.i <= i /\ Top(th).i <= f.i  BY <1>3, <2>2 DEF Replaced
    <3>2. f.i \in Nat /\ Top(th).i \in Nat /\ i \in Nat  BY <1>1 DEF FrameRecs
    <3> QED  BY <2>2, <3>1, <3>2
  <2> QED  BY <1>1, <2>1, <2>2
<1> QED  BY <1>2, <1>3 DEF InputsOK

LEMMA KeyKept ==
  ASSUME NEW k \in Keys, KeyOK(k), life'[k] = life[k], claimed'[k] = claimed[k],
         waiting'[k] = waiting[k] \/ claimed[k] = "Claimed",
         compiled \subseteq compiled',
         In(k, Leaving) => In(k, Leaving)'
  PROVE  KeyOK(k)'
  BY DEF KeyOK

LEMMA RootsKept ==
  ASSUME GInv, NEW th \in Threads, stack[th] # <<>>, Top(th).pc # "Spawn",
         \A u \in Threads \ {th} : stack'[u] = stack[u],
         unspawned' = unspawned,
         \A t \in Roots : life[t] = "Absent" => life'[t] = "Absent"
  PROVE  RootsOK'
<1>1. \A r \in unspawned : life'[r] = "Absent"  BY DEF GInv, RootsOK, Types
<1>2. ASSUME unspawned # {} PROVE stack'[Main] # <<>> /\ Top(Main)' .pc = "Spawn"
  <2>1. Main # th /\ Main \in Threads  BY <1>2, InputsAssumption DEF GInv, RootsOK
  <2>2. stack'[Main] = stack[Main]  BY <2>1
  <2> QED  BY <1>2, <2>2 DEF GInv, RootsOK, Top
<1> QED  BY <1>1, <1>2 DEF RootsOK

\* Where a task is.
LEMMA WhereItIs ==
  ASSUME GInv, NEW th \in Threads, stack[th] # <<>>,
         NEW f \in FrameRecs, NEW New \in SUBSET FrameRecs, Replaced(th, f, New),
         \A g \in New : g.pc = "Enter", f.task = Top(th).task, Top(th).pc \notin Over,
         NEW pcs, pcs \subseteq RunPcs
  PROVE  /\ f.task \in Tasks => /\ In(f.task, pcs) <=> Top(th).pc \in pcs
                                /\ In(f.task, pcs)' <=> f.pc \in pcs
         /\ \A v \in Tasks \ {f.task} : In(v, pcs)' <=> In(v, pcs)
<1>1. /\ Top(th) \in FrameRecs /\ Active = {Top(th)} \cup Others(th)
      /\ \A S : Once(S) /\ Top(th) \in S => \A g \in Others(th) : g \notin S
  BY TopFrame DEF GInv, Stacks
<1>2. Active' = {f} \cup New \cup Others(th)  BY DEF Replaced
<1>3. \A g \in New : g.pc \notin pcs  BY DEF RunPcs
<1>4. ASSUME NEW v \in Tasks \ {f.task} PROVE In(v, pcs)' <=> In(v, pcs)
  BY <1>1, <1>2, <1>3 DEF In
<1>5. ASSUME f.task \in Tasks
      PROVE  /\ In(f.task, pcs) <=> Top(th).pc \in pcs
             /\ In(f.task, pcs)' <=> f.pc \in pcs
  <2>1. Once(Handles(f.task)) /\ Top(th) \in Handles(f.task)
    BY <1>1, <1>5 DEF GInv, Handling, Exclusive, Handles, Over
  <2>2. \A g \in Others(th) : g \notin Handles(f.task)  BY <1>1, <2>1
  <2>3. ASSUME NEW g \in Others(th), g.task = f.task PROVE g.pc \notin pcs
    <3>1. g \in FrameRecs  BY <1>1, ActiveDef DEF GInv, Stacks, StackType
    <3> QED  BY <2>2, <2>3, <3>1 DEF Handles, RunPcs
  <2> QED  BY <1>1, <1>2, <1>3, <2>3 DEF In
<1> QED  BY <1>4, <1>5

\* Lists that are unchanged have the same entries.
LEMMA EntriesKept ==
  ASSUME GInv, NEW th \in Threads, stack[th] # <<>>,
         NEW f \in FrameRecs, NEW New \in SUBSET FrameRecs, Replaced(th, f, New),
         \A g \in New : g.list = <<>>, f.task = Top(th).task, f.list = Top(th).list,
         waiting' = waiting
  PROVE  \A k, n, v : Entry(k, n, v)' <=> Entry(k, n, v)
<1>1. Active = {Top(th)} \cup Others(th)  BY TopFrame DEF GInv, Stacks
<1>2. Active' = {f} \cup New \cup Others(th)  BY DEF Replaced
<1>3. \A n, v : ~AtEnd(<<>>, n, v)  BY DEF AtEnd
<1>4. ASSUME NEW k, NEW n, NEW v
      PROVE  (\E g \in Active : g.task = k /\ AtEnd(g.list, n, v))
               <=> (\E g \in Active' : g.task = k /\ AtEnd(g.list, n, v))
  BY <1>1, <1>2, <1>3, Zenon
<1> QED  BY <1>4 DEF Entry

\* A task that keeps running or keeps not running, and does not start to leave,
\* keeps everybody's dependencies.
LEMMA DepsKept ==
  ASSUME GInv, NEW th \in Threads, stack[th] # <<>>,
         NEW f \in FrameRecs, NEW New \in SUBSET FrameRecs, Replaced(th, f, New),
         \A g \in New : g.list = <<>> /\ g.pc = "Enter",
         f.task = Top(th).task, f.list = Top(th).list,
         f.pc \in RunPcs <=> Top(th).pc \in RunPcs,
         f.pc = "Destroy" <=> Top(th).pc = "Destroy",
         UNCHANGED <<life, parent, waiting>>
  PROVE  \A v : Deps(v)' = Deps(v)
<1>1. Active = {Top(th)} \cup Others(th)  BY TopFrame DEF GInv, Stacks
<1>2. Active' = {f} \cup New \cup Others(th)  BY DEF Replaced
<1>3. ASSUME NEW v, NEW pcs \in {RunPcs, {"Destroy"}} PROVE In(v, pcs)' <=> In(v, pcs)
  BY <1>1, <1>2, <1>3 DEF In, RunPcs
<1>4. \A k, n, v : Entry(k, n, v)' <=> Entry(k, n, v)  BY EntriesKept
<1>5. ASSUME NEW v, NEW u \in Tasks, NEW n \in Int PROVE Depends(v, u, n)' <=> Depends(v, u, n)
  BY <1>3, <1>4 DEF Depends, Child
<1> QED  BY <1>5, DepsSame

\* A step of a task that goes on, creates nothing and removes no dependency of
\* another task: what remains to be shown is about the task and its frame.
LEMMA PlainStep ==
  ASSUME GInv, NEW th \in Threads, stack[th] # <<>>,
         NEW f \in FrameRecs, Set(th, f), f.depth = Top(th).depth,
         f.next = Top(th).next, f.task = Top(th).task,
         f.task \in Tasks, Top(th).pc \notin Over, f.pc \notin Over,
         UNCHANGED <<life, parent, dispatched, unspawned>>, Grows,
         \A v \in Tasks \ {f.task} : Deps(v)' = Deps(v) /\ taskPhase'[v] = taskPhase[v],
         taskPhase'[f.task] = 0 => taskPhase[f.task] = 0,
         Top(th).pc = "Inputs" =>
           \/ taskPhase'[f.task] = 1
           \/ f.pc = "Inputs" /\ Top(th).i <= f.i
  PROVE  /\ Stacks' /\ Handling' /\ InputTasksOK' /\ RootsOK'
         /\ Replaced(th, f, {}) /\ Active' = {f} \cup Others(th)
         /\ \A g \in Others(th) : FrameOK(g)'
         /\ \A v \in Tasks \ {f.task} : TaskOK(v)'
         /\ life[f.task] = "Alive"
         /\ (taskPhase'[f.task] = 1 => \A j \in 1 .. NumRequests(f.task) : Met(f.task, j)')
              => TaskOK(f.task)'
         /\ /\ UNCHANGED <<claimed, waiting>>
            /\ Top(th).pc \in Leaving => f.pc \in Leaving
            => KeysOK'
<1> DEFINE t == f.task
<1>1. Replaced(th, f, {})  BY SetReplaces DEF GInv, Over
<1>2. Stacks' /\ Active' = {f} \cup Others(th) /\ \A u \in Threads \ {th} : stack'[u] = stack[u]
  BY <1>1 DEF Replaced
<1>3. /\ Top(th) \in FrameRecs /\ Top(th) \in Active /\ FrameOK(Top(th))
      /\ Active = {Top(th)} \cup Others(th)
  BY TopFrame DEF GInv, Stacks, FramesOK
<1>4. \A v \in Tasks \ {t} : Steady(v)  BY SteadyIfSame DEF Grows
<1>5. \A g \in Others(th) : FrameOK(g)'  BY <1>4, OthersKept
<1>6. \A v \in Tasks \ {t} : Exclusive(v)' /\ TaskOK(v)'
  <2> SUFFICES ASSUME NEW v \in Tasks \ {t} PROVE Exclusive(v)' /\ TaskOK(v)'
    OBVIOUS
  <2>1. Exclusive(v)' /\ (Handled(v)' <=> Handled(v))
    <3>1. {} \in SUBSET FrameRecs  OBVIOUS
    <3>2. \A g \in {} : g \notin Handles(v)  OBVIOUS
    <3> QED  BY <1>1, <3>1, <3>2, RestKept
  <2> QED  BY <1>4, <2>1, TaskKept DEF GInv, TasksOK
<1>7. Top(th) \in Handles(t) /\ f \in Handles(t)  BY <1>3 DEF Handles, Over
<1>8. dispatched[t] \in 0 .. 1 /\ dispatched[t] = 0
  <2>1. dispatched[t] \in 0 .. 1  BY DEF GInv, Types
  <2>2. Exclusive(t)  BY DEF GInv, Handling
  <2> QED  BY <1>3, <1>7, <2>1, <2>2 DEF Exclusive
<1>9. Exclusive(t)'
  <2> DEFINE S == Handles(t)
  <2>1. Once(S) /\ Top(th) \in S  BY <1>7 DEF GInv, Handling, Exclusive
  <2>2. S' = S  BY DEF Handles
  <2> HIDE DEF S
  <2>3. Once(S)'  BY <1>1, <2>1, <2>2 DEF Replaced, Once
  <2> QED  BY <1>8, <2>3 DEF S, Exclusive
<1>10. life[t] = "Alive"
  <2>1. Handled(t)  BY <1>3, <1>7 DEF Handled
  <2> QED  BY <2>1 DEF GInv, TasksOK, TaskOK
<1>11. Handled(t)'  BY <1>2, <1>7 DEF Handled, Handles
<1>12. InputTasksOK'
  <2> SUFFICES ASSUME NEW o \in Owners, NEW i \in 1 .. Len(InputKeys[o]) PROVE InputsOK(o, i)'
    BY DEF InputTasksOK
  <2>1. taskPhase'[o] = 0 => taskPhase[o] = 0  BY TypeFacts
  <2>2. {} \in SUBSET FrameRecs /\ life' = life  OBVIOUS
  <2>3. Top(th).task = o /\ Top(th).pc = "Inputs" =>
          \/ taskPhase'[o] = 1
          \/ f.task = o /\ f.pc = "Inputs" /\ Top(th).i <= f.i
    OBVIOUS
  <2> QED  BY <1>1, <2>1, <2>2, <2>3, InputsKept
<1>13. RootsOK'  BY <1>2, <1>3, RootsKept, TypeFacts DEF FrameOK
<1>14. (taskPhase'[t] = 1 => \A j \in 1 .. NumRequests(t) : Met(t, j)') => TaskOK(t)'
  BY <1>8, <1>10, <1>11 DEF TaskOK
<1>15. ASSUME UNCHANGED <<claimed, waiting>>, Top(th).pc \in Leaving => f.pc \in Leaving
       PROVE  KeysOK'
  <2> SUFFICES ASSUME NEW k \in Keys PROVE KeyOK(k)'
    BY DEF KeysOK
  <2>1. In(k, Leaving) => In(k, Leaving)'
    <3>1. Leaving \subseteq RunPcs /\ {} \in SUBSET FrameRecs  BY DEF Leaving, RunPcs
    <3>2. \A g \in {} : g.pc = "Enter"  OBVIOUS
    <3>3. /\ In(f.task, Leaving) <=> Top(th).pc \in Leaving
          /\ In(f.task, Leaving)' <=> f.pc \in Leaving
          /\ \A v \in Tasks \ {f.task} : In(v, Leaving)' <=> In(v, Leaving)
      BY <1>1, <3>1, <3>2, WhereItIs
    <3> QED  BY <1>15, <3>3, TypeFacts
  <2>2. KeyOK(k) /\ compiled \subseteq compiled'  BY DEF GInv, KeysOK, Grows
  <2>3. life'[k] = life[k] /\ claimed'[k] = claimed[k] /\ waiting'[k] = waiting[k]  BY <1>15
  <2> QED  BY <2>1, <2>2, <2>3, KeyKept
<1> QED  BY <1>1, <1>2, <1>5, <1>6, <1>9, <1>10, <1>12, <1>13, <1>14, <1>15 DEF Handling

\* A thread at a pc of operator() runs a task.
LEMMA ThisTask ==
  ASSUME GInv, NEW th \in Threads, stack[th] # <<>>
  PROVE  /\ Top(th) \in FrameRecs /\ FrameOK(Top(th)) /\ Top(th) \in Active
         /\ Top(th).pc \notin Over \cup {"Spawn"} => This(th) \in Tasks
<1>1. /\ Top(th) \in FrameRecs /\ Top(th) \in Active /\ FrameOK(Top(th))
  BY TopFrame DEF GInv, Stacks, FramesOK
<1> QED  BY <1>1 DEF FrameOK, FrameRecs, This, Over

\* The steps that only go on in the code of the task.
LEMMA EndPhasePreserves ==
  ASSUME GInv, NEW th \in Threads, EndPhase(th)
  PROVE  GInv'
<1>1. stack[th] # <<>> /\ Top(th).pc = "Inputs"  BY DEF EndPhase, At, Top
<1>2. PICK t \in Tasks : t = This(th)  BY <1>1, ThisTask DEF Over
<1>3. Top(th) \in FrameRecs /\ FrameOK(Top(th))  BY <1>1, ThisTask
<1>4. PICK f \in FrameRecs : f = [Top(th) EXCEPT !.pc = IF Top(th).deps THEN "Suspend"
                                       ELSE IF t \in Keys THEN "Compile" ELSE "Complete"]
  BY <1>3 DEF FrameRecs, Pcs
<1>5. /\ f.task = Top(th).task /\ f.task = t /\ f.depth = Top(th).depth /\ f.next = Top(th).next
      /\ f.list = Top(th).list /\ f.deps = Top(th).deps
      /\ f.pc = IF f.deps THEN "Suspend" ELSE IF t \in Keys THEN "Compile" ELSE "Complete"
  BY <1>2, <1>3, <1>4 DEF FrameRecs, This
<1>6. /\ Set(th, f) /\ taskPhase' = [taskPhase EXCEPT ![t] = 1]
      /\ UNCHANGED <<life, parent, numDependents, dispatched, keyVars, unspawned>>
      /\ Top(th).i > NumRequests(t)
  BY <1>2, <1>4 DEF EndPhase
<1>7. UNCHANGED <<claimed, waiting, compiled>>  BY <1>6 DEF keyVars
<1>8. f.pc \notin Over /\ f.pc \in RunPcs /\ f.pc # "Destroy" /\ Top(th).pc \notin Over
  BY <1>1, <1>5 DEF Over, RunPcs
<1>9. taskPhase \in [Tasks -> 0 .. 1]  BY DEF GInv, Types
<1>10. Replaced(th, f, {})  BY <1>1, <1>5, <1>6, <1>8, SetReplaces DEF GInv, Over
<1>11. \A v : Deps(v)' = Deps(v)
  <2>1. {} \in SUBSET FrameRecs /\ \A g \in {} : g.list = <<>> /\ g.pc = "Enter"  OBVIOUS
  <2>2. Top(th).pc \in RunPcs /\ Top(th).pc # "Destroy"  BY <1>1 DEF RunPcs
  <2> QED  BY <1>1, <1>5, <1>6, <1>7, <1>8, <1>10, <2>1, <2>2, DepsKept
<1>12. Grows  BY <1>7 DEF Grows
<1>13. /\ Stacks' /\ Handling' /\ InputTasksOK' /\ RootsOK' /\ Active' = {f} \cup Others(th)
       /\ \A g \in Others(th) : FrameOK(g)'
       /\ \A v \in Tasks \ {t} : TaskOK(v)'
       /\ (taskPhase'[t] = 1 => \A j \in 1 .. NumRequests(t) : Met(t, j)') => TaskOK(t)'
       /\ KeysOK'
  <2>1. \A v \in Tasks \ {t} : Deps(v)' = Deps(v) /\ taskPhase'[v] = taskPhase[v]
    BY <1>6, <1>9, <1>11
  <2>2. taskPhase'[t] = 1 /\ (Top(th).pc \in Leaving => f.pc \in Leaving)
    BY <1>1, <1>6, <1>9 DEF Leaving
  <2>3. UNCHANGED <<life, parent, dispatched, unspawned>> /\ UNCHANGED <<claimed, waiting>>
    BY <1>6, <1>7
  <2>4. taskPhase'[t] = 0 => taskPhase[t] = 0  BY <2>2
  <2> QED  BY <1>1, <1>5, <1>6, <1>8, <1>12, <2>1, <2>2, <2>3, <2>4, PlainStep
<1>14. \A j \in 1 .. NumRequests(t) : Met(t, j)'
  <2>1. \A j \in 1 .. Top(th).i - 1 : Met(t, j)  BY <1>1, <1>3, <1>5 DEF FrameOK
  <2>2. NumRequests(t) \in Nat /\ Top(th).i \in Nat  BY <1>3, TypeFacts DEF FrameRecs
  <2>3. \A j \in 1 .. NumRequests(t) : Met(t, j)  BY <1>6, <2>1, <2>2
  <2> QED  BY <1>7, <1>11, <2>3, MetKept
<1>15. Types'  BY <1>6, <1>7, <1>13 DEF GInv, Types, Stacks, StackType
<1>16. Counts'  BY <1>6, <1>11, CountSame DEF GInv, Counts
<1>17. FrameOK(f)'
  <2>1. taskPhase'[t] = 1  BY <1>6, <1>9
  <2>2. Deps(t)' = Deps(t) /\ (f.next # None => Deps(f.next)' = Deps(f.next))  BY <1>11
  <2> QED  BY <1>1, <1>3, <1>5, <1>7, <2>1, <2>2, TypeFacts DEF FrameOK, RunPcs
<1>18. CompiledInOrder'  BY <1>7 DEF GInv, CompiledInOrder
<1> QED
  BY <1>13, <1>14, <1>15, <1>16, <1>17, <1>18 DEF GInv, FramesOK, TasksOK

\* A task that begins or stops running gains or loses the dependency on itself.
LEMMA SelfMoved ==
  ASSUME GInv, NEW th \in Threads, stack[th] # <<>>,
         NEW f \in FrameRecs, NEW New \in SUBSET FrameRecs, Replaced(th, f, New),
         \A g \in New : g.list = <<>> /\ g.pc = "Enter",
         f.task = Top(th).task, f.task \in Tasks, f.list = Top(th).list,
         Top(th).pc \notin Over \cup {"Destroy"}, f.pc # "Destroy",
         UNCHANGED <<life, parent, waiting>>
  PROVE  /\ \A v \in Tasks \ {f.task} : Deps(v)' = Deps(v)
         /\ Top(th).pc \notin RunPcs /\ f.pc \in RunPcs =>
              Deps(f.task)' = Deps(f.task) \cup {<<f.task, -1>>} /\ <<f.task, -1>> \notin Deps(f.task)
         /\ Top(th).pc \in RunPcs /\ f.pc \notin RunPcs =>
              Deps(f.task)' = Deps(f.task) \ {<<f.task, -1>>} /\ <<f.task, -1>> \in Deps(f.task)
<1> DEFINE t == f.task
<1>1. \A k, n, v : Entry(k, n, v)' <=> Entry(k, n, v)  BY EntriesKept
<1>2. /\ In(t, RunPcs) <=> Top(th).pc \in RunPcs
      /\ In(t, RunPcs)' <=> f.pc \in RunPcs
      /\ \A v \in Tasks \ {t} : In(v, RunPcs)' <=> In(v, RunPcs)
  <2>1. RunPcs \subseteq RunPcs  OBVIOUS
  <2> QED  BY <2>1, WhereItIs
<1>3. \A v \in Tasks : In(v, {"Destroy"})' <=> In(v, {"Destroy"})
  <2>1. {"Destroy"} \subseteq RunPcs  BY DEF RunPcs
  <2>2. /\ In(t, {"Destroy"}) <=> Top(th).pc \in {"Destroy"}
        /\ In(t, {"Destroy"})' <=> f.pc \in {"Destroy"}
        /\ \A v \in Tasks \ {t} : In(v, {"Destroy"})' <=> In(v, {"Destroy"})
    BY <2>1, WhereItIs
  <2> QED  BY <2>2
<1>4. \A u \in Tasks : \A v : Child(u, v)' <=> Child(u, v)  BY <1>3 DEF Child
<1>5. ASSUME NEW v \in Tasks \ {t} PROVE Deps(v)' = Deps(v)
  <2>1. ASSUME NEW u \in Tasks, NEW n \in Int PROVE Depends(v, u, n)' <=> Depends(v, u, n)
    BY <1>1, <1>2, <1>4 DEF Depends
  <2> QED  BY <2>1, DepsSame
<1>6. ASSUME Top(th).pc \notin RunPcs, f.pc \in RunPcs
      PROVE  Deps(t)' = Deps(t) \cup {<<t, -1>>} /\ <<t, -1>> \notin Deps(t)
  <2>1. ASSUME NEW u \in Tasks, NEW n \in Int
        PROVE  Depends(t, u, n)' <=> Depends(t, u, n) \/ (u = t /\ n = -1)
    BY <1>1, <1>2, <1>4, <1>6 DEF Depends
  <2>2. ~Depends(t, t, -1)  BY <1>2, <1>6 DEF Depends
  <2>3. <<t, -1>> \notin Deps(t)  BY <2>2, DepsDef
  <2>4. -1 \in Int /\ t \in Tasks  OBVIOUS
  <2>5. Deps(t)' = Deps(t) \cup {<<t, -1>>}  BY <2>1, <2>4, DepsPlus
  <2> QED  BY <2>3, <2>5
<1>7. ASSUME Top(th).pc \in RunPcs, f.pc \notin RunPcs
      PROVE  Deps(t)' = Deps(t) \ {<<t, -1>>} /\ <<t, -1>> \in Deps(t)
  <2>1. ASSUME NEW u \in Tasks, NEW n \in Int
        PROVE  Depends(t, u, n)' <=> Depends(t, u, n) /\ ~(u = t /\ n = -1)
    BY <1>1, <1>2, <1>4, <1>7 DEF Depends
  <2>2. Depends(t, t, -1)  BY <1>2, <1>7 DEF Depends
  <2>3. <<t, -1>> \in Deps(t)  BY <2>2, DepsDef
  <2>4. -1 \in Int /\ t \in Tasks  OBVIOUS
  <2>5. Deps(t)' = Deps(t) \ {<<t, -1>>}  BY <2>1, <2>4, DepsMinus
  <2> QED  BY <2>3, <2>5
<1> QED  BY <1>5, <1>6, <1>7

\* A task that was asleep or new runs, and depends on itself.
LEMMA EnterPreserves ==
  ASSUME GInv, NEW th \in Threads, Enter(th)
  PROVE  GInv'
<1>1. stack[th] # <<>> /\ Top(th).pc = "Enter"  BY DEF Enter, At, Top
<1>2. PICK t \in Tasks : t = This(th)  BY <1>1, ThisTask DEF Over
<1>3. Top(th) \in FrameRecs /\ FrameOK(Top(th))  BY <1>1, ThisTask
<1>4. PICK f \in FrameRecs : f = [Top(th) EXCEPT !.pc = IF taskPhase[t] = 0 THEN "Inputs"
                                       ELSE IF t \in Keys THEN "Compile" ELSE "Complete"]
  BY <1>3 DEF FrameRecs, Pcs
<1>5. /\ f.task = Top(th).task /\ f.task = t /\ f.depth = Top(th).depth /\ f.next = Top(th).next
      /\ f.list = Top(th).list /\ f.deps = Top(th).deps /\ f.i = Top(th).i
      /\ f.pc = IF taskPhase[t] = 0 THEN "Inputs" ELSE IF t \in Keys THEN "Compile" ELSE "Complete"
  BY <1>2, <1>3, <1>4 DEF FrameRecs, This
<1>6. /\ Set(th, f) /\ numDependents' = [numDependents EXCEPT ![t] = @ + 1]
      /\ UNCHANGED <<life, parent, taskPhase, dispatched, keyVars, unspawned>>
  BY <1>2, <1>4 DEF Enter
<1>7. UNCHANGED <<claimed, waiting, compiled>>  BY <1>6 DEF keyVars
<1>8. f.pc \notin Over /\ f.pc \in RunPcs /\ f.pc # "Destroy" /\ Top(th).pc \notin Over
  BY <1>1, <1>5 DEF Over, RunPcs
<1>9. taskPhase \in [Tasks -> 0 .. 1] /\ numDependents \in [Tasks -> Int]  BY DEF GInv, Types
<1>10. Replaced(th, f, {})  BY <1>1, <1>5, <1>6, <1>8, SetReplaces DEF GInv, Over
<1>11. /\ \A v \in Tasks \ {t} : Deps(v)' = Deps(v)
       /\ Deps(t)' = Deps(t) \cup {<<t, -1>>} /\ <<t, -1>> \notin Deps(t)
  <2>1. {} \in SUBSET FrameRecs /\ \A g \in {} : g.list = <<>> /\ g.pc = "Enter"  OBVIOUS
  <2>2. Top(th).pc \notin RunPcs /\ Top(th).pc \notin Over \cup {"Destroy"}
    BY <1>1 DEF RunPcs, Over
  <2>3. UNCHANGED <<life, parent, waiting>>  BY <1>6, <1>7
  <2> QED  BY <1>1, <1>5, <1>8, <1>10, <2>1, <2>2, <2>3, SelfMoved
<1>12. Grows  BY <1>7 DEF Grows
<1>13. /\ Stacks' /\ Handling' /\ InputTasksOK' /\ RootsOK' /\ Active' = {f} \cup Others(th)
       /\ \A g \in Others(th) : FrameOK(g)'
       /\ \A v \in Tasks \ {t} : TaskOK(v)'
       /\ (taskPhase'[t] = 1 => \A j \in 1 .. NumRequests(t) : Met(t, j)') => TaskOK(t)'
       /\ KeysOK'
  <2>1. \A v \in Tasks \ {t} : Deps(v)' = Deps(v) /\ taskPhase'[v] = taskPhase[v]
    BY <1>6, <1>11
  <2>2. Top(th).pc \notin Leaving /\ Top(th).pc # "Inputs"  BY <1>1 DEF Leaving
  <2>3. UNCHANGED <<life, parent, dispatched, unspawned>> /\ UNCHANGED <<claimed, waiting>>
    BY <1>6, <1>7
  <2>4. taskPhase'[t] = 0 => taskPhase[t] = 0  BY <1>6
  <2> QED  BY <1>1, <1>5, <1>6, <1>8, <1>12, <2>1, <2>2, <2>3, <2>4, PlainStep
<1>14. taskPhase'[t] = 1 => \A j \in 1 .. NumRequests(t) : Met(t, j)'
  <2>1. taskPhase[t] = 1 => \A j \in 1 .. NumRequests(t) : Met(t, j)
    BY DEF GInv, TasksOK, TaskOK
  <2> QED  BY <1>6, <1>7, <1>11, <2>1, MetKept
<1>15. Types'  BY <1>6, <1>7, <1>9, <1>13 DEF GInv, Types, Stacks, StackType
<1>16. Counts'
  <2>1. CountOK(t)'  BY <1>6, <1>9, <1>11, CountPlus DEF GInv, Counts
  <2>2. \A v \in Tasks \ {t} : CountOK(v)'  BY <1>6, <1>9, <1>11, CountSame DEF GInv, Counts
  <2> QED  BY <2>1, <2>2 DEF Counts
<1>17. FrameOK(f)'
  <2>1. Deps(t)' = {<<t, -1>>} /\ f.i = 1 /\ f.next = None /\ f.list = <<>>
    BY <1>1, <1>3, <1>5, <1>11 DEF FrameOK
  <2>2. NumRequests(t) \in Nat  BY TypeFacts
  <2>3. taskPhase'[t] = taskPhase[t] /\ taskPhase[t] \in 0 .. 1  BY <1>6, <1>9
  <2> QED  BY <1>5, <2>1, <2>2, <2>3, TypeFacts DEF FrameOK, RunPcs
<1>18. CompiledInOrder'  BY <1>7 DEF GInv, CompiledInOrder
<1> QED
  BY <1>13, <1>14, <1>15, <1>16, <1>17, <1>18 DEF GInv, FramesOK, TasksOK

\* The output is there, and the request is met.
LEMMA AvailablePreserves ==
  ASSUME GInv, NEW th \in Threads, Available(th)
  PROVE  GInv'
<1>1. stack[th] # <<>> /\ Top(th).pc = "Inputs"  BY DEF Available, Requests, At, Top
<1>2. PICK t \in Tasks : t = This(th)  BY <1>1, ThisTask DEF Over
<1>3. Top(th) \in FrameRecs /\ FrameOK(Top(th))  BY <1>1, ThisTask
<1>4. PICK f \in FrameRecs : f = [Top(th) EXCEPT !.i = @ + 1]
  <2>1. Top(th).i + 1 \in Nat \ {0}  BY <1>3 DEF FrameRecs
  <2> QED  BY <1>3, <2>1 DEF FrameRecs
<1>5. /\ f.task = Top(th).task /\ f.task = t /\ f.depth = Top(th).depth /\ f.next = Top(th).next
      /\ f.list = Top(th).list /\ f.deps = Top(th).deps /\ f.i = Top(th).i + 1
      /\ f.pc = "Inputs" /\ Top(th).i \in Nat \ {0}
  BY <1>1, <1>2, <1>3, <1>4 DEF FrameRecs, This
<1>6. Set(th, f) /\ UNCHANGED <<taskVars, keyVars, unspawned>>
  BY <1>2, <1>4 DEF Available
<1>7. UNCHANGED <<claimed, waiting, compiled, life, parent, numDependents, taskPhase, dispatched>>
  BY <1>6 DEF keyVars, taskVars
<1>8. f.pc \notin Over /\ f.pc \in RunPcs /\ f.pc # "Destroy" /\ Top(th).pc \notin Over
  BY <1>1, <1>5 DEF Over, RunPcs
<1>10. Replaced(th, f, {})  BY <1>1, <1>5, <1>6, <1>8, SetReplaces DEF GInv, Over
<1>11. \A v : Deps(v)' = Deps(v)
  <2>1. {} \in SUBSET FrameRecs /\ \A g \in {} : g.list = <<>> /\ g.pc = "Enter"  OBVIOUS
  <2>2. Top(th).pc \in RunPcs /\ Top(th).pc # "Destroy"  BY <1>1 DEF RunPcs
  <2> QED  BY <1>1, <1>5, <1>6, <1>7, <1>8, <1>10, <2>1, <2>2, DepsKept
<1>12. Grows  BY <1>7 DEF Grows
<1>13. /\ Stacks' /\ Handling' /\ InputTasksOK' /\ RootsOK' /\ Active' = {f} \cup Others(th)
       /\ \A g \in Others(th) : FrameOK(g)'
       /\ \A v \in Tasks \ {t} : TaskOK(v)'
       /\ (taskPhase'[t] = 1 => \A j \in 1 .. NumRequests(t) : Met(t, j)') => TaskOK(t)'
       /\ KeysOK'
  <2>1. \A v \in Tasks \ {t} : Deps(v)' = Deps(v) /\ taskPhase'[v] = taskPhase[v]
    BY <1>7, <1>11
  <2>2. Top(th).pc \notin Leaving /\ Top(th).i <= f.i  BY <1>1, <1>5 DEF Leaving
  <2>3. UNCHANGED <<life, parent, dispatched, unspawned>> /\ UNCHANGED <<claimed, waiting>>
    BY <1>6, <1>7
  <2>4. taskPhase'[t] = 0 => taskPhase[t] = 0  BY <1>7
  <2> QED  BY <1>1, <1>5, <1>6, <1>8, <1>12, <2>1, <2>2, <2>3, <2>4, PlainStep
<1>14. taskPhase'[t] # 1  BY <1>1, <1>3, <1>5, <1>7 DEF FrameOK
<1>15. Types'  BY <1>6, <1>7, <1>13 DEF GInv, Types, Stacks, StackType
<1>16. Counts'  BY <1>7, <1>11, CountSame DEF GInv, Counts
<1>17. FrameOK(f)'
  <2>1. t \in InputTasks /\ Top(th).i <= Len(OutputKeys(t)) /\ Len(OutputKeys(t)) \in Nat
    BY <1>2, TypeFacts DEF Available, Requests, IsInputTask
  <2>2. Top(th).i <= NumRequests(t) /\ NumRequests(t) \in Nat
    BY <2>1 DEF NumRequests, IsInputTask
  <2>3. OutputKeys(t)[Top(th).i] \in Keys  BY <1>5, <2>1, TypeFacts
  <2>4. Met(t, Top(th).i)
    <3>1. OutputKeys(t)[Top(th).i] \in compiled
      BY <1>2, <2>3 DEF Available, Requested, GInv, KeysOK, KeyOK
    <3> QED  BY <2>1, <3>1 DEF Met, IsInputTask
  <2>5. \A j \in 1 .. f.i - 1 : Met(t, j)
    BY <1>1, <1>3, <1>5, <2>4 DEF FrameOK
  <2>6. \A j \in 1 .. f.i - 1 : Met(t, j)'
    BY <1>5, <1>7, <1>11, <2>2, <2>5, MetKept
  <2>7. Deps(t)' = Deps(t) /\ (f.next # None => Deps(f.next)' = Deps(f.next))  BY <1>11
  <2> QED  BY <1>1, <1>3, <1>5, <1>7, <2>2, <2>6, <2>7, TypeFacts DEF FrameOK, RunPcs
<1>18. CompiledInOrder'  BY <1>7 DEF GInv, CompiledInOrder
<1> QED
  BY <1>13, <1>14, <1>15, <1>16, <1>17, <1>18 DEF GInv, FramesOK, TasksOK

\* The list grows at its head: the positions from the end are those they were.
LEMMA WaitPreserves ==
  ASSUME GInv, NEW th \in Threads, Wait(th)
  PROVE  GInv'
<1>1. stack[th] # <<>> /\ Top(th).pc = "Inputs"  BY DEF Wait, Requests, At, Top
<1>2. PICK t \in Tasks : t = This(th)  BY <1>1, ThisTask DEF Over
<1>3. Top(th) \in FrameRecs /\ FrameOK(Top(th))  BY <1>1, ThisTask
<1>4. PICK f \in FrameRecs : f = [Top(th) EXCEPT !.i = @ + 1, !.deps = TRUE]
  <2>1. Top(th).i + 1 \in Nat \ {0}  BY <1>3 DEF FrameRecs
  <2> QED  BY <1>3, <2>1 DEF FrameRecs
<1>5. /\ f.task = Top(th).task /\ f.task = t /\ f.depth = Top(th).depth /\ f.next = Top(th).next
      /\ f.list = Top(th).list /\ f.deps /\ f.i = Top(th).i + 1
      /\ f.pc = "Inputs" /\ Top(th).i \in Nat \ {0}
  BY <1>1, <1>2, <1>3, <1>4 DEF FrameRecs, This
<1>i. PICK i \in Nat \ {0} : i = Top(th).i  BY <1>5
<1>t. t \in InputTasks /\ i \in 1 .. Len(OutputKeys(t)) /\ OutputKeys(t) \in Seq(Keys)
  BY <1>2, <1>i, TypeFacts DEF Wait, Requests, IsInputTask
<1>k. PICK k \in Keys : k = OutputKeys(t)[i]
  BY <1>t
<1>6. /\ Set(th, f) /\ claimed[k] = "Claimed"
      /\ waiting' = [waiting EXCEPT ![k] = <<t>> \o @]
      /\ numDependents' = [numDependents EXCEPT ![t] = @ + 1]
      /\ UNCHANGED <<life, parent, taskPhase, dispatched, claimed, compiled, unspawned>>
  BY <1>2, <1>4, <1>i, <1>k DEF Wait, Requested
<1>7. Types /\ waiting[k] \in Seq(InputTasks) /\ Len(waiting[k]) \in Nat
  BY DEF GInv, Types
<1>8. f.pc \notin Over /\ f.pc \in RunPcs /\ f.pc # "Destroy" /\ Top(th).pc \notin Over
  BY <1>1, <1>5 DEF Over, RunPcs
<1>10. Replaced(th, f, {})  BY <1>1, <1>5, <1>6, <1>8, SetReplaces DEF GInv, Over
<1>w. /\ waiting'[k] \in Seq(InputTasks) /\ Len(waiting'[k]) = Len(waiting[k]) + 1
      /\ \A n, v : AtEnd(waiting'[k], n, v) <=>
                     AtEnd(waiting[k], n, v) \/ (n = Len(waiting[k]) + 1 /\ v = t)
      /\ \A j \in Keys \ {k} : waiting'[j] = waiting[j]
      /\ waiting' \in [Keys -> Seq(InputTasks)]
  <2>1. waiting'[k] = <<t>> \o waiting[k] /\ \A j \in Keys \ {k} : waiting'[j] = waiting[j]
    BY <1>6, <1>7 DEF Types
  <2>2. /\ waiting'[k] \in Seq(InputTasks) /\ Len(waiting'[k]) = Len(waiting[k]) + 1
        /\ waiting'[k][1] = t
        /\ \A j \in 1 .. Len(waiting[k]) : waiting'[k][j + 1] = waiting[k][j]
    BY <1>7, <1>t, <2>1
  <2>3. ASSUME NEW n, NEW v
        PROVE  AtEnd(waiting'[k], n, v) <=>
                 AtEnd(waiting[k], n, v) \/ (n = Len(waiting[k]) + 1 /\ v = t)
    <3>1. CASE n \in 1 .. Len(waiting[k])
      <4>1. Len(waiting[k]) + 1 - n \in 1 .. Len(waiting[k])  BY <1>7, <3>1
      <4>2. waiting'[k][(Len(waiting[k]) + 1 - n) + 1] = waiting[k][Len(waiting[k]) + 1 - n]
        BY <2>2, <4>1
      <4>3. Len(waiting'[k]) + 1 - n = (Len(waiting[k]) + 1 - n) + 1  BY <1>7, <2>2, <3>1
      <4>4. n \in 1 .. Len(waiting'[k]) /\ n # Len(waiting[k]) + 1  BY <1>7, <2>2, <3>1
      <4> QED  BY <3>1, <4>2, <4>3, <4>4 DEF AtEnd
    <3>2. CASE n = Len(waiting[k]) + 1
      BY <1>7, <2>2, <3>2 DEF AtEnd
    <3>3. CASE n \notin 1 .. Len(waiting[k]) /\ n # Len(waiting[k]) + 1
      <4>1. n \notin 1 .. Len(waiting'[k])  BY <1>7, <2>2, <3>3
      <4> QED  BY <3>3, <4>1 DEF AtEnd
    <3> QED  BY <3>1, <3>2, <3>3
  <2>4. waiting' \in [Keys -> Seq(InputTasks)]  BY <1>6, <1>7, <2>1, <2>2 DEF Types
  <2> QED  BY <2>1, <2>2, <2>3, <2>4
<1>11. /\ \A v \in Tasks \ {t} : Deps(v)' = Deps(v)
       /\ Deps(t)' = Deps(t) \cup {<<k, Len(waiting[k]) + 1>>}
       /\ <<k, Len(waiting[k]) + 1>> \notin Deps(t)
  <2>1. Active = {Top(th)} \cup Others(th)  BY <1>1, TopFrame DEF GInv, Stacks
  <2>2. Active' = {f} \cup Others(th)  BY <1>10 DEF Replaced
  <2>3. \A v, pcs : In(v, pcs)' <=> In(v, pcs)  BY <1>1, <1>5, <2>1, <2>2 DEF In
  <2>4. ASSUME NEW j, NEW n, NEW v
        PROVE  (\E g \in Active : g.task = j /\ AtEnd(g.list, n, v))
                 <=> (\E g \in Active' : g.task = j /\ AtEnd(g.list, n, v))
    BY <1>5, <2>1, <2>2, Zenon
  <2>5. ASSUME NEW j \in Tasks, NEW n \in Int, NEW v
        PROVE  Entry(j, n, v)' <=> Entry(j, n, v) \/ (j = k /\ n = Len(waiting[k]) + 1 /\ v = t)
    <3>1. Entry(j, n, v)' <=> /\ j \in Keys
                              /\ \/ AtEnd(waiting'[j], n, v)
                                 \/ \E g \in Active' : g.task = j /\ AtEnd(g.list, n, v)
      BY DEF Entry, AtEnd
    <3>2. CASE j \in Keys \ {k}
      <4>1. waiting'[j] = waiting[j]  BY <1>w, <3>2
      <4> QED  BY <2>4, <3>1, <3>2, <4>1 DEF Entry
    <3>3. CASE j = k
      <4>1. AtEnd(waiting'[j], n, v) <=> AtEnd(waiting[j], n, v) \/ (n = Len(waiting[k]) + 1 /\ v = t)
        BY <1>w, <3>3
      <4> QED  BY <2>4, <3>1, <3>3, <4>1 DEF Entry
    <3>4. CASE j \notin Keys  BY <3>1, <3>4 DEF Entry
    <3> QED  BY <3>2, <3>3, <3>4
  <2>6. ASSUME NEW v \in Tasks \ {t} PROVE Deps(v)' = Deps(v)
    <3>1. ASSUME NEW u \in Tasks, NEW n \in Int PROVE Depends(v, u, n)' <=> Depends(v, u, n)
      BY <1>6, <2>3, <2>5 DEF Depends, Child
    <3> QED  BY <3>1, DepsSame
  <2>7. Deps(t)' = Deps(t) \cup {<<k, Len(waiting[k]) + 1>>}
    <3> DEFINE m == Len(waiting[k]) + 1
    <3>1. m \in Int /\ m > 0 /\ k \in Tasks  BY <1>7, TypeFacts
    <3>2. ASSUME NEW u \in Tasks, NEW n \in Int
          PROVE  Depends(t, u, n)' <=> Depends(t, u, n) \/ (u = k /\ n = m)
      <4> HIDE DEF m
      <4>1. Entry(u, n, t)' <=> Entry(u, n, t) \/ (u = k /\ n = m)
        BY <2>5 DEF m
      <4> QED  BY <1>6, <2>3, <3>1, <4>1 DEF Depends, Child
    <3> HIDE DEF m
    <3>3. Deps(t)' = Deps(t) \cup {<<k, m>>}
      BY <3>1, <3>2, DepsPlus
    <3> QED  BY <3>3 DEF m
  <2>8. <<k, Len(waiting[k]) + 1>> \notin Deps(t)
    <3>1. ~AtEnd(waiting[k], Len(waiting[k]) + 1, t)  BY <1>7 DEF AtEnd
    <3>2. ASSUME NEW g \in Active, g.task = k PROVE ~AtEnd(g.list, Len(waiting[k]) + 1, t)
      <4>1. g.list = <<>>  BY <1>6, <3>2 DEF GInv, FramesOK, FrameOK
      <4> QED  BY <4>1 DEF AtEnd
    <3>3. ~Entry(k, Len(waiting[k]) + 1, t)  BY <3>1, <3>2 DEF Entry
    <3>4. ~Depends(t, k, Len(waiting[k]) + 1)  BY <1>7, <3>3 DEF Depends
    <3> QED  BY <3>4, DepsDef
  <2> QED  BY <2>6, <2>7, <2>8
<1>12. Grows  BY <1>6 DEF Grows
<1>13. /\ Stacks' /\ Handling' /\ InputTasksOK' /\ RootsOK' /\ Active' = {f} \cup Others(th)
       /\ \A g \in Others(th) : FrameOK(g)'
       /\ \A v \in Tasks \ {t} : TaskOK(v)'
       /\ (taskPhase'[t] = 1 => \A j \in 1 .. NumRequests(t) : Met(t, j)') => TaskOK(t)'
  <2>1. \A v \in Tasks \ {t} : Deps(v)' = Deps(v) /\ taskPhase'[v] = taskPhase[v]
    BY <1>6, <1>11
  <2>2. Top(th).i <= f.i  BY <1>1, <1>5
  <2>3. UNCHANGED <<life, parent, dispatched, unspawned>>
    BY <1>6
  <2>4. taskPhase'[t] = 0 => taskPhase[t] = 0  BY <1>6
  <2> QED  BY <1>1, <1>5, <1>6, <1>8, <1>12, <2>1, <2>2, <2>3, <2>4, PlainStep
<1>14. taskPhase'[t] # 1  BY <1>1, <1>3, <1>5, <1>6 DEF FrameOK
<1>15. Types'  BY <1>6, <1>w, <1>7, <1>13 DEF Types, Stacks, StackType
<1>16. Counts'
  <2>1. CountOK(t)'  BY <1>6, <1>7, <1>11, CountPlus DEF GInv, Counts, Types
  <2>2. \A v \in Tasks \ {t} : CountOK(v)'  BY <1>6, <1>7, <1>11, CountSame DEF GInv, Counts, Types
  <2> QED  BY <2>1, <2>2 DEF Counts
<1>17. FrameOK(f)'
  <2>1. i <= NumRequests(t) /\ NumRequests(t) \in Nat
    BY <1>t, TypeFacts DEF NumRequests, IsInputTask
  <2>2. Met(t, i)'
    <3>1. <<k, Len(waiting[k]) + 1>> \in Deps(t)' /\ Len(waiting[k]) + 1 \in Nat  BY <1>7, <1>11
    <3>2. \E n \in Nat : <<OutputKeys(t)[i], n>> \in Deps(t)'
      BY <1>k, <3>1
    <3> QED  BY <1>t, <3>2 DEF Met, IsInputTask
  <2>3. \A j \in 1 .. i - 1 : Met(t, j)'
    <3>1. \A j \in 1 .. i - 1 : Met(t, j)
      BY <1>1, <1>3, <1>5, <1>i DEF FrameOK
    <3>2. compiled \subseteq compiled' /\ Deps(t) \subseteq Deps(t)'  BY <1>6, <1>11
    <3> QED  BY <2>1, <3>1, <3>2, MetKept
  <2>4. f.i = i + 1 /\ \A j \in 1 .. f.i - 1 : Met(t, j)'
    <3>1. \A j \in 1 .. i : j = i \/ j \in 1 .. i - 1  OBVIOUS
    <3>2. f.i = i + 1 /\ f.i - 1 = i  BY <1>5, <1>i
    <3> QED  BY <2>2, <2>3, <3>1, <3>2
  <2>5. f.next # None => f.next # t /\ Deps(f.next) = {} /\ f.next \in Tasks
    BY <1>3, <1>5 DEF FrameOK, FrameRecs
  <2>6. f.next # None => Deps(f.next)' = {}  BY <1>11, <2>5
  <2>7. taskPhase'[t] = 0 /\ f.list = <<>>  BY <1>1, <1>3, <1>5, <1>6 DEF FrameOK
  <2> QED  BY <1>5, <2>1, <2>4, <2>5, <2>6, <2>7, TypeFacts DEF FrameOK, RunPcs
<1>18. CompiledInOrder'  BY <1>6 DEF GInv, CompiledInOrder
<1>19. KeysOK'
  <2> SUFFICES ASSUME NEW j \in Keys PROVE KeyOK(j)'
    BY DEF KeysOK
  <2>1. In(j, Leaving)' <=> In(j, Leaving)
    <3>1. Active = {Top(th)} \cup Others(th)  BY <1>1, TopFrame DEF GInv, Stacks
    <3> QED  BY <1>1, <1>5, <1>13, <3>1 DEF In
  <2>2. waiting'[j] = waiting[j] \/ claimed[j] = "Claimed"  BY <1>6, <1>w
  <2> QED  BY <1>6, <2>1, <2>2, KeyKept DEF GInv, KeysOK
<1> QED
  BY <1>13, <1>14, <1>15, <1>16, <1>17, <1>18, <1>19 DEF GInv, FramesOK, TasksOK

\* A node is compiled when all the inputs of its task have been told.
LEMMA InputsDone ==
  ASSUME GInv, NEW t \in Tasks, taskPhase[t] = 1, Deps(t) = {<<t, -1>>},
         NEW j \in 1 .. NumRequests(t)
  PROVE  IF IsInputTask(t) THEN OutputKeys(t)[j] \in compiled \cup Failing
                           ELSE InputDone(<<t, j>>)
<1>1. Met(t, j)  BY DEF GInv, TasksOK, TaskOK
<1>2. \A u : \A n \in Nat : <<u, n>> \notin Deps(t)  OBVIOUS
<1>3. 0 \in Nat  OBVIOUS
<1> QED  BY <1>1, <1>2, <1>3 DEF Met

\* Once compiled, a key stays compiled; a null node ends the task early.
LEMMA CompileNodePreserves ==
  ASSUME GInv, NEW th \in Threads, CompileNode(th)
  PROVE  GInv'
<1>1. stack[th] # <<>> /\ Top(th).pc = "Compile"  BY DEF CompileNode, At, Top
<1>2. PICK t \in Keys : t = This(th) /\ t \in Tasks
  BY <1>1, ThisTask, TypeFacts DEF FrameOK, This
<1>3. Top(th) \in FrameRecs /\ FrameOK(Top(th))  BY <1>1, ThisTask
<1>4. PICK f \in FrameRecs : f = [Top(th) EXCEPT !.pc = IF t \in Failing THEN "Complete"
                                                         ELSE "MarkDone"]
  BY <1>3 DEF FrameRecs, Pcs
<1>5. /\ f.task = Top(th).task /\ f.task = t /\ f.depth = Top(th).depth /\ f.next = Top(th).next
      /\ f.list = Top(th).list /\ f.deps = Top(th).deps
      /\ f.pc = IF t \in Failing THEN "Complete" ELSE "MarkDone"
  BY <1>2, <1>3, <1>4 DEF FrameRecs, This
<1>6. /\ Set(th, f) /\ compiled' = IF t \in Failing THEN compiled ELSE compiled \cup {t}
      /\ UNCHANGED <<taskVars, claimed, waiting, unspawned>>
  BY <1>2, <1>4 DEF CompileNode
<1>7. UNCHANGED <<life, parent, numDependents, taskPhase, dispatched>>
  BY <1>6 DEF taskVars
<1>8. f.pc \notin Over /\ f.pc \in RunPcs /\ f.pc # "Destroy" /\ Top(th).pc \notin Over
  BY <1>1, <1>5 DEF Over, RunPcs
<1>10. Replaced(th, f, {})  BY <1>1, <1>5, <1>6, <1>8, SetReplaces DEF GInv, Over
<1>11. \A v : Deps(v)' = Deps(v)
  <2>1. {} \in SUBSET FrameRecs /\ \A g \in {} : g.list = <<>> /\ g.pc = "Enter"  OBVIOUS
  <2>2. Top(th).pc \in RunPcs /\ Top(th).pc # "Destroy"  BY <1>1 DEF RunPcs
  <2>3. UNCHANGED <<life, parent, waiting>>  BY <1>6, <1>7
  <2> QED  BY <1>1, <1>5, <1>8, <1>10, <2>1, <2>2, <2>3, DepsKept
<1>12. Grows  BY <1>6 DEF Grows
<1>13. /\ Stacks' /\ Handling' /\ InputTasksOK' /\ RootsOK' /\ Active' = {f} \cup Others(th)
       /\ \A g \in Others(th) : FrameOK(g)'
       /\ \A v \in Tasks \ {t} : TaskOK(v)'
       /\ (taskPhase'[t] = 1 => \A j \in 1 .. NumRequests(t) : Met(t, j)') => TaskOK(t)'
       /\ KeysOK'
  <2>1. \A v \in Tasks \ {t} : Deps(v)' = Deps(v) /\ taskPhase'[v] = taskPhase[v]
    BY <1>7, <1>11
  <2>2. Top(th).pc # "Inputs" /\ Top(th).pc \notin Leaving  BY <1>1 DEF Leaving
  <2>3. UNCHANGED <<life, parent, dispatched, unspawned>> /\ UNCHANGED <<claimed, waiting>>
    BY <1>6, <1>7
  <2>4. taskPhase'[t] = 0 => taskPhase[t] = 0  BY <1>7
  <2>5. f.task \in Tasks  BY <1>2, <1>5
  <2> QED  BY <1>1, <1>5, <1>6, <1>8, <1>12, <2>1, <2>2, <2>3, <2>4, <2>5, PlainStep
<1>14. taskPhase[t] = 1 /\ \A j \in 1 .. NumRequests(t) : Met(t, j)'
  <2>1. taskPhase[t] = 1  BY <1>1, <1>3, <1>5 DEF FrameOK, RunPcs
  <2>2. \A j \in 1 .. NumRequests(t) : Met(t, j)  BY <1>2, <2>1 DEF GInv, TasksOK, TaskOK
  <2>3. compiled \subseteq compiled' /\ Deps(t) \subseteq Deps(t)'  BY <1>6, <1>11
  <2> QED  BY <1>2, <2>1, <2>2, <2>3, MetKept
<1>15. Types'
  <2>1. compiled' \subseteq Keys  BY <1>2, <1>6 DEF GInv, Types
  <2> QED  BY <1>6, <1>7, <1>13, <2>1 DEF GInv, Types, Stacks, StackType
<1>16. Counts'  BY <1>7, <1>11, CountSame DEF GInv, Counts
<1>17. FrameOK(f)'
  <2>1. Deps(t)' = {<<t, -1>>} /\ f.list = <<>> /\ f.next = None
    BY <1>1, <1>3, <1>5, <1>11 DEF FrameOK, RunPcs
  <2>2. f.pc = "MarkDone" => t \in compiled'  BY <1>5, <1>6
  <2>3. f.pc = "Complete" => t \in Failing  BY <1>5
  <2>4. taskPhase'[t] = 1 /\ t # None  BY <1>2, <1>7, <1>14, TypeFacts
  <2>5. f.pc \in {"MarkDone", "Complete"}  BY <1>5
  <2> QED  BY <1>2, <1>5, <2>1, <2>2, <2>3, <2>4, <2>5 DEF FrameOK, RunPcs
<1>18. CompiledInOrder'
  <2> SUFFICES ASSUME NEW k \in compiled' \ Cached, NEW i \in DOMAIN InputKeys[k],
                      NEW j \in DOMAIN InputKeys[k][i]
               PROVE  InputKeys[k][i][j] \in compiled' \cup Failing
    BY DEF CompiledInOrder
  <2>1. CASE k \in compiled
    BY <1>6, <2>1 DEF GInv, CompiledInOrder
  <2>2. CASE k = t
    <3>1. Deps(t) = {<<t, -1>>}  BY <1>1, <1>3, <1>5 DEF FrameOK, RunPcs
    <3>2. ~IsInputTask(t) /\ i \in 1 .. Len(InputKeys[t]) /\ NumRequests(t) = Len(InputKeys[t])
      BY <1>2, <2>2, TypeFacts DEF IsInputTask, NumRequests
    <3>3. InputDone(<<t, i>>)
      <4>1. i \in 1 .. NumRequests(t)  BY <3>2
      <4> QED  BY <1>2, <1>14, <3>1, <3>2, <4>1, InputsDone
    <3>4. <<t, i>> \in InputTasks /\ OutputKeys(<<t, i>>) = InputKeys[t][i]
      BY <1>2, <3>2, TypeFacts DEF OutputKeys
    <3>5. OutputKeys(<<t, i>>) \in Seq(Keys)  BY <3>4, TypeFacts
    <3>6. j \in 1 .. Len(OutputKeys(<<t, i>>))  BY <2>2, <3>4, <3>5
    <3> QED  BY <1>6, <2>2, <3>3, <3>4, <3>6 DEF InputDone
  <2> QED  BY <1>6, <2>1, <2>2
<1> QED
  BY <1>7, <1>13, <1>14, <1>15, <1>16, <1>17, <1>18 DEF GInv, FramesOK, TasksOK

\* The list of the key becomes that of its task's frame, with the same positions.
LEMMA MarkDonePreserves ==
  ASSUME GInv, NEW th \in Threads, MarkDone(th)
  PROVE  GInv'
<1>1. stack[th] # <<>> /\ Top(th).pc = "MarkDone"  BY DEF MarkDone, At, Top
<1>2. PICK t \in Keys : t = This(th) /\ t \in Tasks
  BY <1>1, ThisTask, TypeFacts DEF FrameOK, This
<1>3. Top(th) \in FrameRecs /\ FrameOK(Top(th))  BY <1>1, ThisTask
<1>e. PICK list \in Seq(InputTasks) : list = waiting[t]  BY <1>2 DEF GInv, Types
<1>4. PICK f \in FrameRecs : f = [Top(th) EXCEPT !.pc = "Notify", !.list = list]
  BY <1>3 DEF FrameRecs, Pcs
<1>5. /\ f.task = Top(th).task /\ f.task = t /\ f.depth = Top(th).depth /\ f.next = Top(th).next
      /\ f.list = list /\ f.deps = Top(th).deps /\ f.pc = "Notify"
  BY <1>2, <1>3, <1>4 DEF FrameRecs, This
<1>6. /\ Set(th, f) /\ claimed' = [claimed EXCEPT ![t] = "Done"]
      /\ waiting' = [waiting EXCEPT ![t] = <<>>]
      /\ UNCHANGED <<taskVars, compiled, unspawned>>
  BY <1>2, <1>e, <1>4 DEF MarkDone
<1>7. /\ UNCHANGED <<life, parent, numDependents, taskPhase, dispatched>>
      /\ claimed'[t] = "Done" /\ \A k \in Keys \ {t} : claimed'[k] = claimed[k]
      /\ waiting'[t] = <<>> /\ \A k \in Keys \ {t} : waiting'[k] = waiting[k]
  BY <1>6 DEF taskVars, GInv, Types
<1>8. f.pc \notin Over /\ f.pc \in RunPcs /\ f.pc # "Destroy" /\ Top(th).pc \notin Over
  BY <1>1, <1>5 DEF Over, RunPcs
<1>9. Top(th).list = <<>> /\ Top(th).next = None /\ t \in compiled /\ taskPhase[t] = 1
      /\ Deps(t) = {<<t, -1>>}
  BY <1>1, <1>3, <1>5 DEF FrameOK, RunPcs
<1>10. Replaced(th, f, {})  BY <1>1, <1>5, <1>6, <1>8, SetReplaces DEF GInv, Over
<1>11. \A v : Deps(v)' = Deps(v)
  <2>1. Active = {Top(th)} \cup Others(th)  BY <1>1, TopFrame DEF GInv, Stacks
  <2>2. Active' = {f} \cup Others(th)  BY <1>10 DEF Replaced
  <2>3. \A v : \A pcs \in {RunPcs, {"Destroy"}} : In(v, pcs)' <=> In(v, pcs)
    BY <1>1, <1>5, <2>1, <2>2 DEF In, RunPcs
  <2>4. ASSUME NEW k, NEW n, NEW v PROVE Entry(k, n, v)' <=> Entry(k, n, v)
    <3>1. ~AtEnd(<<>>, n, v)  BY DEF AtEnd
    <3>2. (\E g \in Active : g.task = k /\ AtEnd(g.list, n, v))
            <=> \E g \in Others(th) : g.task = k /\ AtEnd(g.list, n, v)
      BY <1>9, <2>1, <3>1, Zenon
    <3>3. (\E g \in Active' : g.task = k /\ AtEnd(g.list, n, v))
            <=> \/ k = t /\ AtEnd(list, n, v)
                \/ \E g \in Others(th) : g.task = k /\ AtEnd(g.list, n, v)
      BY <1>5, <2>2, Zenon
    <3>4. k \in Keys => (AtEnd(waiting'[k], n, v) <=> k # t /\ AtEnd(waiting[k], n, v))
      BY <1>7, <3>1
    <3>5. Entry(k, n, v)' <=> /\ k \in Keys
                              /\ \/ AtEnd(waiting'[k], n, v)
                                 \/ \E g \in Active' : g.task = k /\ AtEnd(g.list, n, v)
      BY DEF Entry, AtEnd
    <3> QED  BY <1>e, <3>2, <3>3, <3>4, <3>5 DEF Entry
  <2>5. ASSUME NEW v, NEW u \in Tasks, NEW n \in Int PROVE Depends(v, u, n)' <=> Depends(v, u, n)
    BY <1>7, <2>3, <2>4 DEF Depends, Child
  <2> QED  BY <2>5, DepsSame
<1>12. Grows  BY <1>6, <1>7 DEF Grows
<1>13. /\ Stacks' /\ Handling' /\ InputTasksOK' /\ RootsOK' /\ Active' = {f} \cup Others(th)
       /\ \A g \in Others(th) : FrameOK(g)'
       /\ \A v \in Tasks \ {t} : TaskOK(v)'
       /\ life[t] = "Alive"
       /\ (taskPhase'[t] = 1 => \A j \in 1 .. NumRequests(t) : Met(t, j)') => TaskOK(t)'
  <2>1. \A v \in Tasks \ {t} : Deps(v)' = Deps(v) /\ taskPhase'[v] = taskPhase[v]
    BY <1>7, <1>11
  <2>2. Top(th).pc # "Inputs"  BY <1>1
  <2>3. UNCHANGED <<life, parent, dispatched, unspawned>>
    BY <1>6, <1>7
  <2>4. taskPhase'[t] = 0 => taskPhase[t] = 0  BY <1>7
  <2>5. f.task \in Tasks  BY <1>2, <1>5
  <2> QED  BY <1>1, <1>5, <1>6, <1>8, <1>12, <2>1, <2>2, <2>3, <2>4, <2>5, PlainStep
<1>14. \A j \in 1 .. NumRequests(t) : Met(t, j)'
  <2>2. \A j \in 1 .. NumRequests(t) : Met(t, j)  BY <1>2, <1>9 DEF GInv, TasksOK, TaskOK
  <2>3. compiled \subseteq compiled' /\ Deps(t) \subseteq Deps(t)'  BY <1>6, <1>11
  <2> QED  BY <1>2, <2>2, <2>3, MetKept
<1>15. Types'
  <2>1. /\ claimed' \in [Keys -> {"Unclaimed", "Claimed", "Done"}]
        /\ waiting' \in [Keys -> Seq(InputTasks)]
    BY <1>6 DEF GInv, Types
  <2> QED  BY <1>6, <1>7, <1>13, <2>1 DEF GInv, Types, Stacks, StackType
<1>16. Counts'  BY <1>7, <1>11, CountSame DEF GInv, Counts
<1>17. FrameOK(f)'
  <2>1. Deps(t)' = {<<t, -1>>} /\ taskPhase'[t] = 1 /\ t # None
    BY <1>2, <1>7, <1>9, <1>11, TypeFacts
  <2> QED  BY <1>2, <1>5, <1>7, <1>9, <2>1 DEF FrameOK, RunPcs
<1>18. CompiledInOrder'  BY <1>6 DEF GInv, CompiledInOrder
<1>19. KeysOK'
  <2> SUFFICES ASSUME NEW k \in Keys PROVE KeyOK(k)'
    BY DEF KeysOK
  <2>1. KeyOK(k) /\ KeyOK(t)  BY <1>2 DEF GInv, KeysOK
  <2>2. CASE k = t
    <3>1. In(t, Leaving)'  BY <1>5, <1>13 DEF In, Leaving
    <3> QED  BY <1>6, <1>7, <1>9, <1>13, <2>2, <3>1 DEF KeyOK
  <2>3. CASE k # t
    <3>1. In(k, Leaving) => In(k, Leaving)'
      <4>1. Active = {Top(th)} \cup Others(th)  BY <1>1, TopFrame DEF GInv, Stacks
      <4> QED  BY <1>5, <1>13, <2>3, <4>1 DEF In
    <3> QED  BY <1>6, <1>7, <2>1, <2>3, <3>1, KeyKept
  <2> QED  BY <2>2, <2>3
<1> QED
  BY <1>7, <1>13, <1>14, <1>15, <1>16, <1>17, <1>18, <1>19 DEF GInv, FramesOK, TasksOK

-----------------------------------------------------------------------------
(* The steps that remove a dependency.                                     *)

\* The innermost frame becomes f, and w, which has one dependency less, is run
\* if that was the last one: in the frame in New, or by the dispatcher.
Removed(th, f, w, New) ==
  /\ Replaced(th, f, New)
  /\ \A g \in New : /\ g.list = <<>> /\ g.pc = "Enter" /\ g.task = w /\ g.next = None
                    /\ g.i = 1
  /\ \/ numDependents[w] # 1 /\ New = {} /\ dispatched' = dispatched
     \/ numDependents[w] = 1 /\ New # {} /\ dispatched' = dispatched
     \/ /\ numDependents[w] = 1 /\ New = {}
        /\ dispatched' = [dispatched EXCEPT ![w] = @ + 1]

\* A removal goes on with the frame of the thread in one of the two ways.
LEMMA RemovalReplaces ==
  ASSUME GInv, NEW th \in Threads, stack[th] # <<>>, NEW f \in FrameRecs,
         NEW w \in Tasks, f.depth = Top(th).depth, f.next = None,
         \/ RemoveDependency(th, w, f, TRUE) /\ f.pc \in {"End", "Destroy"}
         \/ RemoveDependency(th, w, f, FALSE) /\ f.pc = "Notify"
  PROVE  \E New \in SUBSET FrameRecs : Removed(th, f, w, New)
<1>1. Stacks  BY DEF GInv
<1>2. f.pc \notin {"Flush", "Check"}  OBVIOUS
<1>3. Set(th, f) => {} \in SUBSET FrameRecs /\ Replaced(th, f, {})
  <2>1. {} \in SUBSET FrameRecs  OBVIOUS
  <2> QED  BY <1>1, <1>2, <2>1, SetReplaces
<1>4. CASE numDependents[w] # 1
  <2>1. Set(th, f) /\ dispatched' = dispatched  BY <1>4 DEF RemoveDependency
  <2> QED  BY <1>3, <1>4, <2>1 DEF Removed
<1>5. CASE numDependents[w] = 1 /\ f.depth < MaxDepth /\ Invoke(th, f, w)
           /\ f.pc \in {"End", "Destroy"} /\ dispatched' = dispatched
  <2> DEFINE g == Frame(w, f.depth + 1)
  <2>2. f.pc \in {"Suspend", "End", "Destroy"}  BY <1>5
  <2>3. g \in FrameRecs /\ Replaced(th, f, {g})  BY <1>1, <1>5, <2>2, PushReplaces
  <2>4. g.list = <<>> /\ g.pc = "Enter" /\ g.task = w /\ g.next = None /\ g.i = 1
    BY DEF Frame
  <2> HIDE DEF g
  <2>5. {g} \in SUBSET FrameRecs /\ {g} # {}  BY <2>3
  <2>6. Removed(th, f, w, {g})  BY <1>5, <2>3, <2>4, <2>5 DEF Removed
  <2> QED  BY <2>5, <2>6
<1>6. CASE numDependents[w] = 1 /\ Set(th, f) /\ dispatched' = [dispatched EXCEPT ![w] = @ + 1]
  BY <1>3, <1>6 DEF Removed
<1>7. numDependents[w] = 1 =>
        \/ /\ f.depth < MaxDepth /\ Invoke(th, f, w) /\ f.pc \in {"End", "Destroy"}
           /\ dispatched' = dispatched
        \/ Set(th, f) /\ dispatched' = [dispatched EXCEPT ![w] = @ + 1]
  BY DEF RemoveDependency
<1> QED  BY <1>4, <1>5, <1>6, <1>7

\* A task that waits is not handled by any frame but its own.
LEMMA WaitersAsleep ==
  ASSUME GInv, NEW w \in Tasks, Deps(w) # {}
  PROVE  /\ dispatched[w] = 0 /\ life[w] = "Alive"
         /\ \A g \in Active : g \in Handles(w) => /\ g.task = w /\ g.pc \in RunPcs
                                                  /\ <<w, -1>> \in Deps(w)
<1>1. TaskOK(w) /\ dispatched[w] \in 0 .. 1  BY DEF GInv, TasksOK, Types
<1>2. ASSUME NEW g \in Active, g \in Handles(w)
      PROVE  g.task = w /\ g.pc \in RunPcs /\ <<w, -1>> \in Deps(w)
  <2>1. FrameOK(g) /\ g \in FrameRecs /\ w # None  BY <1>2, TypeFacts DEF GInv, FramesOK, Handles
  <2>2. g.next # w  BY <2>1 DEF FrameOK
  <2>3. g.task = w /\ g.pc \notin {"End", "Flush", "Check"}  BY <1>2, <2>2 DEF Handles
  <2>4. g.pc # "Enter" /\ g.pc # "Spawn"  BY <2>1, <2>3 DEF FrameOK
  <2>5. g.pc \in RunPcs  BY <2>1, <2>3, <2>4 DEF FrameRecs, Pcs, RunPcs
  <2>6. In(w, RunPcs)  BY <2>3, <2>5 DEF In
  <2>7. Depends(w, w, -1)  BY <2>6 DEF Depends
  <2> QED  BY <2>3, <2>5, <2>7, DepsDef
<1> QED  BY <1>1, <1>2 DEF TaskOK

\* The part of the invariant about everything but the running task and w.
LEMMA RemovalStep ==
  ASSUME GInv, NEW th \in Threads, stack[th] # <<>>, NEW f \in FrameRecs,
         NEW New \in SUBSET FrameRecs, NEW w \in Tasks, NEW e \in Deps(w),
         Removed(th, f, w, New),
         numDependents' = [numDependents EXCEPT ![w] = @ - 1],
         UNCHANGED <<life, parent, taskPhase, claimed, waiting, compiled, unspawned>>,
         f.task = Top(th).task, f.task \in Tasks, f.next = None, Top(th).next = None,
         Top(th).pc \in RunPcs \ {"Inputs"},
         Top(th).pc \in Leaving => f.pc \in Leaving,
         \/ w = f.task /\ e = <<w, -1>> /\ f.pc \in Over
         \/ w # f.task /\ e # <<w, -1>> /\ f.pc \in RunPcs,
         Deps(w)' = Deps(w) \ {e},
         \A v \in Tasks \ {w} : Deps(v)' = Deps(v),
         \A j \in 1 .. NumRequests(w) : Met(w, j) => Met(w, j)',
         FrameOK(f)'
  PROVE  GInv'
<1> DEFINE t == f.task
<1> USE DEF Removed
<1>1. Stacks' /\ Active' = {f} \cup New \cup Others(th)
      /\ \A u \in Threads \ {th} : stack'[u] = stack[u]
  BY DEF Replaced
<1>2. /\ Top(th) \in FrameRecs /\ Top(th) \in Active
      /\ Active = {Top(th)} \cup Others(th)
      /\ \A S : Once(S) /\ Top(th) \in S => \A g \in Others(th) : g \notin S
  BY TopFrame DEF GInv, Stacks
<1>3. Types /\ Top(th).pc \notin Over /\ Top(th).pc # "Spawn" /\ Top(th).pc # "Inputs"
  BY DEF GInv, RunPcs, Over
<1>4. /\ dispatched[w] = 0 /\ life[w] = "Alive"
      /\ \A g \in Active : g \in Handles(w) => g.task = w /\ g.pc \in RunPcs /\ <<w, -1>> \in Deps(w)
  BY WaitersAsleep
<1>5. /\ numDependents[w] = 1 <=> Deps(w) = {e}
      /\ Deps(w)' = {} <=> Deps(w) = {e}
  BY CountIs DEF GInv, Counts
<1>6. f \notin Handles(w)
  BY TypeFacts DEF Handles, Over
<1>7. \A g \in Others(th) : g \in Handles(w) => w # f.task
  <2>1. Once(Handles(w))  BY DEF GInv, Handling, Exclusive
  <2>2. w = f.task => Top(th) \in Handles(w)  BY <1>2, <1>3 DEF Handles, Over
  <2> QED  BY <1>2, <2>1, <2>2
<1>8. Deps(w) = {e} => \A g \in Others(th) : g \notin Handles(w)
  <2>1. ASSUME Deps(w) = {e}, NEW g \in Others(th), g \in Handles(w) PROVE FALSE
    <3>1. <<w, -1>> \in Deps(w) /\ w # f.task  BY <1>2, <1>4, <1>7, <2>1
    <3> QED  BY <2>1, <3>1
  <2> QED  BY <2>1
<1>9. Exclusive(w)'
  <2> DEFINE S == Handles(w)
  <2>1. Once(S) /\ f \notin S  BY <1>6 DEF GInv, Handling, Exclusive
  <2>2. S' = S  BY DEF Handles
  <2>3. New # {} => Top(th) \in S \/ \A h \in Active : h \notin S
    <3>1. New # {} => \A g \in Others(th) : g \notin S  BY <1>5, <1>8
    <3> QED  BY <1>2, <3>1
  <2>4. dispatched'[w] > 0 => \A g \in Active' : g \notin S
    <3>1. dispatched'[w] > 0 => New = {} /\ numDependents[w] = 1  BY <1>3, <1>4 DEF Types
    <3> QED  BY <1>1, <1>5, <1>6, <1>8, <3>1
  <2> HIDE DEF S
  <2>5. (f \in S \/ \E g \in New : g \in S) => (Top(th) \in S \/ \A h \in Active : h \notin S)
    BY <2>1, <2>3
  <2>6. Once(S)'  BY <2>1, <2>2, <2>5 DEF Replaced, Once
  <2>7. Once(Handles(w))'  BY <2>6 DEF S
  <2>8. dispatched'[w] > 0 => \A g \in Active' : g \notin Handles(w)'  BY <2>2, <2>4 DEF S
  <2> QED  BY <2>7, <2>8 DEF Exclusive
<1>10. Grows  BY DEF Grows
<1>11. \A v \in Tasks \ {w} : Steady(v)
  <2>1. compiled \subseteq compiled'  OBVIOUS
  <2> QED  BY <2>1, SteadyIfSame
<1>12. w # t => Steady(w)
  <2>1. ASSUME w # t PROVE Deps(w) # {<<w, -1>>} /\ Deps(w) # {}  BY <2>1
  <2> QED  BY <2>1 DEF Steady
<1>13. \A g \in Others(th) : FrameOK(g)'
  <2>1. \A v \in Tasks \ {Top(th).task} : Steady(v)  BY <1>11, <1>12
  <2> QED  BY <1>3, <1>10, <2>1, OthersKept
<1>14. \A g \in New : FrameOK(g)'
  <2> SUFFICES ASSUME NEW g \in New PROVE FrameOK(g)'
    OBVIOUS
  <2>1. Deps(w)' = {} /\ w # None  BY <1>5, TypeFacts
  <2> QED  BY <2>1 DEF FrameOK, RunPcs
<1>15. ASSUME NEW v \in Tasks \ {w} PROVE Exclusive(v)' /\ TaskOK(v)'
  <2>1. Exclusive(v) /\ TaskOK(v) /\ dispatched'[v] = dispatched[v] /\ dispatched[v] \in 0 .. 1
    BY <1>3 DEF GInv, Handling, TasksOK, Types
  <2>2. \A g \in New : g \notin Handles(v)  BY TypeFacts DEF Handles
  <2>3. Exclusive(v)' /\ (Handled(v)' <=> Handled(v))
    <3>1. CASE v # t
      <4>1. f.next = v <=> Top(th).next = v  OBVIOUS
      <4> QED  BY <2>1, <2>2, <3>1, <4>1, RestKept
    <3>2. CASE v = t
      <4> DEFINE S == Handles(v)
      <4>1. f \in S /\ Top(th) \in S  BY <1>2, <1>3, <3>2 DEF Handles, Over, RunPcs
      <4>2. Once(S) /\ S' = S /\ \A g \in New : g \notin S
        BY <2>1, <2>2 DEF Exclusive, Handles
      <4>3. dispatched[v] = 0  BY <1>2, <2>1, <4>1 DEF Exclusive
      <4> HIDE DEF S
      <4>4. Once(S)'  BY <4>1, <4>2 DEF Replaced, Once
      <4>5. Once(Handles(v))'  BY <4>4 DEF S
      <4>6. Exclusive(v)'  BY <2>1, <4>3, <4>5 DEF Exclusive
      <4>7. Handled(v)  BY <1>2, <4>1 DEF S, Handled
      <4>8. \E g \in Active' : g \in S'  BY <1>1, <4>1, <4>2
      <4>9. Handled(v)'  BY <4>8 DEF S, Handled
      <4> QED  BY <4>6, <4>7, <4>9
    <3> QED  BY <3>1, <3>2
  <2>4. Deps(v) # {} => Deps(v)' # {}  OBVIOUS
  <2>5. life'[v] = life[v] /\ parent'[v] = parent[v]  OBVIOUS
  <2> QED  BY <1>11, <2>1, <2>3, <2>4, <2>5, TaskKept
<1>16. TaskOK(w)'
  <2>1. life'[w] = "Alive" /\ TaskOK(w)  BY <1>4 DEF GInv, TasksOK
  <2>2. dispatched'[w] > 0 => Deps(w)' = {}  BY <1>3, <1>4, <1>5 DEF Types
  <2>3. Handled(w)' \/ (taskPhase'[w] = 1 /\ Deps(w)' # {})
    <3>1. CASE New # {}
      <4>1. PICK g \in New : g \in Handles(w)  BY <3>1 DEF Handles
      <4>2. g \in Handles(w)' /\ g \in Active'  BY <1>1, <4>1 DEF Handles
      <4> QED  BY <4>2 DEF Handled
    <3>2. CASE numDependents[w] # 1
      <4>1. CASE Handled(w) /\ w # t
        <5>1. PICK g \in Active : g \in Handles(w)  BY <1>4, <4>1 DEF Handled
        <5>2. Top(th) \notin Handles(w)  BY <4>1, TypeFacts DEF Handles
        <5>3. g \in Active' /\ g \in Handles(w)'  BY <1>1, <1>2, <5>1, <5>2 DEF Handles
        <5> QED  BY <5>3 DEF Handled
      <4>2. CASE taskPhase[w] = 1  BY <1>5, <3>2, <4>2
      <4>3. w = t => taskPhase[w] = 1
        <5>1. FrameOK(Top(th))  BY <1>2 DEF GInv, FramesOK
        <5> QED  BY <5>1 DEF FrameOK
      <4> QED  BY <2>1, <4>1, <4>2, <4>3 DEF TaskOK
    <3>3. CASE dispatched' = [dispatched EXCEPT ![w] = @ + 1]
      <4>1. dispatched'[w] > 0  BY <1>3, <1>4, <3>3 DEF Types
      <4> QED  BY <4>1 DEF Handled
    <3> QED  BY <3>1, <3>2, <3>3
  <2>4. taskPhase'[w] = 1 => \A j \in 1 .. NumRequests(w) : Met(w, j)'
    BY <2>1 DEF TaskOK
  <2> QED  BY <2>1, <2>2, <2>3, <2>4 DEF TaskOK
<1>17. Types'
  <2>1. dispatched' \in [Tasks -> 0 .. 1]  BY <1>3, <1>4 DEF Types
  <2>2. numDependents' \in [Tasks -> Int]  BY <1>3 DEF Types
  <2> QED  BY <1>1, <1>3, <2>1, <2>2 DEF Types, Stacks, StackType
<1>18. Counts'
  <2>1. numDependents'[w] = numDependents[w] - 1 /\ CountOK(w)
    BY <1>3 DEF Types, GInv, Counts
  <2>2. CountOK(w)'  BY <2>1, CountMinus
  <2>3. \A v \in Tasks \ {w} : CountOK(v)'  BY <1>3, CountSame DEF GInv, Counts, Types
  <2> QED  BY <2>2, <2>3 DEF Counts
<1>19. InputTasksOK'
  <2> SUFFICES ASSUME NEW o \in Owners, NEW i \in 1 .. Len(InputKeys[o]) PROVE InputsOK(o, i)'
    BY DEF InputTasksOK
  <2>1. taskPhase'[o] = 0 => taskPhase[o] = 0  OBVIOUS
  <2>2. life[<<o, i>>] = "Absent" => life'[<<o, i>>] = "Absent"  OBVIOUS
  <2> QED  BY <1>3, <2>1, <2>2, InputsKept
<1>20. RootsOK'  BY <1>1, <1>3, RootsKept
<1>21. KeysOK'
  <2> SUFFICES ASSUME NEW k \in Keys PROVE KeyOK(k)'
    BY DEF KeysOK
  <2>1. In(k, Leaving) => In(k, Leaving)'
    <3>1. Leaving \subseteq RunPcs /\ \A g \in New : g.pc = "Enter"  BY DEF Leaving, RunPcs
    <3>2. /\ In(f.task, Leaving) <=> Top(th).pc \in Leaving
          /\ In(f.task, Leaving)' <=> f.pc \in Leaving
          /\ \A v \in Tasks \ {f.task} : In(v, Leaving)' <=> In(v, Leaving)
      BY <1>3, <3>1, WhereItIs
    <3> QED  BY <3>2, TypeFacts
  <2>2. KeyOK(k) /\ compiled \subseteq compiled'  BY DEF GInv, KeysOK
  <2> QED  BY <2>1, <2>2, KeyKept
<1>22. CompiledInOrder'  BY DEF GInv, CompiledInOrder
<1>23. FramesOK'  BY <1>1, <1>13, <1>14 DEF FramesOK
<1> QED
  BY <1>1, <1>9, <1>15, <1>16, <1>17, <1>18, <1>19, <1>20, <1>21, <1>22, <1>23
     DEF GInv, Handling, TasksOK

LEMMA SuspendPreserves ==
  ASSUME GInv, NEW th \in Threads, Suspend(th)
  PROVE  GInv'
<1>1. stack[th] # <<>> /\ Top(th).pc = "Suspend" /\ Top(th).next = None
  BY DEF Suspend, At, Top
<1>2. PICK t \in Tasks : t = This(th)  BY <1>1, ThisTask DEF Over
<1>3. Top(th) \in FrameRecs /\ FrameOK(Top(th))  BY <1>1, ThisTask
<1>4. PICK f \in FrameRecs : f = [Top(th) EXCEPT !.pc = "End"]
  BY <1>3 DEF FrameRecs, Pcs
<1>5. /\ f.task = Top(th).task /\ f.task = t /\ f.depth = Top(th).depth /\ f.next = None
      /\ f.list = Top(th).list /\ f.pc = "End"
  BY <1>1, <1>2, <1>3, <1>4 DEF FrameRecs, This
<1>6. /\ RemoveDependency(th, t, f, TRUE)
      /\ UNCHANGED <<life, parent, taskPhase, claimed, waiting, compiled, unspawned>>
  BY <1>2, <1>4 DEF Suspend, keyVars
<1>r. PICK New \in SUBSET FrameRecs : Removed(th, f, t, New)
  <2>1. \/ RemoveDependency(th, t, f, TRUE) /\ f.pc \in {"End", "Destroy"}
        \/ RemoveDependency(th, t, f, FALSE) /\ f.pc = "Notify"
    BY <1>5, <1>6
  <2>2. f.depth = Top(th).depth /\ f.next = None  BY <1>5
  <2> QED  BY <1>1, <2>1, <2>2, RemovalReplaces
<1>7. /\ Replaced(th, f, New)
      /\ \A g \in New : g.list = <<>> /\ g.pc = "Enter"
  BY <1>r DEF Removed
<1>8. /\ \A v \in Tasks \ {t} : Deps(v)' = Deps(v)
      /\ Deps(t)' = Deps(t) \ {<<t, -1>>} /\ <<t, -1>> \in Deps(t)
  <2>1. \A g \in New : g.list = <<>> /\ g.pc = "Enter"  BY <1>7
  <2>2. Top(th).pc \notin Over \cup {"Destroy"} /\ Top(th).pc \in RunPcs
        /\ f.pc # "Destroy" /\ f.pc \notin RunPcs
    BY <1>1, <1>5 DEF Over, RunPcs
  <2>3. UNCHANGED <<life, parent, waiting>>  BY <1>6
  <2> QED  BY <1>1, <1>5, <1>7, <2>1, <2>2, <2>3, SelfMoved
<1>9. \A j \in 1 .. NumRequests(t) : Met(t, j) => Met(t, j)'
  <2>1. \A u : \A n \in Nat : <<u, n>> # <<t, -1>>  OBVIOUS
  <2>2. \A u : \A n \in Nat : <<u, n>> \in Deps(t) => <<u, n>> \in Deps(t)'  BY <1>8, <2>1
  <2>3. \A u : InputDone(u)' <=> InputDone(u)  BY <1>6 DEF InputDone
  <2>4. 0 \in Nat /\ compiled' = compiled  BY <1>6
  <2> QED  BY <2>2, <2>3, <2>4 DEF Met
<1>10. FrameOK(f)'
  <2>1. f.list = <<>>  BY <1>1, <1>3, <1>5 DEF FrameOK
  <2> QED  BY <1>5, <2>1, TypeFacts DEF FrameOK, RunPcs
<1>11. numDependents' = [numDependents EXCEPT ![t] = @ - 1]  BY <1>6 DEF RemoveDependency
<1>12. /\ Top(th).pc \in RunPcs \ {"Inputs"} /\ (Top(th).pc \in Leaving => f.pc \in Leaving)
       /\ t = f.task /\ f.pc \in Over
  BY <1>1, <1>5 DEF RunPcs, Leaving, Over
<1>13. PICK e \in Deps(t) : e = <<t, -1>>  BY <1>8
<1> QED
  BY <1>1, <1>5, <1>6, <1>r, <1>8, <1>9, <1>10, <1>11, <1>12, <1>13, RemovalStep

\* The only list of tasks to notify of a key is that of its running frame.
LEMMA OneList ==
  ASSUME GInv, NEW th \in Threads, stack[th] # <<>>, This(th) \in Tasks, Top(th).pc \notin Over
  PROVE  \A g \in Others(th) : g.task = This(th) => g.list = <<>>
<1> SUFFICES ASSUME NEW g \in Others(th), g.task = This(th) PROVE g.list = <<>>
  OBVIOUS
<1> DEFINE t == This(th)
<1>1. /\ Top(th) \in FrameRecs /\ Active = {Top(th)} \cup Others(th)
      /\ \A S : Once(S) /\ Top(th) \in S => g \notin S
  BY TopFrame DEF GInv, Stacks
<1>2. g \in FrameRecs  BY <1>1, ActiveDef DEF GInv, Stacks, StackType
<1>3. Once(Handles(t)) /\ Top(th) \in Handles(t)
  BY <1>1 DEF GInv, Handling, Exclusive, Handles, Over, This
<1>4. g.pc \in Over  BY <1>1, <1>2, <1>3 DEF Handles, Over
<1>5. FrameOK(g)  BY <1>1 DEF GInv, FramesOK
<1> QED  BY <1>4, <1>5 DEF FrameOK, Over

\* A task that completes or notifies nobody any more.
LEMMA NotifyEndPreserves ==
  ASSUME GInv, NEW th \in Threads, Notify(th), Top(th).list = <<>>
  PROVE  GInv'
<1>1. stack[th] # <<>> /\ Top(th).pc = "Notify"  BY DEF Notify, At, Top
<1>2. PICK t \in Keys : t = This(th) /\ t \in Tasks
  BY <1>1, ThisTask, TypeFacts DEF FrameOK, This
<1>3. Top(th) \in FrameRecs /\ FrameOK(Top(th))  BY <1>1, ThisTask
<1>4. PICK f \in FrameRecs : f = [Top(th) EXCEPT !.pc = "Complete"]
  BY <1>3 DEF FrameRecs, Pcs
<1>5. /\ f.task = Top(th).task /\ f.task = t /\ f.depth = Top(th).depth /\ f.next = Top(th).next
      /\ f.list = Top(th).list /\ f.list = <<>> /\ f.pc = "Complete"
  BY <1>2, <1>3, <1>4 DEF FrameRecs, This
<1>6. /\ Set(th, f)
      /\ UNCHANGED <<life, parent, numDependents, taskPhase, dispatched, claimed, waiting,
                     compiled, unspawned>>
  BY <1>4 DEF Notify, keyVars
<1>8. f.pc \notin Over /\ f.pc \in RunPcs /\ f.pc # "Destroy" /\ Top(th).pc \notin Over
  BY <1>1, <1>5 DEF Over, RunPcs
<1>9. Top(th).next = None /\ taskPhase[t] = 1 /\ Deps(t) = {<<t, -1>>} /\ claimed[t] = "Done"
  BY <1>1, <1>3, <1>5 DEF FrameOK, RunPcs
<1>10. Replaced(th, f, {})  BY <1>1, <1>5, <1>6, <1>8, SetReplaces DEF GInv, Over
<1>11. \A v : Deps(v)' = Deps(v)
  <2>1. {} \in SUBSET FrameRecs /\ \A g \in {} : g.list = <<>> /\ g.pc = "Enter"  OBVIOUS
  <2>2. Top(th).pc \in RunPcs /\ Top(th).pc # "Destroy"  BY <1>1 DEF RunPcs
  <2>3. UNCHANGED <<life, parent, waiting>>  BY <1>6
  <2> QED  BY <1>1, <1>5, <1>8, <1>10, <2>1, <2>2, <2>3, DepsKept
<1>12. Grows  BY <1>6 DEF Grows
<1>13. /\ Stacks' /\ Handling' /\ InputTasksOK' /\ RootsOK' /\ Active' = {f} \cup Others(th)
       /\ \A g \in Others(th) : FrameOK(g)'
       /\ \A v \in Tasks \ {t} : TaskOK(v)'
       /\ (taskPhase'[t] = 1 => \A j \in 1 .. NumRequests(t) : Met(t, j)') => TaskOK(t)'
       /\ KeysOK'
  <2>1. \A v \in Tasks \ {t} : Deps(v)' = Deps(v) /\ taskPhase'[v] = taskPhase[v]
    BY <1>6, <1>11
  <2>2. Top(th).pc # "Inputs" /\ f.pc \in Leaving  BY <1>1, <1>5 DEF Leaving
  <2>3. UNCHANGED <<life, parent, dispatched, unspawned>> /\ UNCHANGED <<claimed, waiting>>
    BY <1>6
  <2>4. taskPhase'[t] = 0 => taskPhase[t] = 0  BY <1>6
  <2>5. f.task \in Tasks  BY <1>2, <1>5
  <2> QED  BY <1>1, <1>5, <1>6, <1>8, <1>12, <2>1, <2>2, <2>3, <2>4, <2>5, PlainStep
<1>14. \A j \in 1 .. NumRequests(t) : Met(t, j)'
  <2>2. \A j \in 1 .. NumRequests(t) : Met(t, j)  BY <1>2, <1>9 DEF GInv, TasksOK, TaskOK
  <2>3. compiled \subseteq compiled' /\ Deps(t) \subseteq Deps(t)'  BY <1>6, <1>11
  <2> QED  BY <1>2, <2>2, <2>3, MetKept
<1>15. Types'  BY <1>6, <1>13 DEF GInv, Types, Stacks, StackType
<1>16. Counts'  BY <1>6, <1>11, CountSame DEF GInv, Counts
<1>17. FrameOK(f)'
  <2>1. /\ Deps(t)' = {<<t, -1>>} /\ taskPhase'[t] = 1 /\ t # None /\ f.next = None
        /\ claimed'[t] = "Done"
    BY <1>2, <1>5, <1>6, <1>9, <1>11, TypeFacts
  <2> QED  BY <1>5, <2>1 DEF FrameOK, RunPcs
<1>18. CompiledInOrder'  BY <1>6 DEF GInv, CompiledInOrder
<1> QED
  BY <1>13, <1>14, <1>15, <1>16, <1>17, <1>18 DEF GInv, FramesOK, TasksOK

\* A waiting task is told, and dispatched if that was all it waited for.
LEMMA NotifyOnePreserves ==
  ASSUME GInv, NEW th \in Threads, Notify(th), Top(th).list # <<>>
  PROVE  GInv'
<1>1. stack[th] # <<>> /\ Top(th).pc = "Notify"  BY DEF Notify, At, Top
<1>2. PICK t \in Keys : t = This(th) /\ t \in Tasks
  BY <1>1, ThisTask, TypeFacts DEF FrameOK, This
<1>3. Top(th) \in FrameRecs /\ FrameOK(Top(th))  BY <1>1, ThisTask
<1>l. PICK list \in Seq(InputTasks) : list = Top(th).list /\ list # <<>>
  BY <1>3 DEF FrameRecs
<1>m. PICK m \in Nat \ {0} : m = Len(list)  BY <1>l
<1>w. PICK w \in InputTasks : w = Head(list) /\ w = list[1] /\ w \in Tasks /\ w # t
  BY <1>l, <1>2, TypeFacts
<1>4. PICK f \in FrameRecs : f = [Top(th) EXCEPT !.list = Tail(list)]
  <2>1. Tail(list) \in Seq(InputTasks)  BY <1>l
  <2> QED  BY <1>3, <2>1 DEF FrameRecs
<1>9. Top(th).next = None /\ taskPhase[t] = 1 /\ Deps(t) = {<<t, -1>>} /\ claimed[t] = "Done"
  <2>1. Top(th).task = t  BY <1>2 DEF This
  <2> QED  BY <1>1, <1>3, <2>1 DEF FrameOK, RunPcs
<1>5. /\ f.task = Top(th).task /\ f.task = t /\ f.depth = Top(th).depth /\ f.next = None
      /\ f.list = Tail(list) /\ f.pc = "Notify"
  BY <1>1, <1>2, <1>3, <1>4, <1>9 DEF FrameRecs, This
<1>6. /\ RemoveDependency(th, w, f, FALSE)
      /\ UNCHANGED <<life, parent, taskPhase, claimed, waiting, compiled, unspawned>>
  BY <1>l, <1>w, <1>4 DEF Notify, keyVars
<1>r. PICK New \in SUBSET FrameRecs : Removed(th, f, w, New)
  <2>1. \/ RemoveDependency(th, w, f, TRUE) /\ f.pc \in {"End", "Destroy"}
        \/ RemoveDependency(th, w, f, FALSE) /\ f.pc = "Notify"
    BY <1>5, <1>6
  <2>2. f.depth = Top(th).depth /\ f.next = None /\ w \in Tasks /\ f \in FrameRecs
        /\ stack[th] # <<>> /\ GInv /\ th \in Threads
    BY <1>1, <1>5, <1>w
  <2> QED  BY ONLY <2>1, <2>2, RemovalReplaces
<1>7. /\ Replaced(th, f, New)
      /\ \A g \in New : g.list = <<>> /\ g.pc = "Enter"
  BY <1>r DEF Removed
<1>10. \A n, v : AtEnd(Tail(list), n, v) <=> AtEnd(list, n, v) /\ n # m
  <2>1. /\ Tail(list) \in Seq(InputTasks) /\ Len(Tail(list)) = m - 1
        /\ \A j \in 1 .. Len(Tail(list)) : Tail(list)[j] = list[j + 1]
    <3>1. \A s \in Seq(InputTasks) : s # <<>> =>
            /\ Tail(s) \in Seq(InputTasks) /\ Len(Tail(s)) = Len(s) - 1
            /\ \A j \in 1 .. Len(Tail(s)) : Tail(s)[j] = s[j + 1]
      OBVIOUS
    <3> QED  BY <1>l, <1>m, <3>1
  <2> SUFFICES ASSUME NEW n, NEW v
               PROVE  AtEnd(Tail(list), n, v) <=> AtEnd(list, n, v) /\ n # m
    OBVIOUS
  <2>2. CASE n \in 1 .. m - 1
    <3>1. m - n \in 1 .. Len(Tail(list)) /\ Tail(list)[m - n] = list[(m - n) + 1]
      BY <1>m, <2>1, <2>2
    <3>2. Len(Tail(list)) + 1 - n = m - n /\ Len(list) + 1 - n = (m - n) + 1
      BY <1>m, <2>1, <2>2
    <3>3. n \in 1 .. Len(Tail(list)) /\ n \in 1 .. Len(list) /\ n # m  BY <1>m, <2>1, <2>2
    <3> QED  BY <3>1, <3>2, <3>3 DEF AtEnd
  <2>3. CASE n \notin 1 .. m - 1
    <3>1. n \notin 1 .. Len(Tail(list)) /\ (n = m \/ n \notin 1 .. Len(list))  BY <1>m, <2>1, <2>3
    <3> QED  BY <3>1 DEF AtEnd
  <2> QED  BY <2>2, <2>3
<1>11. \A v : AtEnd(list, m, v) <=> v = w
  <2>1. m \in 1 .. Len(list) /\ Len(list) + 1 - m = 1  BY <1>m
  <2> QED  BY <1>w, <2>1 DEF AtEnd
<1>12. \A n, v : Entry(t, n, v) <=> AtEnd(list, n, v)
  <2> SUFFICES ASSUME NEW n, NEW v PROVE Entry(t, n, v) <=> AtEnd(list, n, v)
    OBVIOUS
  <2>1. waiting[t] = <<>>  BY <1>2, <1>9 DEF GInv, KeysOK, KeyOK
  <2>2. ~AtEnd(<<>>, n, v)  BY DEF AtEnd
  <2>3. Active = {Top(th)} \cup Others(th)  BY <1>1, TopFrame DEF GInv, Stacks
  <2>4. \A g \in Others(th) : g.task = t => g.list = <<>>
    <3>1. Top(th).pc \notin Over /\ This(th) \in Tasks  BY <1>1, <1>2 DEF Over
    <3> QED  BY <1>1, <1>2, <3>1, OneList
  <2>5. Top(th).task = t  BY <1>2 DEF This
  <2> QED  BY <1>2, <1>l, <2>1, <2>2, <2>3, <2>4, <2>5 DEF Entry
<1>13. \A k \in Tasks : \A n, v : Entry(k, n, v)' <=> Entry(k, n, v) /\ ~(k = t /\ n = m)
  <2> SUFFICES ASSUME NEW k \in Tasks, NEW n, NEW v
               PROVE  Entry(k, n, v)' <=> Entry(k, n, v) /\ ~(k = t /\ n = m)
    OBVIOUS
  <2>1. Active = {Top(th)} \cup Others(th)  BY <1>1, TopFrame DEF GInv, Stacks
  <2>2. Active' = {f} \cup New \cup Others(th)  BY <1>7 DEF Replaced
  <2>3. \A g \in Others(th) : g.task = t => g.list = <<>>
    <3>1. Top(th).pc \notin Over /\ This(th) \in Tasks  BY <1>1, <1>2 DEF Over
    <3> QED  BY <1>1, <1>2, <3>1, OneList
  <2>4. ~AtEnd(<<>>, n, v)  BY DEF AtEnd
  <2>5. Entry(k, n, v)' <=> /\ k \in Keys
                            /\ \/ AtEnd(waiting'[k], n, v)
                               \/ \E g \in Active' : g.task = k /\ AtEnd(g.list, n, v)
    BY DEF Entry, AtEnd
  <2>6. waiting'[k] = waiting[k]  BY <1>6
  <2>7. CASE k = t
    <3>1. waiting[t] = <<>>  BY <1>2, <1>9 DEF GInv, KeysOK, KeyOK
    <3>2. (\E g \in Active' : g.task = k /\ AtEnd(g.list, n, v)) <=> AtEnd(Tail(list), n, v)
      BY <1>5, <1>7, <2>2, <2>3, <2>4, <2>7
    <3> QED  BY <1>2, <1>10, <1>12, <2>4, <2>5, <2>6, <2>7, <3>1, <3>2
  <2>8. CASE k # t
    <3>1. (\E g \in Active' : g.task = k /\ AtEnd(g.list, n, v))
            <=> \E g \in Others(th) : g.task = k /\ AtEnd(g.list, n, v)
      BY <1>5, <1>7, <2>2, <2>4, <2>8
    <3>2. (\E g \in Active : g.task = k /\ AtEnd(g.list, n, v))
            <=> \E g \in Others(th) : g.task = k /\ AtEnd(g.list, n, v)
      BY <1>5, <2>1, <2>8
    <3> QED  BY <2>5, <2>6, <2>8, <3>1, <3>2 DEF Entry
  <2> QED  BY <2>7, <2>8
<1>14. \A v \in Tasks : \A pcs \in {RunPcs, {"Destroy"}} : In(v, pcs)' <=> In(v, pcs)
  <2>1. Active = {Top(th)} \cup Others(th)  BY <1>1, TopFrame DEF GInv, Stacks
  <2>2. Active' = {f} \cup New \cup Others(th)  BY <1>7 DEF Replaced
  <2>3. f.task = Top(th).task /\ f.pc = Top(th).pc  BY <1>1, <1>5
  <2>4. \A g \in New : g.pc = "Enter"  BY <1>7
  <2> QED  BY <2>1, <2>2, <2>3, <2>4 DEF In, RunPcs
<1>15. \A v \in Tasks, u \in Tasks, n \in Int :
         Depends(v, u, n)' <=> Depends(v, u, n) /\ ~(v = w /\ u = t /\ n = m)
  <2> SUFFICES ASSUME NEW v \in Tasks, NEW u \in Tasks, NEW n \in Int
               PROVE  Depends(v, u, n)' <=> Depends(v, u, n) /\ ~(v = w /\ u = t /\ n = m)
    OBVIOUS
  <2>1. Child(u, v)' <=> Child(u, v)  BY <1>6, <1>14 DEF Child
  <2>2. In(v, RunPcs)' <=> In(v, RunPcs)  BY <1>14
  <2>3. Entry(u, n, v)' <=> Entry(u, n, v) /\ ~(v = w /\ u = t /\ n = m)
    BY <1>11, <1>12, <1>13
  <2> QED  BY <1>m, <2>1, <2>2, <2>3 DEF Depends
<1>16. \A v \in Tasks \ {w} : Deps(v)' = Deps(v)
  BY <1>15, DepsSame
<1>17. Deps(w)' = Deps(w) \ {<<t, m>>} /\ <<t, m>> \in Deps(w)
  <2>1. \A u \in Tasks, n \in Int : Depends(w, u, n)' <=> Depends(w, u, n) /\ ~(u = t /\ n = m)
    BY <1>15, <1>w
  <2>2. m \in Int /\ t \in Tasks  BY <1>2
  <2>3. Deps(w)' = Deps(w) \ {<<t, m>>}  BY <2>1, <2>2, DepsMinus
  <2>4. Depends(w, t, m)  BY <1>11, <1>12, <1>m DEF Depends
  <2> QED  BY <2>2, <2>3, <2>4, DepsDef
<1>18. \A j \in 1 .. NumRequests(w) : Met(w, j) => Met(w, j)'
  <2> SUFFICES ASSUME NEW j \in 1 .. NumRequests(w), Met(w, j) PROVE Met(w, j)'
    OBVIOUS
  <2>1. t \in compiled /\ compiled' = compiled  BY <1>2, <1>6, <1>9 DEF GInv, KeysOK, KeyOK
  <2>2. IsInputTask(w)  BY <1>w DEF IsInputTask
  <2>3. ASSUME NEW n \in Nat, <<OutputKeys(w)[j], n>> \in Deps(w)
        PROVE  OutputKeys(w)[j] \in compiled \/ <<OutputKeys(w)[j], n>> \in Deps(w)'
    BY <1>17, <2>1, <2>3
  <2> QED  BY <2>1, <2>2, <2>3 DEF Met
<1>19. FrameOK(f)'
  <2>1. /\ Deps(t)' = {<<t, -1>>} /\ taskPhase'[t] = 1 /\ t # None /\ claimed'[t] = "Done"
    BY <1>2, <1>6, <1>9, <1>16, <1>w, TypeFacts
  <2> QED  BY <1>2, <1>5, <2>1 DEF FrameOK, RunPcs
<1>20. numDependents' = [numDependents EXCEPT ![w] = @ - 1]  BY <1>6 DEF RemoveDependency
<1>21. /\ Top(th).pc \in RunPcs \ {"Inputs"} /\ (Top(th).pc \in Leaving => f.pc \in Leaving)
       /\ w # f.task /\ f.pc \in RunPcs /\ f.task \in Tasks
  BY <1>1, <1>2, <1>w, <1>5 DEF RunPcs, Leaving
<1>22. PICK e \in Deps(w) : e = <<t, m>> /\ e # <<w, -1>> /\ w \in Tasks
  BY <1>17, <1>w
<1>23. Deps(w)' = Deps(w) \ {e}  BY <1>17, <1>22
<1> QED
  BY <1>1, <1>5, <1>6, <1>r, <1>9, <1>16, <1>18, <1>19, <1>20, <1>21, <1>22, <1>23, RemovalStep

\* A task without a parent completes.
LEMMA CompleteRootPreserves ==
  ASSUME GInv, NEW th \in Threads, Complete(th), parent[This(th)] = None
  PROVE  GInv'
<1>1. stack[th] # <<>> /\ Top(th).pc = "Complete"  BY DEF Complete, At, Top
<1>2. PICK t \in Tasks : t = This(th)  BY <1>1, ThisTask DEF Over
<1>3. Top(th) \in FrameRecs /\ FrameOK(Top(th))  BY <1>1, ThisTask
<1>4. PICK f \in FrameRecs : f = [Top(th) EXCEPT !.pc = "Destroy"]
  BY <1>3 DEF FrameRecs, Pcs
<1>5. /\ f.task = Top(th).task /\ f.task = t /\ f.depth = Top(th).depth /\ f.next = Top(th).next
      /\ f.list = Top(th).list /\ f.pc = "Destroy"
  BY <1>2, <1>3, <1>4 DEF FrameRecs, This
<1>6. /\ Set(th, f)
      /\ UNCHANGED <<life, parent, numDependents, taskPhase, dispatched, claimed, waiting,
                     compiled, unspawned>>
      /\ parent[t] = None
  BY <1>2, <1>4 DEF Complete, keyVars
<1>8. f.pc \notin Over /\ f.pc \in RunPcs /\ Top(th).pc \in RunPcs /\ Top(th).pc \notin Over
  BY <1>1, <1>5 DEF Over, RunPcs
<1>9. /\ Top(th).next = None /\ taskPhase[t] = 1 /\ Deps(t) = {<<t, -1>>}
      /\ Top(th).list = <<>> /\ (t \in Keys => claimed[t] = "Done" \/ t \in Failing)
  BY <1>1, <1>3, <1>5 DEF FrameOK, RunPcs
<1>10. Replaced(th, f, {})  BY <1>1, <1>5, <1>6, <1>8, SetReplaces DEF GInv, Over
<1>11. \A v \in Tasks : Deps(v)' = Deps(v)
  <2> SUFFICES ASSUME NEW v \in Tasks PROVE Deps(v)' = Deps(v)
    OBVIOUS
  <2>1. Active = {Top(th)} \cup Others(th)  BY <1>1, TopFrame DEF GInv, Stacks
  <2>2. Active' = {f} \cup Others(th)  BY <1>10 DEF Replaced
  <2>3. In(v, RunPcs)' <=> In(v, RunPcs)  BY <1>5, <1>8, <2>1, <2>2 DEF In
  <2>4. \A u \in Tasks : u # t => (In(u, {"Destroy"})' <=> In(u, {"Destroy"}))
    BY <1>5, <2>1, <2>2 DEF In
  <2>5. \A u \in Tasks : Child(u, v)' <=> Child(u, v)
    BY <1>6, <2>4, TypeFacts DEF Child
  <2>6. \A k, n : Entry(k, n, v)' <=> Entry(k, n, v)
    <3>1. {} \in SUBSET FrameRecs /\ \A g \in {} : g.list = <<>>  OBVIOUS
    <3>2. waiting' = waiting  BY <1>6
    <3> QED  BY <1>1, <1>5, <1>10, <3>1, <3>2, EntriesKept
  <2>7. \A u \in Tasks, n \in Int : Depends(v, u, n)' <=> Depends(v, u, n)
    BY <2>3, <2>5, <2>6 DEF Depends
  <2> QED  BY <2>7, DepsSame
<1>12. Grows  BY <1>6 DEF Grows
<1>13. /\ Stacks' /\ Handling' /\ InputTasksOK' /\ RootsOK' /\ Active' = {f} \cup Others(th)
       /\ \A g \in Others(th) : FrameOK(g)'
       /\ \A v \in Tasks \ {t} : TaskOK(v)'
       /\ (taskPhase'[t] = 1 => \A j \in 1 .. NumRequests(t) : Met(t, j)') => TaskOK(t)'
       /\ KeysOK'
  <2>1. \A v \in Tasks \ {t} : Deps(v)' = Deps(v) /\ taskPhase'[v] = taskPhase[v]
    BY <1>6, <1>11
  <2>2. Top(th).pc # "Inputs" /\ f.pc \in Leaving  BY <1>1, <1>5 DEF Leaving
  <2>3. UNCHANGED <<life, parent, dispatched, unspawned>> /\ UNCHANGED <<claimed, waiting>>
    BY <1>6
  <2>4. taskPhase'[t] = 0 => taskPhase[t] = 0  BY <1>6
  <2> QED  BY <1>1, <1>5, <1>6, <1>8, <1>12, <2>1, <2>2, <2>3, <2>4, PlainStep
<1>14. \A j \in 1 .. NumRequests(t) : Met(t, j)'
  <2>2. \A j \in 1 .. NumRequests(t) : Met(t, j)  BY <1>9 DEF GInv, TasksOK, TaskOK
  <2>3. compiled \subseteq compiled' /\ Deps(t) \subseteq Deps(t)'  BY <1>6, <1>11
  <2> QED  BY <2>2, <2>3, MetKept
<1>15. Types'  BY <1>6, <1>13 DEF GInv, Types, Stacks, StackType
<1>16. Counts'  BY <1>6, <1>11, CountSame DEF GInv, Counts
<1>17. FrameOK(f)'
  <2>1. /\ Deps(t)' = {<<t, -1>>} /\ taskPhase'[t] = 1 /\ t # None /\ f.next = None
        /\ f.list = <<>> /\ (t \in Keys => claimed'[t] = "Done" \/ t \in Failing)
    BY <1>5, <1>6, <1>9, <1>11, TypeFacts
  <2> QED  BY <1>5, <2>1 DEF FrameOK, RunPcs
<1>18. CompiledInOrder'  BY <1>6 DEF GInv, CompiledInOrder
<1> QED
  BY <1>13, <1>14, <1>15, <1>16, <1>17, <1>18 DEF GInv, FramesOK, TasksOK

\* A subtask completes.
LEMMA CompleteSubtaskPreserves ==
  ASSUME GInv, NEW th \in Threads, Complete(th), parent[This(th)] # None
  PROVE  GInv'
<1>1. stack[th] # <<>> /\ Top(th).pc = "Complete"  BY DEF Complete, At, Top
<1>2. PICK t \in Tasks : t = This(th)  BY <1>1, ThisTask DEF Over
<1>3. Top(th) \in FrameRecs /\ FrameOK(Top(th))  BY <1>1, ThisTask
<1>w. PICK w \in Tasks : w = parent[t]  BY <1>2 DEF GInv, Types
<1>4. PICK f \in FrameRecs : f = [Top(th) EXCEPT !.pc = "Destroy"]
  BY <1>3 DEF FrameRecs, Pcs
<1>9. /\ Top(th).next = None /\ taskPhase[t] = 1 /\ Deps(t) = {<<t, -1>>}
      /\ Top(th).list = <<>> /\ (t \in Keys => claimed[t] = "Done" \/ t \in Failing)
  <2>1. Top(th).task = t  BY <1>2 DEF This
  <2> QED  BY <1>1, <1>3, <2>1 DEF FrameOK, RunPcs
<1>5. /\ f.task = Top(th).task /\ f.task = t /\ f.depth = Top(th).depth /\ f.next = None
      /\ f.list = Top(th).list /\ f.pc = "Destroy"
  BY <1>2, <1>3, <1>4, <1>9 DEF FrameRecs, This
<1>6. /\ RemoveDependency(th, w, f, TRUE)
      /\ UNCHANGED <<life, parent, taskPhase, claimed, waiting, compiled, unspawned>>
  BY <1>2, <1>w, <1>4 DEF Complete, keyVars
<1>r. PICK New \in SUBSET FrameRecs : Removed(th, f, w, New)
  <2>1. \/ RemoveDependency(th, w, f, TRUE) /\ f.pc \in {"End", "Destroy"}
        \/ RemoveDependency(th, w, f, FALSE) /\ f.pc = "Notify"
    BY <1>5, <1>6
  <2>2. f.depth = Top(th).depth /\ f.next = None /\ w \in Tasks /\ f \in FrameRecs
        /\ stack[th] # <<>> /\ GInv /\ th \in Threads
    BY <1>1, <1>5
  <2> QED  BY ONLY <2>1, <2>2, RemovalReplaces
<1>7. /\ Replaced(th, f, New)
      /\ \A g \in New : g.list = <<>> /\ g.pc = "Enter"
  BY <1>r DEF Removed
<1>8. f.pc \in RunPcs /\ Top(th).pc \in RunPcs /\ Top(th).pc \notin Over
  BY <1>1, <1>5 DEF Over, RunPcs
<1>10. \A v \in Tasks : In(v, RunPcs)' <=> In(v, RunPcs)
  <2>1. Active = {Top(th)} \cup Others(th)  BY <1>1, TopFrame DEF GInv, Stacks
  <2>2. Active' = {f} \cup New \cup Others(th)  BY <1>7 DEF Replaced
  <2>3. \A g \in New : g.pc = "Enter"  BY <1>7
  <2> QED  BY <1>5, <1>8, <2>1, <2>2, <2>3 DEF In, RunPcs
<1>11. /\ ~In(t, {"Destroy"}) /\ In(t, {"Destroy"})'
       /\ \A v \in Tasks \ {t} : In(v, {"Destroy"})' <=> In(v, {"Destroy"})
  <2>1. {"Destroy"} \subseteq RunPcs /\ \A g \in New : g.pc = "Enter"  BY <1>7 DEF RunPcs
  <2>2. /\ In(f.task, {"Destroy"}) <=> Top(th).pc \in {"Destroy"}
        /\ In(f.task, {"Destroy"})' <=> f.pc \in {"Destroy"}
        /\ \A v \in Tasks \ {f.task} : In(v, {"Destroy"})' <=> In(v, {"Destroy"})
    BY <1>1, <1>5, <1>7, <1>8, <2>1, WhereItIs
  <2> QED  BY <1>1, <1>5, <2>2
<1>12. \A k, n, v : Entry(k, n, v)' <=> Entry(k, n, v)
  <2>1. waiting' = waiting /\ \A g \in New : g.list = <<>>  BY <1>6, <1>7
  <2> QED  BY <1>1, <1>5, <1>7, <2>1, EntriesKept
<1>13. life[t] = "Alive"
  <2>1. Deps(t) # {}  BY <1>9
  <2> QED  BY <2>1, WaitersAsleep
<1>14. \A u \in Tasks, v \in Tasks : Child(u, v)' <=> Child(u, v) /\ ~(u = t /\ v = w)
  BY <1>6, <1>11, <1>w DEF Child
<1>15. \A v \in Tasks, u \in Tasks, n \in Int :
         Depends(v, u, n)' <=> Depends(v, u, n) /\ ~(v = w /\ u = t /\ n = 0)
  BY <1>10, <1>12, <1>14 DEF Depends
<1>16. \A v \in Tasks \ {w} : Deps(v)' = Deps(v)
  BY <1>15, DepsSame
<1>17. Deps(w)' = Deps(w) \ {<<t, 0>>} /\ <<t, 0>> \in Deps(w)
  <2>1. \A u \in Tasks, n \in Int : Depends(w, u, n)' <=> Depends(w, u, n) /\ ~(u = t /\ n = 0)
    BY <1>15
  <2>2. 0 \in Int  OBVIOUS
  <2>3. Deps(w)' = Deps(w) \ {<<t, 0>>}  BY <2>1, <2>2, DepsMinus
  <2>4. Depends(w, t, 0)  BY <1>11, <1>13, <1>w DEF Depends, Child
  <2> QED  BY <2>2, <2>3, <2>4, DepsDef
<1>18. w # t  BY <1>9, <1>17
<1>19. \A j \in 1 .. NumRequests(w) : Met(w, j) => Met(w, j)'
  <2> SUFFICES ASSUME NEW j \in 1 .. NumRequests(w), Met(w, j) PROVE Met(w, j)'
    OBVIOUS
  <2>1. \A u : InputDone(u)' <=> InputDone(u)  BY <1>6 DEF InputDone
  <2>2. CASE IsInputTask(w)
    <3>1. t \in Keys => t \in compiled \cup Failing
      BY <1>9 DEF GInv, KeysOK, KeyOK
    <3>2. OutputKeys(w)[j] \in Keys
      <4>1. OutputKeys(w) \in Seq(Keys) /\ j \in 1 .. Len(OutputKeys(w))
        BY <2>2, TypeFacts DEF IsInputTask, NumRequests
      <4> QED  BY <4>1
    <3>3. ASSUME NEW n \in Nat, <<OutputKeys(w)[j], n>> \in Deps(w)
          PROVE  OutputKeys(w)[j] \in compiled \cup Failing \/ <<OutputKeys(w)[j], n>> \in Deps(w)'
      BY <1>17, <3>1, <3>2, <3>3
    <3> QED  BY <1>6, <2>2, <3>3 DEF Met
  <2>3. CASE ~IsInputTask(w)
    <3>1. CASE t = <<w, j>>
      <4>1. t \in InputTasks /\ IsInputTask(t)
        <5>1. w \in Owners /\ j \in 1 .. Len(InputKeys[w])
          BY <2>3, TypeFacts DEF IsInputTask, NumRequests
        <5> QED  BY <3>1, <5>1, TypeFacts DEF IsInputTask
      <4>2. NumRequests(t) = Len(OutputKeys(t))  BY <4>1 DEF NumRequests
      <4>3. InputDone(t)  BY <1>9, <4>1, <4>2, InputsDone DEF InputDone
      <4> QED  BY <2>1, <2>3, <3>1, <4>3 DEF Met
    <3>2. CASE t # <<w, j>>
      <4>1. <<<<w, j>>, 0>> \in Deps(w) => <<<<w, j>>, 0>> \in Deps(w)'  BY <1>17, <3>2
      <4> QED  BY <2>1, <2>3, <4>1 DEF Met
    <3> QED  BY <3>1, <3>2
  <2> QED  BY <2>2, <2>3
<1>20. FrameOK(f)'
  <2>1. /\ Deps(t)' = {<<t, -1>>} /\ taskPhase'[t] = 1 /\ t # None /\ f.list = <<>>
        /\ (t \in Keys => claimed'[t] = "Done" \/ t \in Failing)
    BY <1>5, <1>6, <1>9, <1>16, <1>18, TypeFacts
  <2> QED  BY <1>5, <2>1 DEF FrameOK, RunPcs
<1>21. numDependents' = [numDependents EXCEPT ![w] = @ - 1]  BY <1>6 DEF RemoveDependency
<1>22. /\ Top(th).pc \in RunPcs \ {"Inputs"} /\ (Top(th).pc \in Leaving => f.pc \in Leaving)
       /\ w # f.task /\ f.task \in Tasks
  BY <1>1, <1>5, <1>18 DEF RunPcs, Leaving
<1>23. PICK e \in Deps(w) : e = <<t, 0>> /\ e # <<w, -1>>
  BY <1>17, <1>18
<1>24. Deps(w)' = Deps(w) \ {e}  BY <1>17, <1>23
<1> QED
  BY <1>1, <1>5, <1>6, <1>r, <1>8, <1>9, <1>16, <1>19, <1>20, <1>21, <1>22, <1>23, <1>24,
     RemovalStep

\* A task deletes itself.
LEMMA DestroyPreserves ==
  ASSUME GInv, NEW th \in Threads, Destroy(th)
  PROVE  GInv'
<1>1. stack[th] # <<>> /\ Top(th).pc = "Destroy"  BY DEF Destroy, At, Top
<1>2. PICK t \in Tasks : t = This(th)  BY <1>1, ThisTask DEF Over
<1>3. /\ Top(th) \in FrameRecs /\ FrameOK(Top(th)) /\ Active = {Top(th)} \cup Others(th)
      /\ \A S : Once(S) /\ Top(th) \in S => \A g \in Others(th) : g \notin S
  BY <1>1, ThisTask, TopFrame DEF GInv, Stacks
<1>4. PICK f \in FrameRecs : f = [Top(th) EXCEPT !.pc = "End"]
  BY <1>3 DEF FrameRecs, Pcs
<1>5. /\ f.task = Top(th).task /\ f.task = t /\ f.depth = Top(th).depth /\ f.next = Top(th).next
      /\ f.list = Top(th).list /\ f.pc = "End"
  BY <1>2, <1>3, <1>4 DEF FrameRecs, This
<1>6. /\ Set(th, f) /\ numDependents' = [numDependents EXCEPT ![t] = @ - 1]
      /\ life' = [life EXCEPT ![t] = "Deleted"]
      /\ UNCHANGED <<parent, taskPhase, dispatched, claimed, waiting, compiled, unspawned>>
  BY <1>2, <1>4 DEF Destroy, keyVars
<1>7. Types /\ life'[t] = "Deleted" /\ \A v \in Tasks \ {t} : life'[v] = life[v]
  BY <1>6 DEF GInv, Types
<1>8. Top(th).pc \in RunPcs /\ f.pc \notin RunPcs /\ Top(th).pc \notin Over
  BY <1>1, <1>5 DEF Over, RunPcs
<1>9. /\ f.next = None /\ taskPhase[t] = 1 /\ Deps(t) = {<<t, -1>>}
      /\ f.list = <<>> /\ (t \in Keys => claimed[t] = "Done" \/ t \in Failing)
  BY <1>1, <1>3, <1>5 DEF FrameOK, RunPcs
<1>10. Replaced(th, f, {})
  <2>1. f.pc \notin {"Flush", "Check"}  BY <1>5
  <2> QED  BY <1>1, <1>5, <1>6, <2>1, SetReplaces DEF GInv
<1>11. Stacks' /\ Active' = {f} \cup Others(th) /\ \A u \in Threads \ {th} : stack'[u] = stack[u]
  BY <1>10 DEF Replaced
<1>12. Top(th) \in Handles(t) /\ f \notin Handles(t)
  BY <1>3, <1>5, <1>8, <1>9, TypeFacts DEF Handles, Over
<1>13. \A g \in Others(th) : g \notin Handles(t)
  BY <1>3, <1>12 DEF GInv, Handling, Exclusive
<1>14. life[t] = "Alive" /\ dispatched[t] = 0
  <2>1. Deps(t) # {}  BY <1>9
  <2> QED  BY <2>1, WaitersAsleep
<1>15. \A v \in Tasks \ {t}, pcs \in {RunPcs, {"Destroy"}, Leaving} : In(v, pcs)' <=> In(v, pcs)
  BY <1>3, <1>5, <1>11 DEF In
<1>16. In(t, {"Destroy"}) /\ ~In(t, RunPcs)' /\ ~In(t, Leaving)'
  <2>1. In(t, {"Destroy"})  BY <1>1, <1>3, <1>5 DEF In
  <2>2. ASSUME NEW g \in Active', g.task = t PROVE g.pc \notin RunPcs /\ g.pc \notin Leaving
    <3>1. CASE g = f  BY <1>5, <3>1 DEF RunPcs, Leaving
    <3>2. CASE g \in Others(th)
      <4>1. g \in FrameRecs  BY <1>3, <3>2, ActiveDef DEF GInv, Stacks, StackType
      <4> QED  BY <1>13, <2>2, <3>2, <4>1 DEF Handles, RunPcs, Leaving
    <3> QED  BY <1>11, <3>1, <3>2
  <2> QED  BY <2>1, <2>2 DEF In
<1>17. \A k, n, v : Entry(k, n, v)' <=> Entry(k, n, v)
  <2>1. {} \in SUBSET FrameRecs /\ \A g \in {} : g.list = <<>>  OBVIOUS
  <2>2. waiting' = waiting  BY <1>6
  <2> QED  BY <1>1, <1>5, <1>10, <2>1, <2>2, EntriesKept
<1>18. \A u \in Tasks : \A v : Child(u, v)' <=> Child(u, v)
  BY <1>6, <1>7, <1>15, <1>16 DEF Child
<1>19. \A v \in Tasks \ {t} : Deps(v)' = Deps(v)
  <2> SUFFICES ASSUME NEW v \in Tasks \ {t} PROVE Deps(v)' = Deps(v)
    OBVIOUS
  <2>1. \A u \in Tasks, n \in Int : Depends(v, u, n)' <=> Depends(v, u, n)
    BY <1>15, <1>17, <1>18 DEF Depends
  <2> QED  BY <2>1, DepsSame
<1>20. Deps(t)' = Deps(t) \ {<<t, -1>>} /\ Deps(t)' = {}
  <2>1. In(t, RunPcs)  BY <1>3, <1>5, <1>8 DEF In
  <2>2. \A u \in Tasks, n \in Int : Depends(t, u, n)' <=> Depends(t, u, n) /\ ~(u = t /\ n = -1)
    BY <1>16, <1>17, <1>18, <2>1 DEF Depends
  <2>3. -1 \in Int  OBVIOUS
  <2>4. Deps(t)' = Deps(t) \ {<<t, -1>>}  BY <2>2, <2>3, DepsMinus
  <2> QED  BY <1>9, <2>4
<1>21. Grows /\ compiled \subseteq compiled'  BY <1>6 DEF Grows
<1>22. \A v \in Tasks \ {t} : Steady(v)
  BY <1>6, <1>19, <1>21, SteadyIfSame
<1>23. \A g \in Others(th) : FrameOK(g)'
  <2>1. \A v \in Tasks \ {Top(th).task} : Steady(v)  BY <1>5, <1>22
  <2> QED  BY <1>1, <1>8, <1>21, <2>1, OthersKept
<1>24. FrameOK(f)'  BY <1>5, <1>9 DEF FrameOK, RunPcs
<1>25. ASSUME NEW v \in Tasks \ {t} PROVE Exclusive(v)' /\ TaskOK(v)'
  <2>1. Exclusive(v)' /\ (Handled(v)' <=> Handled(v))
    <3>1. {} \in SUBSET FrameRecs  OBVIOUS
    <3>2. \A g \in {} : g \notin Handles(v)  OBVIOUS
    <3>3. Top(th).task # v /\ f.task # v /\ (f.next = v <=> Top(th).next = v)
          /\ dispatched'[v] = dispatched[v]
      BY <1>5, <1>6
    <3> QED  BY <1>1, <1>10, <3>1, <3>2, <3>3, RestKept
  <2>2. /\ life'[v] = life[v] /\ parent'[v] = parent[v] /\ dispatched'[v] = dispatched[v]
        /\ Deps(v)' = Deps(v) /\ TaskOK(v)
    BY <1>6, <1>7, <1>19 DEF GInv, TasksOK
  <2> QED  BY <1>22, <2>1, <2>2, TaskKept
<1>26. Exclusive(t)' /\ ~Handled(t)'
  <2> DEFINE S == Handles(t)
  <2>1. Once(S) /\ f \notin S /\ S' = S  BY <1>12 DEF GInv, Handling, Exclusive, Handles
  <2>2. dispatched'[t] = 0 /\ \A g \in Active' : g \notin S  BY <1>6, <1>11, <1>12, <1>13, <1>14
  <2> HIDE DEF S
  <2>3. Once(S)'  BY <1>10, <2>1 DEF Replaced, Once
  <2>4. Once(Handles(t))'  BY <2>3 DEF S
  <2>5. \A g \in Active' : g \notin Handles(t)'  BY <2>1, <2>2 DEF S
  <2> QED  BY <2>2, <2>4, <2>5 DEF Exclusive, Handled
<1>27. TaskOK(t)'
  <2>1. \A j \in 1 .. NumRequests(t) : Met(t, j)'
    <3> SUFFICES ASSUME NEW j \in 1 .. NumRequests(t) PROVE Met(t, j)'
      OBVIOUS
    <3>1. IF IsInputTask(t) THEN OutputKeys(t)[j] \in compiled \cup Failing
                            ELSE InputDone(<<t, j>>)
      BY <1>9, InputsDone
    <3>2. \A u : InputDone(u)' <=> InputDone(u)  BY <1>6 DEF InputDone
    <3> QED  BY <1>6, <3>1, <3>2 DEF Met
  <2>2. taskPhase'[t] = 1 /\ dispatched'[t] = 0  BY <1>6, <1>9, <1>14
  <2> QED  BY <1>7, <1>20, <1>26, <2>1, <2>2 DEF TaskOK
<1>28. Types'
  <2>1. /\ life' \in [Tasks -> {"Absent", "Alive", "Deleted"}]
        /\ numDependents' \in [Tasks -> Int]
    BY <1>6, <1>7 DEF Types
  <2> QED  BY <1>6, <1>7, <1>11, <2>1 DEF Types, Stacks, StackType
<1>29. Counts'
  <2>1. numDependents'[t] = numDependents[t] - 1 /\ CountOK(t) /\ <<t, -1>> \in Deps(t)
    BY <1>6, <1>7, <1>9 DEF Types, GInv, Counts
  <2>2. CountOK(t)'  BY <1>20, <2>1, CountMinus
  <2>3. \A v \in Tasks \ {t} : CountOK(v)'  BY <1>6, <1>7, <1>19, CountSame DEF GInv, Counts, Types
  <2> QED  BY <2>2, <2>3 DEF Counts
<1>30. InputTasksOK'
  <2> SUFFICES ASSUME NEW o \in Owners, NEW i \in 1 .. Len(InputKeys[o]) PROVE InputsOK(o, i)'
    BY DEF InputTasksOK
  <2>1. taskPhase'[o] = 0 => taskPhase[o] = 0  BY <1>6
  <2>2. life[<<o, i>>] = "Absent" => life'[<<o, i>>] = "Absent"
    BY <1>7, <1>14, TypeFacts
  <2>3. {} \in SUBSET FrameRecs  OBVIOUS
  <2> QED  BY <1>1, <1>10, <2>1, <2>2, <2>3, InputsKept
<1>31. RootsOK'
  <2>1. \A r \in Roots : life[r] = "Absent" => life'[r] = "Absent"
    BY <1>7, <1>14, TypeFacts
  <2>2. Top(th).pc # "Spawn" /\ unspawned' = unspawned  BY <1>1, <1>6
  <2> QED  BY <1>1, <1>11, <2>1, <2>2, RootsKept
<1>32. KeysOK'
  <2> SUFFICES ASSUME NEW k \in Keys PROVE KeyOK(k)'
    BY DEF KeysOK
  <2>1. KeyOK(k)  BY DEF GInv, KeysOK
  <2>2. CASE k = t
    BY <1>6, <1>7, <1>9, <1>14, <2>1, <2>2 DEF KeyOK
  <2>3. CASE k # t
    <3>1. k \in Tasks \ {t} /\ life'[k] = life[k]  BY <1>7, <2>3, TypeFacts
    <3>2. In(k, Leaving) => In(k, Leaving)'  BY <1>15, <3>1
    <3> QED  BY <1>6, <1>21, <2>1, <3>1, <3>2, KeyKept
  <2> QED  BY <2>2, <2>3
<1>33. CompiledInOrder'  BY <1>6 DEF GInv, CompiledInOrder
<1> QED
  BY <1>11, <1>23, <1>24, <1>25, <1>26, <1>27, <1>28, <1>29, <1>30, <1>31, <1>32, <1>33
     DEF GInv, FramesOK, TasksOK, Handling

-----------------------------------------------------------------------------
(* The steps of frames that do not use their task, and the other steps.    *)

\* The innermost frame of th, which uses no task any more or not yet, becomes
\* the frame in New, or is left.
LEMMA OverStep ==
  ASSUME GInv, NEW th \in Threads, stack[th] # <<>>, Top(th).pc \in Over \cup {"Spawn"},
         NEW New \in SUBSET FrameRecs, Stacks', Active' = New \cup Others(th),
         \A g \in New : g.task = Top(th).task /\ g.pc \in Over /\ g.next = None /\ g.list = <<>>,
         \A S : Once(S) /\ (\A g \in New : g \notin S) => Once(S)',
         UNCHANGED <<taskVars, keyVars, unspawned>>, RootsOK'
  PROVE  GInv'
<1>1. UNCHANGED <<life, parent, numDependents, taskPhase, dispatched, claimed, waiting, compiled>>
  BY DEF taskVars, keyVars
<1>2. /\ Top(th) \in FrameRecs /\ FrameOK(Top(th)) /\ Active = {Top(th)} \cup Others(th)
  BY ThisTask, TopFrame DEF GInv, Stacks
<1>3. Top(th).list = <<>> /\ Top(th).next = None /\ (Top(th).pc = "Spawn" => Top(th).task = None)
  BY <1>2 DEF FrameOK, Over
<1>4. ASSUME NEW v \in Tasks, NEW pcs \in {RunPcs, {"Destroy"}, Leaving}
      PROVE  In(v, pcs)' <=> In(v, pcs)
  <2>1. pcs \cap (Over \cup {"Spawn"}) = {}  BY DEF RunPcs, Leaving, Over
  <2> QED  BY <1>2, <2>1 DEF In
<1>5. ASSUME NEW k \in Tasks, NEW n, NEW v PROVE Entry(k, n, v)' <=> Entry(k, n, v)
  <2>1. ~AtEnd(<<>>, n, v)  BY DEF AtEnd
  <2>2. (\E g \in Active' : g.task = k /\ AtEnd(g.list, n, v))
          <=> (\E g \in Active : g.task = k /\ AtEnd(g.list, n, v))
    BY <1>2, <1>3, <2>1, Zenon
  <2>3. Entry(k, n, v)' <=> /\ k \in Keys
                            /\ \/ AtEnd(waiting'[k], n, v)
                               \/ \E g \in Active' : g.task = k /\ AtEnd(g.list, n, v)
    BY DEF Entry, AtEnd
  <2> QED  BY <1>1, <2>2, <2>3 DEF Entry
<1>6. ASSUME NEW v \in Tasks PROVE Deps(v)' = Deps(v)
  <2>1. \A u \in Tasks, n \in Int : Depends(v, u, n)' <=> Depends(v, u, n)
    BY <1>1, <1>4, <1>5 DEF Depends, Child
  <2> QED  BY <2>1, DepsSame
<1>7. Grows /\ compiled \subseteq compiled'  BY <1>1 DEF Grows
<1>8. \A v \in Tasks : Steady(v)  BY <1>1, <1>6, <1>7, SteadyIfSame
<1>9. ASSUME NEW g \in Others(th) PROVE FrameOK(g)'
  <2>1. g \in FrameRecs /\ FrameOK(g)
    <3>1. g \in Active  BY <1>2
    <3>2. g \in FrameRecs  BY <3>1, ActiveDef DEF GInv, Stacks, StackType
    <3> QED  BY <3>1, <3>2 DEF GInv, FramesOK
  <2>2. g.next # None => g.next \in Tasks  BY <2>1 DEF FrameRecs
  <2> QED  BY <1>7, <1>8, <2>1, <2>2, FrameKept
<1>10. ASSUME NEW g \in New PROVE FrameOK(g)'
  BY DEF FrameOK, Over, RunPcs
<1>11. ASSUME NEW v \in Tasks PROVE Exclusive(v)' /\ TaskOK(v)'
  <2>1. Top(th) \notin Handles(v) /\ \A g \in New : g \notin Handles(v)
    BY <1>3, TypeFacts DEF Handles, Over
  <2>2. Exclusive(v) /\ TaskOK(v)  BY DEF GInv, Handling, TasksOK
  <2> DEFINE S == Handles(v)
  <2>3. S' = S /\ Once(S) /\ \A g \in New : g \notin S  BY <2>1, <2>2 DEF Handles, Exclusive
  <2>4. \A g \in S : g \in Active' <=> g \in Active  BY <1>2, <2>1, <2>3
  <2> HIDE DEF S
  <2>5. Once(S)'  BY <2>3 DEF Once
  <2>6. Once(Handles(v))'  BY <2>5 DEF S
  <2>7. dispatched'[v] = dispatched[v]  BY <1>1
  <2>8. Exclusive(v)'
    <3>1. dispatched[v] > 0 => \A g \in Active' : g \notin S'  BY <2>2, <2>3, <2>4 DEF S, Exclusive
    <3> QED  BY <2>6, <2>7, <3>1 DEF S, Exclusive
  <2>9. Handled(v)' <=> Handled(v)
    <3>1. (\E g \in Active' : g \in S') <=> (\E g \in Active : g \in S)  BY <2>3, <2>4
    <3> QED  BY <2>7, <3>1 DEF S, Handled
  <2>10. TaskOK(v)'  BY <1>1, <1>6, <1>8, <2>2, <2>9, TaskKept
  <2> QED  BY <2>8, <2>10
<1>12. Types'  BY <1>1 DEF GInv, Types, Stacks, StackType
<1>13. Counts'  BY <1>1, <1>6, CountSame DEF GInv, Counts
<1>14. InputTasksOK'
  <2> SUFFICES ASSUME NEW o \in Owners, NEW i \in 1 .. Len(InputKeys[o]) PROVE InputsOK(o, i)'
    BY DEF InputTasksOK
  <2>1. InputsOK(o, i)  BY DEF GInv, InputTasksOK
  <2>2. \A g : g.pc = "Inputs" => (g \in Active' <=> g \in Active)
    BY <1>2 DEF Over
  <2> QED  BY <1>1, <2>1, <2>2 DEF InputsOK
<1>15. KeysOK'
  <2> SUFFICES ASSUME NEW k \in Keys PROVE KeyOK(k)'
    BY DEF KeysOK
  <2>1. In(k, Leaving)' <=> In(k, Leaving)  BY <1>4, TypeFacts
  <2>2. KeyOK(k)  BY DEF GInv, KeysOK
  <2> QED  BY <1>1, <1>7, <2>1, <2>2, KeyKept
<1>16. CompiledInOrder'  BY <1>1 DEF GInv, CompiledInOrder
<1> QED
  BY <1>9, <1>10, <1>11, <1>12, <1>13, <1>14, <1>15, <1>16
     DEF GInv, FramesOK, Handling, TasksOK

\* The frame returns.
LEMMA PopPreserves ==
  ASSUME GInv, NEW th \in Threads, stack[th] # <<>>, Top(th).pc \in Over,
         stack' = [stack EXCEPT ![th] = Tail(@)],
         UNCHANGED <<taskVars, keyVars, unspawned>>
  PROVE  GInv'
<1>1. Stacks'  BY PopStack DEF GInv
<1>2. /\ Active' = Others(th) /\ \A u \in Threads \ {th} : stack'[u] = stack[u]
      /\ \A S : Once(S) => Once(S)'
  BY PopFrame DEF GInv, Stacks
<1>3. RootsOK'
  <2>1. Top(th).pc # "Spawn" /\ unspawned' = unspawned  BY DEF Over
  <2>2. \A t \in Roots : life[t] = "Absent" => life'[t] = "Absent"  BY DEF taskVars
  <2> QED  BY <1>2, <2>1, <2>2, RootsKept
<1>4. /\ {} \in SUBSET FrameRecs /\ Active' = {} \cup Others(th)
      /\ \A g \in {} : g.task = Top(th).task /\ g.pc \in Over /\ g.next = None /\ g.list = <<>>
      /\ \A S : Once(S) /\ (\A g \in {} : g \notin S) => Once(S)'
  BY <1>2
<1> QED  BY <1>1, <1>3, <1>4, OverStep

\* The outermost frame goes on.
LEMMA NextPreserves ==
  ASSUME GInv, NEW th \in Threads, stack[th] # <<>>, Top(th).pc \in Over \cup {"Spawn"},
         NEW pc \in Over, pc # "End" => Len(stack[th]) = 1,
         Set(th, [Top(th) EXCEPT !.pc = pc]),
         Top(th).pc = "Spawn" => unspawned = {},
         UNCHANGED <<taskVars, keyVars, unspawned>>
  PROVE  GInv'
<1>1. Top(th) \in FrameRecs /\ FrameOK(Top(th))  BY ThisTask
<1>2. PICK f \in FrameRecs : f = [Top(th) EXCEPT !.pc = pc]
  BY <1>1 DEF FrameRecs, Pcs, Over
<1>3. /\ Set(th, f) /\ f.task = Top(th).task /\ f.depth = Top(th).depth /\ f.pc = pc
      /\ f.next = Top(th).next /\ f.list = Top(th).list
  BY <1>1, <1>2 DEF FrameRecs
<1>4. f.next = None /\ f.list = <<>>  BY <1>1, <1>3 DEF FrameOK, Over
<1>5. Replaced(th, f, {})
  <2>1. f.pc \in {"Flush", "Check"} => Len(stack[th]) = 1  BY <1>3
  <2> QED  BY <1>3, <2>1, SetReplaces DEF GInv
<1>6. /\ Stacks' /\ Active' = {f} \cup Others(th)
      /\ \A u \in Threads \ {th} : stack'[u] = stack[u]
      /\ \A S : Once(S) /\ f \notin S => Once(S)'
  BY <1>5 DEF Replaced
<1>7. RootsOK'
  <2>1. CASE Top(th).pc # "Spawn"
    <3>1. \A t \in Roots : life[t] = "Absent" => life'[t] = "Absent"  BY DEF taskVars
    <3> QED  BY <1>6, <2>1, <3>1, RootsKept
  <2>2. CASE Top(th).pc = "Spawn"  BY <2>2 DEF RootsOK
  <2> QED  BY <2>1, <2>2
<1>8. /\ {f} \in SUBSET FrameRecs
      /\ \A g \in {f} : g.task = Top(th).task /\ g.pc \in Over /\ g.next = None /\ g.list = <<>>
      /\ \A S : Once(S) /\ (\A g \in {f} : g \notin S) => Once(S)'
  BY <1>3, <1>4, <1>6
<1> QED  BY <1>6, <1>7, <1>8, OverStep

\* Frames that flush or check are the only ones of their stacks.
LEMMA Alone ==
  ASSUME GInv, NEW th \in Threads, stack[th] # <<>>, Top(th).pc \in {"Flush", "Check"}
  PROVE  Len(stack[th]) = 1 /\ [stack EXCEPT ![th] = <<>>] = [stack EXCEPT ![th] = Tail(@)]
<1>1. StackOK(th) /\ Top(th) = stack[th][1]  BY TopFrame DEF GInv, Stacks
<1>2. Len(stack[th]) = 1  BY <1>1 DEF StackOK
<1> QED  BY <1>2, LastFrame DEF GInv, Stacks

LEMMA EndPreserves ==
  ASSUME GInv, NEW th \in Threads,
         EndNested(th) \/ FlushBlocked(th) \/ FlushBusy(th) \/ Check(th)
  PROVE  GInv'
<1>1. stack[th] # <<>> /\ UNCHANGED <<taskVars, keyVars, unspawned>>
  BY DEF EndNested, FlushBlocked, FlushBusy, Check, At
<1>2. ASSUME stack' = [stack EXCEPT ![th] = <<>>], Top(th).pc \in {"Flush", "Check"}
      PROVE  GInv'
  <2>1. stack' = [stack EXCEPT ![th] = Tail(@)]  BY <1>1, <1>2, Alone
  <2>2. Top(th).pc \in Over  BY <1>2 DEF Over
  <2> QED  BY <1>1, <2>1, <2>2, PopPreserves
<1>3. CASE EndNested(th)
  <2>1. Top(th).pc \in Over /\ stack' = [stack EXCEPT ![th] = Tail(@)]
    BY <1>3 DEF EndNested, At, Top, Over
  <2> QED  BY <1>1, <2>1, PopPreserves
<1>4. CASE FlushBlocked(th)
  <2>1. /\ Top(th).pc \in Over \cup {"Spawn"} /\ Top(th).pc # "Spawn" /\ Len(stack[th]) = 1
        /\ "Flush" \in Over /\ Set(th, [Top(th) EXCEPT !.pc = "Flush"])
    BY <1>4 DEF FlushBlocked, At, Top, Over
  <2> QED  BY <1>1, <2>1, NextPreserves
<1>5. CASE FlushBusy(th)
  <2>1. Top(th).pc = "Flush"  BY <1>5 DEF FlushBusy, At, Top
  <2>2. CASE stack' = [stack EXCEPT ![th] = <<>>]  BY <1>2, <2>1, <2>2
  <2>3. CASE Set(th, [Top(th) EXCEPT !.pc = "Check"])
    <3>1. /\ Top(th).pc \in Over \cup {"Spawn"} /\ Top(th).pc # "Spawn" /\ Len(stack[th]) = 1
          /\ "Check" \in Over
      BY <1>1, <2>1, Alone DEF Over
    <3> QED  BY <1>1, <2>3, <3>1, NextPreserves
  <2> QED  BY <1>5, <2>2, <2>3 DEF FlushBusy
<1>6. CASE Check(th)
  <2>1. Top(th).pc = "Check" /\ stack' = [stack EXCEPT ![th] = <<>>]
    BY <1>6 DEF Check, At, Top
  <2> QED  BY <1>2, <2>1
<1> QED  BY <1>3, <1>4, <1>5, <1>6

LEMMA SpawnEndPreserves ==
  ASSUME GInv, SpawnEnd
  PROVE  GInv'
<1>1. /\ Main \in Threads /\ stack[Main] # <<>> /\ Top(Main).pc = "Spawn" /\ unspawned = {}
      /\ Set(Main, [Top(Main) EXCEPT !.pc = "End"])
      /\ UNCHANGED <<taskVars, keyVars, unspawned>>
  BY InputsAssumption DEF SpawnEnd, At, Top
<1>2. Top(Main).pc \in Over \cup {"Spawn"} /\ "End" \in Over  BY <1>1 DEF Over
<1> QED  BY <1>1, <1>2, NextPreserves

\* A task that was to be run next is run.
LEMMA RunSubtaskPreserves ==
  ASSUME GInv, NEW th \in Threads, RunSubtask(th)
  PROVE  GInv'
<1>1. stack[th] # <<>> /\ Top(th).pc = "Suspend" /\ Top(th).next # None
  BY DEF RunSubtask, At, Top
<1>2. PICK t \in Tasks : t = This(th)  BY <1>1, ThisTask DEF Over
<1>3. /\ Top(th) \in FrameRecs /\ FrameOK(Top(th)) /\ Active = {Top(th)} \cup Others(th)
      /\ \A S : Once(S) /\ Top(th) \in S => \A g \in Others(th) : g \notin S
  BY <1>1, ThisTask, TopFrame DEF GInv, Stacks
<1>w. PICK w \in Tasks : w = Top(th).next  BY <1>1, <1>3 DEF FrameRecs
<1>4. PICK f \in FrameRecs : f = [Top(th) EXCEPT !.next = None]
  BY <1>3 DEF FrameRecs
<1>5. /\ f.task = Top(th).task /\ f.task = t /\ f.depth = Top(th).depth /\ f.next = None
      /\ f.list = Top(th).list /\ f.pc = "Suspend"
  BY <1>1, <1>2, <1>3, <1>4 DEF FrameRecs, This
<1>6. /\ \/ f.depth < MaxDepth /\ Invoke(th, f, w) /\ dispatched' = dispatched
         \/ Set(th, f) /\ dispatched' = [dispatched EXCEPT ![w] = @ + 1]
      /\ UNCHANGED <<life, parent, numDependents, taskPhase, claimed, waiting, compiled, unspawned>>
  BY <1>w, <1>4 DEF RunSubtask, keyVars
<1>7. PICK New \in SUBSET FrameRecs :
        /\ Replaced(th, f, New)
        /\ \A g \in New : /\ g.list = <<>> /\ g.pc = "Enter" /\ g.task = w /\ g.next = None
                          /\ g.i = 1
        /\ \/ New # {} /\ dispatched' = dispatched
           \/ New = {} /\ dispatched' = [dispatched EXCEPT ![w] = @ + 1]
  <2>1. CASE f.depth < MaxDepth /\ Invoke(th, f, w) /\ dispatched' = dispatched
    <3> DEFINE g == Frame(w, f.depth + 1)
    <3>1. f.pc \in {"Suspend", "End", "Destroy"}  BY <1>5
    <3>2. g \in FrameRecs /\ Replaced(th, f, {g})
      BY <1>1, <1>5, <2>1, <3>1, PushReplaces DEF GInv
    <3>3. g.list = <<>> /\ g.pc = "Enter" /\ g.task = w /\ g.next = None /\ g.i = 1
      BY DEF Frame
    <3> HIDE DEF g
    <3>4. {g} \in SUBSET FrameRecs /\ {g} # {}  BY <3>2
    <3> QED  BY <2>1, <3>2, <3>3, <3>4
  <2>2. CASE Set(th, f) /\ dispatched' = [dispatched EXCEPT ![w] = @ + 1]
    <3>1. Replaced(th, f, {})  BY <1>1, <1>5, <2>2, SetReplaces DEF GInv
    <3>2. {} \in SUBSET FrameRecs  OBVIOUS
    <3> QED  BY <2>2, <3>1, <3>2
  <2> QED  BY <1>6, <2>1, <2>2
<1>8. Stacks' /\ Active' = {f} \cup New \cup Others(th)
      /\ \A u \in Threads \ {th} : stack'[u] = stack[u]
  BY <1>7 DEF Replaced
<1>9. /\ w # t /\ Deps(w) = {} /\ Top(th).list = <<>> /\ taskPhase[t] = 1
  BY <1>1, <1>3, <1>5, <1>w, TypeFacts DEF FrameOK, RunPcs
<1>10. Types /\ w # None /\ t # None  BY TypeFacts DEF GInv
<1>11. Top(th) \in Handles(w) /\ f \notin Handles(w)
       /\ Top(th) \in Handles(t) /\ f \in Handles(t)
  BY <1>1, <1>3, <1>5, <1>9, <1>10, <1>w DEF Handles
<1>12. Exclusive(w) /\ Exclusive(t) /\ TaskOK(w) /\ TaskOK(t)
  BY DEF GInv, Handling, TasksOK
<1>13. dispatched[w] = 0 /\ dispatched[t] = 0
  BY <1>3, <1>10, <1>11, <1>12 DEF Exclusive, Types
<1>14. \A g \in Others(th) : g \notin Handles(w)
  BY <1>3, <1>11, <1>12 DEF Exclusive
<1>15. \A v : Deps(v)' = Deps(v)
  <2>1. \A g \in New : g.list = <<>> /\ g.pc = "Enter"  BY <1>7
  <2>2. (f.pc \in RunPcs <=> Top(th).pc \in RunPcs) /\ (f.pc = "Destroy" <=> Top(th).pc = "Destroy")
    BY <1>1, <1>5
  <2>3. UNCHANGED <<life, parent, waiting>>  BY <1>6
  <2> QED  BY <1>1, <1>5, <1>7, <2>1, <2>2, <2>3, DepsKept
<1>16. Grows /\ compiled \subseteq compiled'  BY <1>6 DEF Grows
<1>17. \A v \in Tasks : Steady(v)  BY <1>6, <1>15, <1>16, SteadyIfSame
<1>18. \A g \in Others(th) : FrameOK(g)'
  <2>1. Top(th).pc \notin Over  BY <1>1 DEF Over
  <2> QED  BY <1>1, <1>16, <1>17, <2>1, OthersKept
<1>19. FrameOK(f)'
  BY <1>5, <1>6, <1>9, <1>10 DEF FrameOK, RunPcs
<1>20. \A g \in New : FrameOK(g)'
  <2> SUFFICES ASSUME NEW g \in New PROVE FrameOK(g)'
    OBVIOUS
  <2>1. Deps(w)' = {}  BY <1>9, <1>15
  <2> QED  BY <1>7, <1>10, <2>1 DEF FrameOK, RunPcs
<1>21. ASSUME NEW v \in Tasks \ {w} PROVE Exclusive(v)' /\ TaskOK(v)'
  <2>1. Exclusive(v) /\ TaskOK(v) /\ dispatched'[v] = dispatched[v]
    BY <1>7, <1>10 DEF GInv, Handling, TasksOK, Types
  <2>2. \A g \in New : g \notin Handles(v)  BY <1>7, TypeFacts DEF Handles
  <2>3. Exclusive(v)' /\ (Handled(v)' <=> Handled(v))
    <3>1. CASE v # t
      <4>1. Top(th).task # v /\ f.task # v  BY <1>5, <3>1
      <4>2. f.next = v <=> Top(th).next = v
        BY <1>5, <1>w, <1>21, TypeFacts
      <4> QED  BY <1>1, <1>7, <2>1, <2>2, <4>1, <4>2, RestKept
    <3>2. CASE v = t
      <4> DEFINE S == Handles(v)
      <4>1. f \in S /\ Top(th) \in S /\ Once(S) /\ S' = S /\ \A g \in New : g \notin S
        BY <1>11, <2>1, <2>2, <3>2 DEF Handles, Exclusive
      <4>2. dispatched'[v] = 0  BY <1>13, <2>1, <3>2
      <4> HIDE DEF S
      <4>3. Once(S)'  BY <1>7, <4>1 DEF Replaced, Once
      <4>4. Once(Handles(v))'  BY <4>3 DEF S
      <4>5. Exclusive(v)'  BY <4>2, <4>4 DEF Exclusive
      <4>6. Handled(v)  BY <1>3, <4>1 DEF S, Handled
      <4>7. \E g \in Active' : g \in S'  BY <1>8, <4>1
      <4>8. Handled(v)'  BY <4>7 DEF S, Handled
      <4> QED  BY <4>5, <4>6, <4>8
    <3> QED  BY <3>1, <3>2
  <2>4. Deps(v)' = Deps(v) /\ life'[v] = life[v] /\ parent'[v] = parent[v]
    BY <1>6, <1>15
  <2> QED  BY <1>17, <2>1, <2>3, <2>4, TaskKept
<1>22. Exclusive(w)'
  <2> DEFINE S == Handles(w)
  <2>1. /\ Once(S) /\ f \notin S /\ Top(th) \in S /\ S' = S
        /\ \A g \in Others(th) : g \notin S
    BY <1>11, <1>12, <1>14 DEF Handles, Exclusive
  <2>2. dispatched'[w] > 0 => New = {}  BY <1>7, <1>10, <1>13 DEF Types
  <2> HIDE DEF S
  <2>3. dispatched'[w] > 0 => \A g \in Active' : g \notin S'  BY <1>8, <2>1, <2>2
  <2>4. Once(S)'  BY <1>7, <2>1 DEF Replaced, Once
  <2>5. Once(Handles(w))'  BY <2>4 DEF S
  <2> QED  BY <2>3, <2>5 DEF S, Exclusive
<1>23. TaskOK(w)'
  <2>1. life[w] = "Alive"
    <3>1. Handled(w)  BY <1>3, <1>11 DEF Handled
    <3> QED  BY <1>12, <3>1 DEF TaskOK
  <2>2. Handled(w)'
    <3>1. CASE New # {}
      <4>1. PICK g \in New : g \in Handles(w)  BY <1>7, <3>1 DEF Handles
      <4>2. g \in Handles(w)' /\ g \in Active'  BY <1>8, <4>1 DEF Handles
      <4> QED  BY <4>2 DEF Handled
    <3>2. CASE dispatched' = [dispatched EXCEPT ![w] = @ + 1]
      <4>1. dispatched'[w] > 0  BY <1>10, <1>13, <3>2 DEF Types
      <4> QED  BY <4>1 DEF Handled
    <3> QED  BY <1>7, <3>1, <3>2
  <2>3. Deps(w)' = {} /\ life'[w] = "Alive" /\ taskPhase'[w] = taskPhase[w]
    BY <1>6, <1>9, <1>15, <2>1
  <2>4. taskPhase[w] = 1 => \A j \in 1 .. NumRequests(w) : Met(w, j)'
    BY <1>12, <1>17 DEF TaskOK, Steady
  <2> QED  BY <2>2, <2>3, <2>4 DEF TaskOK
<1>24. Types'
  <2>1. dispatched' = dispatched \/ dispatched' = [dispatched EXCEPT ![w] = @ + 1]  BY <1>7
  <2>2. dispatched' \in [Tasks -> 0 .. 1]  BY <1>10, <1>13, <2>1 DEF Types
  <2> QED  BY <1>6, <1>8, <1>10, <2>2 DEF Types, Stacks, StackType
<1>25. Counts'  BY <1>6, <1>15, CountSame DEF GInv, Counts
<1>26. InputTasksOK'
  <2> SUFFICES ASSUME NEW o \in Owners, NEW i \in 1 .. Len(InputKeys[o]) PROVE InputsOK(o, i)'
    BY DEF InputTasksOK
  <2>1. taskPhase'[o] = 0 => taskPhase[o] = 0  BY <1>6
  <2>2. life[<<o, i>>] = "Absent" => life'[<<o, i>>] = "Absent"  BY <1>6
  <2>3. Top(th).pc # "Inputs"  BY <1>1
  <2> QED  BY <1>1, <1>7, <2>1, <2>2, <2>3, InputsKept
<1>27. RootsOK'
  <2>1. Top(th).pc # "Spawn" /\ unspawned' = unspawned /\ life' = life  BY <1>1, <1>6
  <2> QED  BY <1>1, <1>8, <2>1, RootsKept
<1>28. KeysOK'
  <2> SUFFICES ASSUME NEW k \in Keys PROVE KeyOK(k)'
    BY DEF KeysOK
  <2>1. In(k, Leaving) => In(k, Leaving)'
    BY <1>1, <1>3, <1>5, <1>8 DEF In, Leaving
  <2>2. KeyOK(k)  BY DEF GInv, KeysOK
  <2> QED  BY <1>6, <1>16, <2>1, <2>2, KeyKept
<1>29. CompiledInOrder'  BY <1>6 DEF GInv, CompiledInOrder
<1> QED
  BY <1>8, <1>18, <1>19, <1>20, <1>21, <1>22, <1>23, <1>24, <1>25, <1>26, <1>27, <1>28, <1>29
     DEF GInv, FramesOK, TasksOK, Handling

\* Compile creates a root task.
LEMMA SpawnPreserves ==
  ASSUME GInv, NEW r \in Roots, Spawn(r)
  PROVE  GInv'
<1>1. /\ r \in unspawned /\ unspawned' = unspawned \ {r}
      /\ life' = [life EXCEPT ![r] = "Alive"]
      /\ dispatched' = [dispatched EXCEPT ![r] = @ + 1]
      /\ UNCHANGED <<parent, numDependents, taskPhase, claimed, waiting, compiled, stack>>
  BY DEF Spawn, keyVars
<1>2. Types /\ r \in Tasks /\ r \in Owners /\ r \notin Keys /\ r \notin InputTasks
  BY TypeFacts, InputsAssumption DEF GInv
<1>3. /\ life[r] = "Absent" /\ TaskOK(r) /\ Exclusive(r)
  BY <1>1, <1>2 DEF GInv, RootsOK, TasksOK, Handling
<1>4. dispatched[r] = 0 /\ ~Handled(r) /\ Deps(r) = {} /\ taskPhase[r] = 0 /\ parent[r] = None
  BY <1>2, <1>3 DEF TaskOK, Handled, Types
<1>5. /\ life'[r] = "Alive" /\ \A v \in Tasks \ {r} : life'[v] = life[v]
      /\ dispatched'[r] = 1 /\ \A v \in Tasks \ {r} : dispatched'[v] = dispatched[v]
  BY <1>1, <1>2, <1>4 DEF Types
<1>6. Active' = Active  BY <1>1 DEF Active
<1>7. \A v, pcs : In(v, pcs)' <=> In(v, pcs)  BY <1>6 DEF In
<1>8. \A v \in Tasks : Deps(v)' = Deps(v)
  <2> SUFFICES ASSUME NEW v \in Tasks PROVE Deps(v)' = Deps(v)
    OBVIOUS
  <2>1. \A u \in Tasks : Child(u, v)' <=> Child(u, v)
    BY <1>1, <1>4, <1>5, <1>7, TypeFacts DEF Child
  <2>2. \A u, n : Entry(u, n, v)' <=> Entry(u, n, v)
    BY <1>1, <1>6 DEF Entry, AtEnd
  <2>3. \A u \in Tasks, n \in Int : Depends(v, u, n)' <=> Depends(v, u, n)
    BY <1>7, <2>1, <2>2 DEF Depends
  <2> QED  BY <2>3, DepsSame
<1>9. Grows /\ compiled \subseteq compiled'  BY <1>1 DEF Grows
<1>10. \A v \in Tasks : Steady(v)  BY <1>1, <1>8, <1>9, SteadyIfSame
<1>11. FramesOK'
  <2> SUFFICES ASSUME NEW g \in Active PROVE FrameOK(g)'
    BY <1>6 DEF FramesOK
  <2>1. g \in FrameRecs  BY ActiveDef DEF GInv, Stacks, StackType
  <2>2. FrameOK(g)  BY DEF GInv, FramesOK
  <2>3. g.next # None => g.next \in Tasks  BY <2>1 DEF FrameRecs
  <2> QED  BY <1>9, <1>10, <2>1, <2>2, <2>3, FrameKept
<1>12. ASSUME NEW v \in Tasks PROVE Once(Handles(v))'
  <2>1. Once(Handles(v))  BY DEF GInv, Handling, Exclusive
  <2> QED  BY <1>1, <2>1 DEF Once, Handles
<1>13. ASSUME NEW v \in Tasks \ {r} PROVE Exclusive(v)' /\ TaskOK(v)'
  <2>1. Exclusive(v) /\ TaskOK(v)  BY DEF GInv, Handling, TasksOK
  <2>2. Handles(v)' = Handles(v)  BY DEF Handles
  <2>3. Handled(v)' <=> Handled(v)  BY <1>5, <1>6, <2>2 DEF Handled
  <2>4. Exclusive(v)'  BY <1>5, <1>6, <1>12, <2>1, <2>2 DEF Exclusive
  <2>5. /\ life'[v] = life[v] /\ parent'[v] = parent[v] /\ dispatched'[v] = dispatched[v]
        /\ Deps(v)' = Deps(v)
    BY <1>1, <1>5, <1>8
  <2> QED  BY <1>10, <2>1, <2>3, <2>4, <2>5, TaskKept
<1>14. Exclusive(r)'
  <2>1. Handles(r)' = Handles(r)  BY DEF Handles
  <2>2. \A g \in Active : g \notin Handles(r)  BY <1>4 DEF Handled
  <2> QED  BY <1>6, <1>12, <1>2, <2>1, <2>2 DEF Exclusive
<1>15. TaskOK(r)'
  <2>1. Handled(r)'  BY <1>5 DEF Handled
  <2>2. taskPhase'[r] = 0 /\ Deps(r)' = {}  BY <1>1, <1>2, <1>4, <1>8
  <2> QED  BY <1>5, <2>1, <2>2 DEF TaskOK
<1>16. Types'
  <2>1. /\ life' \in [Tasks -> {"Absent", "Alive", "Deleted"}]
        /\ dispatched' \in [Tasks -> 0 .. 1] /\ unspawned' \subseteq Roots
    BY <1>1, <1>2, <1>4 DEF Types
  <2> QED  BY <1>1, <1>2, <2>1 DEF Types
<1>17. Stacks'
  <2>1. StackType'  BY <1>1 DEF GInv, Stacks, StackType
  <2>2. \A th \in Threads : StackOK(th)'  BY <1>1 DEF GInv, Stacks, StackOK
  <2> QED  BY <2>1, <2>2 DEF Stacks
<1>18. Counts'  BY <1>1, <1>8, CountSame DEF GInv, Counts
<1>19. InputTasksOK'
  <2> SUFFICES ASSUME NEW o \in Owners, NEW i \in 1 .. Len(InputKeys[o]) PROVE InputsOK(o, i)'
    BY DEF InputTasksOK
  <2>1. InputsOK(o, i)  BY DEF GInv, InputTasksOK
  <2>2. <<o, i>> \in Tasks \ {r}  BY <1>2, TypeFacts
  <2> QED  BY <1>1, <1>5, <1>6, <2>1, <2>2 DEF InputsOK
<1>20. RootsOK'
  <2>1. \A s \in unspawned' : life'[s] = "Absent"
    BY <1>1, <1>2, <1>5, TypeFacts DEF GInv, RootsOK, Types
  <2>2. unspawned' # {} => stack'[Main] # <<>> /\ Top(Main)' .pc = "Spawn"
    BY <1>1 DEF GInv, RootsOK, Top
  <2> QED  BY <2>1, <2>2 DEF RootsOK
<1>21. KeysOK'
  <2> SUFFICES ASSUME NEW k \in Keys PROVE KeyOK(k)'
    BY DEF KeysOK
  <2>1. In(k, Leaving) => In(k, Leaving)'  BY <1>7
  <2>2. KeyOK(k)  BY DEF GInv, KeysOK
  <2>3. life'[k] = life[k]  BY <1>2, <1>5, TypeFacts
  <2> QED  BY <1>1, <1>9, <2>1, <2>2, <2>3, KeyKept
<1>22. CompiledInOrder'  BY <1>1 DEF GInv, CompiledInOrder
<1> QED
  BY <1>11, <1>13, <1>14, <1>15, <1>16, <1>17, <1>18, <1>19, <1>20, <1>21, <1>22
     DEF GInv, TasksOK, Handling

\* A thread takes a task from the dispatcher.
LEMMA StartPreserves ==
  ASSUME GInv, NEW th \in Threads, NEW t \in Tasks, Start(th, t)
  PROVE  GInv'
<1>1. /\ stack[th] = <<>> /\ dispatched[t] > 0
      /\ dispatched' = [dispatched EXCEPT ![t] = @ - 1]
      /\ stack' = [stack EXCEPT ![th] = <<Frame(t, 0)>>]
      /\ UNCHANGED <<life, parent, numDependents, taskPhase, claimed, waiting, compiled, unspawned>>
  BY DEF Start, keyVars
<1>2. PICK f : f = Frame(t, 0)  OBVIOUS
<1>3. f.pc = "Enter" /\ f.task = t /\ f.next = None /\ f.list = <<>> /\ f.i = 1
  BY <1>2 DEF Frame
<1>4. /\ f \in FrameRecs /\ Active' = {f} \cup Active
      /\ \A u \in Threads \ {th} : stack'[u] = stack[u]
      /\ \A S : Once(S) /\ (f \in S => \A g \in Active : g \notin S) => Once(S)'
  BY <1>1, <1>2, FirstFrame DEF GInv, Stacks
<1>5. Stacks'  BY <1>1, FirstStack DEF GInv
<1>6. /\ Types /\ TaskOK(t) /\ Exclusive(t) /\ t # None
  BY TypeFacts DEF GInv, TasksOK, Handling
<1>7. dispatched[t] = 1 /\ dispatched'[t] = 0 /\ \A v \in Tasks \ {t} : dispatched'[v] = dispatched[v]
  BY <1>1, <1>6 DEF Types
<1>8. Deps(t) = {} /\ \A g \in Active : g \notin Handles(t)
  BY <1>1, <1>6 DEF TaskOK, Exclusive
<1>9. \A v : \A pcs \in {RunPcs, {"Destroy"}, Leaving} : In(v, pcs)' <=> In(v, pcs)
  BY <1>3, <1>4 DEF In, RunPcs, Leaving
<1>10. \A v : Deps(v)' = Deps(v)
  <2> SUFFICES ASSUME NEW v PROVE Deps(v)' = Deps(v)
    OBVIOUS
  <2>1. \A u \in Tasks : Child(u, v)' <=> Child(u, v)  BY <1>1, <1>9 DEF Child
  <2>2. ASSUME NEW k, NEW n PROVE Entry(k, n, v)' <=> Entry(k, n, v)
    <3>1. ~AtEnd(<<>>, n, v)  BY DEF AtEnd
    <3>2. (\E g \in Active' : g.task = k /\ AtEnd(g.list, n, v))
            <=> (\E g \in Active : g.task = k /\ AtEnd(g.list, n, v))
      BY <1>3, <1>4, <3>1, Zenon
    <3>3. Entry(k, n, v)' <=> /\ k \in Keys
                              /\ \/ AtEnd(waiting'[k], n, v)
                                 \/ \E g \in Active' : g.task = k /\ AtEnd(g.list, n, v)
      BY DEF Entry, AtEnd
    <3> QED  BY <1>1, <3>2, <3>3 DEF Entry
  <2>3. \A u \in Tasks, n \in Int : Depends(v, u, n)' <=> Depends(v, u, n)
    BY <1>9, <2>1, <2>2 DEF Depends
  <2> QED  BY <2>3, DepsSame
<1>11. Grows /\ compiled \subseteq compiled'  BY <1>1 DEF Grows
<1>12. \A v \in Tasks : Steady(v)  BY <1>1, <1>10, <1>11, SteadyIfSame
<1>13. FramesOK'
  <2>1. ASSUME NEW g \in Active PROVE FrameOK(g)'
    <3>1. g \in FrameRecs  BY ActiveDef DEF GInv, Stacks, StackType
    <3>2. FrameOK(g)  BY DEF GInv, FramesOK
    <3>3. g.next # None => g.next \in Tasks  BY <3>1 DEF FrameRecs
    <3> QED  BY <1>11, <1>12, <3>1, <3>2, <3>3, FrameKept
  <2>2. FrameOK(f)'
    <3>1. Deps(t)' = {}  BY <1>8, <1>10
    <3> QED  BY <1>3, <1>6, <3>1 DEF FrameOK, RunPcs
  <2> QED  BY <1>4, <2>1, <2>2 DEF FramesOK
<1>14. ASSUME NEW v \in Tasks \ {t} PROVE Exclusive(v)' /\ TaskOK(v)'
  <2> DEFINE S == Handles(v)
  <2>1. Exclusive(v) /\ TaskOK(v)  BY DEF GInv, Handling, TasksOK
  <2>2. S' = S /\ f \notin S /\ Once(S)  BY <1>3, <2>1, TypeFacts DEF Handles, Exclusive
  <2> HIDE DEF S
  <2>3. Once(S)'  BY <1>4, <2>2 DEF Once
  <2>4. Once(Handles(v))'  BY <2>3 DEF S
  <2>5. \A g \in S : g \in Active' <=> g \in Active  BY <1>4, <2>2
  <2>6. (\E g \in Active' : g \in S') <=> (\E g \in Active : g \in S)  BY <2>2, <2>5
  <2>7. Handled(v)' <=> Handled(v)  BY <1>7, <2>6 DEF S, Handled
  <2>8. dispatched[v] > 0 => \A g \in Active' : g \notin S'  BY <2>1, <2>2, <2>5 DEF S, Exclusive
  <2>9. Exclusive(v)'  BY <1>7, <2>4, <2>8 DEF S, Exclusive
  <2>10. /\ life'[v] = life[v] /\ parent'[v] = parent[v] /\ dispatched'[v] = dispatched[v]
         /\ Deps(v)' = Deps(v)
    BY <1>1, <1>7, <1>10
  <2> QED  BY <1>12, <2>1, <2>7, <2>9, <2>10, TaskKept
<1>15. Exclusive(t)'
  <2> DEFINE S == Handles(t)
  <2>1. S' = S /\ Once(S) /\ \A g \in Active : g \notin S
    BY <1>6, <1>8 DEF Handles, Exclusive
  <2> HIDE DEF S
  <2>2. Once(S)'  BY <1>4, <2>1 DEF Once
  <2>3. Once(Handles(t))'  BY <2>2 DEF S
  <2> QED  BY <1>7, <2>3 DEF Exclusive
<1>16. TaskOK(t)'
  <2>1. f \in Handles(t)'  BY <1>3, <1>4 DEF Handles
  <2>2. Handled(t)'  BY <1>4, <2>1 DEF Handled
  <2>3. life[t] = "Alive"  BY <1>1, <1>6 DEF TaskOK, Handled
  <2>4. taskPhase[t] = 1 => \A j \in 1 .. NumRequests(t) : Met(t, j)'
    BY <1>6, <1>12 DEF TaskOK, Steady
  <2> QED  BY <1>1, <1>7, <2>2, <2>3, <2>4 DEF TaskOK
<1>17. Types'
  <2>1. dispatched' \in [Tasks -> 0 .. 1]  BY <1>1, <1>6, <1>7 DEF Types
  <2> QED  BY <1>1, <1>5, <1>6, <2>1 DEF Types, Stacks, StackType
<1>18. Counts'  BY <1>1, <1>10, CountSame DEF GInv, Counts
<1>19. InputTasksOK'
  <2> SUFFICES ASSUME NEW o \in Owners, NEW i \in 1 .. Len(InputKeys[o]) PROVE InputsOK(o, i)'
    BY DEF InputTasksOK
  <2>1. InputsOK(o, i)  BY DEF GInv, InputTasksOK
  <2> QED  BY <1>1, <1>4, <2>1 DEF InputsOK
<1>20. RootsOK'
  <2>1. \A s \in unspawned' : life'[s] = "Absent"  BY <1>1 DEF GInv, RootsOK
  <2>2. ASSUME unspawned' # {} PROVE stack'[Main] # <<>> /\ Top(Main)' .pc = "Spawn"
    <3>1. stack[Main] # <<>> /\ Top(Main).pc = "Spawn" /\ Main \in Threads
      BY <1>1, <2>2, InputsAssumption DEF GInv, RootsOK
    <3>2. stack'[Main] = stack[Main]  BY <1>1, <1>4, <3>1
    <3> QED  BY <3>1, <3>2 DEF Top
  <2> QED  BY <2>1, <2>2 DEF RootsOK
<1>21. KeysOK'
  <2> SUFFICES ASSUME NEW k \in Keys PROVE KeyOK(k)'
    BY DEF KeysOK
  <2>1. In(k, Leaving) => In(k, Leaving)'  BY <1>9
  <2>2. KeyOK(k)  BY DEF GInv, KeysOK
  <2> QED  BY <1>1, <1>11, <2>1, <2>2, KeyKept
<1>22. CompiledInOrder'  BY <1>1 DEF GInv, CompiledInOrder
<1> QED
  BY <1>5, <1>13, <1>14, <1>15, <1>16, <1>17, <1>18, <1>19, <1>20, <1>21, <1>22
     DEF GInv, TasksOK, Handling

\* A task creates a subtask.
LEMMA NewSubtaskStep ==
  ASSUME GInv, NEW th \in Threads, stack[th] # <<>>, Top(th).pc = "Inputs",
         NEW t \in Tasks, t = This(th), NEW i \in 1 .. NumRequests(t), i = Top(th).i,
         NEW u \in Tasks, life[u] = "Absent", u \notin Roots, NewSubtask(th, u, Top(th)),
         UNCHANGED <<waiting, compiled, unspawned>>,
         \/ /\ IsInputTask(t) /\ u \in Keys /\ u = OutputKeys(t)[i]
            /\ claimed[u] = "Unclaimed" /\ claimed' = [claimed EXCEPT ![u] = "Claimed"]
         \/ /\ ~IsInputTask(t) /\ u \in InputTasks /\ u = <<t, i>>
            /\ claimed' = claimed
  PROVE  GInv'
<1>1. /\ Top(th) \in FrameRecs /\ FrameOK(Top(th)) /\ Active = {Top(th)} \cup Others(th)
      /\ \A S : Once(S) /\ Top(th) \in S => \A g \in Others(th) : g \notin S
  BY ThisTask, TopFrame DEF GInv, Stacks
<1>2. PICK f \in FrameRecs : f = [Top(th) EXCEPT !.i = @ + 1, !.next = u, !.deps = TRUE]
  <2>1. Top(th).i + 1 \in Nat \ {0}  BY <1>1 DEF FrameRecs
  <2> QED  BY <1>1, <2>1 DEF FrameRecs
<1>3. /\ f.task = Top(th).task /\ f.task = t /\ f.depth = Top(th).depth /\ f.next = u
      /\ f.list = Top(th).list /\ f.deps /\ f.i = i + 1 /\ f.pc = "Inputs"
  BY <1>1, <1>2 DEF FrameRecs, This
<1>4. PICK o \in {None} \cup Tasks : o = Top(th).next  BY <1>1 DEF FrameRecs
<1>5. /\ Set(th, f) /\ life' = [life EXCEPT ![u] = "Alive"]
      /\ parent' = [parent EXCEPT ![u] = t]
      /\ numDependents' = [numDependents EXCEPT ![t] = @ + 1]
      /\ dispatched' = IF o = None THEN dispatched ELSE [dispatched EXCEPT ![o] = @ + 1]
      /\ taskPhase' = taskPhase
  BY <1>2, <1>4 DEF NewSubtask
<1>6. Types /\ t # None /\ u # None /\ None \notin Tasks  BY TypeFacts DEF GInv
<1>7. /\ taskPhase[t] = 0 /\ Top(th).list = <<>> /\ (o # None => o # t /\ Deps(o) = {})
      /\ \A j \in 1 .. i - 1 : Met(t, j)
  BY <1>1, <1>3, <1>4 DEF FrameOK
<1>8. /\ Top(th) \in Handles(t) /\ f \in Handles(t)
      /\ (o # None => Top(th) \in Handles(o))
  BY <1>1, <1>3, <1>4 DEF Handles
<1>9. TaskOK(u) /\ Exclusive(u) /\ TaskOK(t) /\ Exclusive(t)  BY DEF GInv, TasksOK, Handling
<1>10. /\ dispatched[u] = 0 /\ Deps(u) = {} /\ taskPhase[u] = 0 /\ parent[u] = None
       /\ \A g \in Active : g \notin Handles(u)
  BY <1>6, <1>9 DEF TaskOK, Handled, Types
<1>11. u # t /\ u # o
  BY <1>1, <1>6, <1>8, <1>10
<1>12. dispatched[t] = 0 /\ (o # None => dispatched[o] = 0)
  <2>1. Exclusive(t) /\ (o # None => Exclusive(o))  BY <1>4, <1>9 DEF GInv, Handling
  <2>2. dispatched \in [Tasks -> 0 .. 1] /\ Top(th) \in Active  BY <1>1, <1>6 DEF Types
  <2> QED  BY <1>4, <1>8, <2>1, <2>2 DEF Exclusive
<1>13. life[t] = "Alive"
  BY <1>1, <1>8, <1>9 DEF TaskOK, Handled
<1>14. /\ life'[u] = "Alive" /\ \A v \in Tasks \ {u} : life'[v] = life[v]
       /\ parent'[u] = t /\ \A v \in Tasks \ {u} : parent'[v] = parent[v]
       /\ \A v \in Tasks \ {o} : dispatched'[v] = dispatched[v]
       /\ (o # None => dispatched'[o] = 1)
  BY <1>5, <1>6, <1>12 DEF Types
<1>15. Replaced(th, f, {})
  <2>1. f.pc \notin {"Flush", "Check"}  BY <1>3
  <2> QED  BY <1>3, <1>5, <2>1, SetReplaces DEF GInv
<1>16. Stacks' /\ Active' = {f} \cup Others(th) /\ \A v \in Threads \ {th} : stack'[v] = stack[v]
  BY <1>15 DEF Replaced
<1>17. \A v, pcs : In(v, pcs)' <=> In(v, pcs)
  <2>1. f.task = Top(th).task /\ f.pc = Top(th).pc  BY <1>3
  <2> QED  BY <1>1, <1>16, <2>1 DEF In
<1>18. \A k, n, v : Entry(k, n, v)' <=> Entry(k, n, v)
  <2>1. {} \in SUBSET FrameRecs /\ (\A g \in {} : g.list = <<>>) /\ waiting' = waiting  OBVIOUS
  <2> QED  BY <1>3, <1>15, <2>1, EntriesKept
<1>19. ~In(u, {"Destroy"})
  <2>1. \A g \in Active : g.task = u => g.pc # "Destroy"
    <3>1. \A g \in Active : g \in FrameRecs  BY ActiveDef DEF GInv, Stacks, StackType
    <3> QED  BY <1>10, <3>1 DEF Handles
  <2> QED  BY <2>1 DEF In
<1>20. \A w \in Tasks, v \in Tasks : Child(w, v)' <=> Child(w, v) \/ (w = u /\ v = t)
  <2> SUFFICES ASSUME NEW w \in Tasks, NEW v \in Tasks
               PROVE  Child(w, v)' <=> Child(w, v) \/ (w = u /\ v = t)
    OBVIOUS
  <2>1. CASE w = u
    <3>1. ~Child(w, v)  BY <1>6, <1>10, <2>1 DEF Child
    <3>2. Child(w, v)' <=> v = t  BY <1>14, <1>17, <1>19, <2>1 DEF Child
    <3> QED  BY <2>1, <3>1, <3>2
  <2>2. CASE w # u
    BY <1>14, <1>17, <2>2 DEF Child
  <2> QED  BY <2>1, <2>2
<1>21. \A v \in Tasks, w \in Tasks, n \in Int :
         Depends(v, w, n)' <=> Depends(v, w, n) \/ (v = t /\ w = u /\ n = 0)
  BY <1>17, <1>18, <1>20 DEF Depends
<1>22. \A v \in Tasks \ {t} : Deps(v)' = Deps(v)
  BY <1>21, DepsSame
<1>23. Deps(t)' = Deps(t) \cup {<<u, 0>>} /\ <<u, 0>> \notin Deps(t)
  <2>1. \A w \in Tasks, n \in Int : Depends(t, w, n)' <=> Depends(t, w, n) \/ (w = u /\ n = 0)
    BY <1>21
  <2>2. 0 \in Int  OBVIOUS
  <2>3. Deps(t)' = Deps(t) \cup {<<u, 0>>}  BY <2>1, <2>2, DepsPlus
  <2>4. ~Depends(t, u, 0)  BY DEF Depends, Child
  <2> QED  BY <2>3, <2>4, DepsDef
<1>24. Grows /\ compiled \subseteq compiled'  BY <1>6 DEF Grows, Types
<1>25. \A v \in Tasks \ {t} : Steady(v)
  BY <1>5, <1>22, <1>24, SteadyIfSame
<1>26. \A g \in Others(th) : FrameOK(g)'
  <2>1. Top(th).pc \notin Over /\ \A v \in Tasks \ {Top(th).task} : Steady(v)
    BY <1>3, <1>25 DEF Over
  <2> QED  BY <1>24, <2>1, OthersKept
<1>27. FrameOK(f)'
  <2>1. Met(t, i)'
    <3>1. <<u, 0>> \in Deps(t)' /\ 0 \in Nat  BY <1>23
    <3>2. CASE IsInputTask(t)
      <4>1. u = OutputKeys(t)[i]  BY <3>2
      <4>2. \E n \in Nat : <<OutputKeys(t)[i], n>> \in Deps(t)'  BY <3>1, <4>1
      <4> QED  BY <3>2, <4>2 DEF Met
    <3>3. CASE ~IsInputTask(t)
      <4>1. u = <<t, i>>  BY <3>3
      <4>2. <<<<t, i>>, 0>> \in Deps(t)'  BY <3>1, <4>1
      <4> QED  BY <3>3, <4>2 DEF Met
    <3> QED  BY <3>2, <3>3
  <2>2. NumRequests(t) \in Nat  BY TypeFacts
  <2>3. \A j \in 1 .. i - 1 : Met(t, j)'
    <3>1. Deps(t) \subseteq Deps(t)'  BY <1>23
    <3> QED  BY <1>7, <1>24, <2>2, <3>1, MetKept
  <2>4. \A j \in 1 .. f.i - 1 : Met(t, j)'
    <3>1. \A j \in 1 .. i : j = i \/ j \in 1 .. i - 1  OBVIOUS
    <3>2. f.i - 1 = i  BY <1>3
    <3> QED  BY <2>1, <2>3, <3>1, <3>2
  <2>5. f.i <= NumRequests(t) + 1 /\ taskPhase'[t] = 0 /\ Deps(u)' = {} /\ f.list = <<>>
    BY <1>3, <1>5, <1>7, <1>10, <1>11, <1>22, <2>2
  <2> QED  BY <1>3, <1>6, <1>11, <2>4, <2>5 DEF FrameOK, RunPcs
<1>28. ASSUME NEW v \in Tasks \ {t, u, o} PROVE Exclusive(v)' /\ TaskOK(v)'
  <2>1. Exclusive(v)' /\ (Handled(v)' <=> Handled(v))
    <3>1. {} \in SUBSET FrameRecs /\ \A g \in {} : g \notin Handles(v)  OBVIOUS
    <3>2. Top(th).task # v /\ f.task # v /\ (f.next = v <=> Top(th).next = v)
          /\ dispatched'[v] = dispatched[v]
      BY <1>3, <1>4, <1>14
    <3> QED  BY <1>15, <3>1, <3>2, RestKept
  <2>2. /\ life'[v] = life[v] /\ parent'[v] = parent[v] /\ dispatched'[v] = dispatched[v]
        /\ Deps(v)' = Deps(v) /\ TaskOK(v)
    BY <1>14, <1>22 DEF GInv, TasksOK
  <2> QED  BY <1>25, <2>1, <2>2, TaskKept
<1>29. Exclusive(t)' /\ TaskOK(t)'
  <2> DEFINE S == Handles(t)
  <2>1. Once(S) /\ S' = S /\ f \in S /\ Top(th) \in S
    BY <1>8, <1>9 DEF Handles, Exclusive
  <2>2. dispatched'[t] = 0  BY <1>6, <1>7, <1>12, <1>14
  <2> HIDE DEF S
  <2>3. Once(S)'  BY <1>15, <2>1 DEF Replaced, Once
  <2>4. Once(Handles(t))'  BY <2>3 DEF S
  <2>5. \E g \in Active' : g \in S'  BY <1>16, <2>1
  <2>6. Handled(t)'  BY <2>5 DEF S, Handled
  <2>7. life'[t] = "Alive" /\ taskPhase'[t] = 0  BY <1>5, <1>7, <1>11, <1>13, <1>14
  <2> QED  BY <2>2, <2>4, <2>6, <2>7 DEF Exclusive, TaskOK
<1>30. Exclusive(u)' /\ TaskOK(u)'
  <2> DEFINE S == Handles(u)
  <2>1. Once(S) /\ S' = S /\ f \in S /\ \A g \in Active : g \notin S
    BY <1>3, <1>9, <1>10 DEF Handles, Exclusive
  <2>2. dispatched'[u] = 0  BY <1>10, <1>11, <1>14
  <2> HIDE DEF S
  <2>3. Once(S)'  BY <1>15, <2>1 DEF Replaced, Once
  <2>4. Once(Handles(u))'  BY <2>3 DEF S
  <2>5. \E g \in Active' : g \in S'  BY <1>16, <2>1
  <2>6. Handled(u)'  BY <2>5 DEF S, Handled
  <2>7. life'[u] = "Alive" /\ taskPhase'[u] = 0  BY <1>5, <1>10, <1>14
  <2> QED  BY <2>2, <2>4, <2>6, <2>7 DEF Exclusive, TaskOK
<1>31. ASSUME o # None PROVE Exclusive(o)' /\ TaskOK(o)'
  <2> DEFINE S == Handles(o)
  <2>1. /\ Once(S) /\ S' = S /\ f \notin S /\ Top(th) \in S
        /\ \A g \in Others(th) : g \notin S
    BY <1>1, <1>3, <1>4, <1>7, <1>8, <1>11, <1>31 DEF Handles, GInv, Handling, Exclusive
  <2>2. TaskOK(o) /\ dispatched'[o] = 1  BY <1>4, <1>14, <1>31 DEF GInv, TasksOK
  <2> HIDE DEF S
  <2>3. Once(S)'  BY <1>15, <2>1 DEF Replaced, Once
  <2>4. Once(Handles(o))'  BY <2>3 DEF S
  <2>5. \A g \in Active' : g \notin S'  BY <1>16, <2>1
  <2>6. Exclusive(o)'  BY <2>4, <2>5 DEF S, Exclusive
  <2>7. Handled(o)'  BY <2>2 DEF Handled
  <2>8. Handled(o)  BY <1>1, <2>1 DEF S, Handled
  <2>9. life'[o] = "Alive"  BY <1>4, <1>11, <1>14, <1>31, <2>2, <2>8 DEF TaskOK
  <2>10. Deps(o)' = {} /\ o \in Tasks \ {t}  BY <1>4, <1>7, <1>22, <1>31
  <2>11. taskPhase'[o] = 1 => \A j \in 1 .. NumRequests(o) : Met(o, j)'
    BY <1>25, <2>2, <2>10 DEF TaskOK, Steady
  <2> QED  BY <2>6, <2>7, <2>9, <2>10, <2>11 DEF TaskOK
<1>32. \A v \in Tasks : Exclusive(v)' /\ TaskOK(v)'
  BY <1>28, <1>29, <1>30, <1>31, <1>6
<1>33. Types'
  <2>1. life' \in [Tasks -> {"Absent", "Alive", "Deleted"}]  BY <1>5, <1>6 DEF Types
  <2>2. parent' \in [Tasks -> {None} \cup Tasks]  BY <1>5, <1>6 DEF Types
  <2>3. numDependents' \in [Tasks -> Int]  BY <1>5, <1>6 DEF Types
  <2>4. dispatched' \in [Tasks -> 0 .. 1]
    <3>1. CASE o = None  BY <1>5, <1>6, <3>1 DEF Types
    <3>2. CASE o # None  BY <1>4, <1>5, <1>6, <1>12, <3>2 DEF Types
    <3> QED  BY <3>1, <3>2
  <2>5. claimed' \in [Keys -> {"Unclaimed", "Claimed", "Done"}]  BY <1>6 DEF Types
  <2> QED  BY <1>5, <1>6, <1>16, <2>1, <2>2, <2>3, <2>4, <2>5 DEF Types, Stacks, StackType
<1>34. Counts'
  <2>1. CountOK(t)'
    <3>1. numDependents'[t] = numDependents[t] + 1 /\ CountOK(t)
      BY <1>5, <1>6 DEF Types, GInv, Counts
    <3> QED  BY <1>23, <3>1, CountPlus
  <2>2. \A v \in Tasks \ {t} : CountOK(v)'  BY <1>5, <1>6, <1>22, CountSame DEF GInv, Counts, Types
  <2> QED  BY <2>1, <2>2 DEF Counts
<1>35. InputTasksOK'
  <2> SUFFICES ASSUME NEW p \in Owners, NEW j \in 1 .. Len(InputKeys[p]) PROVE InputsOK(p, j)'
    BY DEF InputTasksOK
  <2>1. CASE <<p, j>> = u
    <3>1. ~IsInputTask(t) /\ p = t /\ j = i  BY <2>1, TypeFacts
    <3>2. f \in Active' /\ f.i = i + 1  BY <1>3, <1>16
    <3>3. ~(f.i <= j)  BY <3>1, <3>2
    <3> QED  BY <1>3, <3>1, <3>2, <3>3 DEF InputsOK
  <2>2. CASE <<p, j>> # u
    <3>1. life'[<<p, j>>] = life[<<p, j>>]  BY <1>14, <2>2, TypeFacts
    <3>2. Top(th).i <= f.i  BY <1>3
    <3>3. {} \in SUBSET FrameRecs /\ taskPhase'[p] = taskPhase[p]  BY <1>5
    <3> QED  BY <1>3, <1>15, <3>1, <3>2, <3>3, InputsKept
  <2> QED  BY <2>1, <2>2
<1>36. RootsOK'
  <2>1. \A r \in Roots : life[r] = "Absent" => life'[r] = "Absent"
    BY <1>14, TypeFacts
  <2> QED  BY <1>16, <2>1, RootsKept
<1>37. KeysOK'
  <2> SUFFICES ASSUME NEW k \in Keys PROVE KeyOK(k)'
    BY DEF KeysOK
  <2>1. KeyOK(k) /\ k \in Tasks  BY TypeFacts DEF GInv, KeysOK
  <2>2. CASE k = u
    <3>1. claimed'[k] = "Claimed" /\ life'[k] = "Alive"
      BY <1>6, <1>14, <2>2, TypeFacts DEF Types
    <3> QED  BY <3>1 DEF KeyOK
  <2>3. CASE k # u
    <3>1. life'[k] = life[k]  BY <1>14, <2>1, <2>3
    <3>2. claimed'[k] = claimed[k]  BY <1>6, <2>3 DEF Types
    <3>3. In(k, Leaving) => In(k, Leaving)'  BY <1>17
    <3> QED  BY <1>24, <2>1, <3>1, <3>2, <3>3, KeyKept
  <2> QED  BY <2>2, <2>3
<1>38. CompiledInOrder'  BY DEF GInv, CompiledInOrder
<1> QED
  BY <1>16, <1>26, <1>27, <1>32, <1>33, <1>34, <1>35, <1>36, <1>37, <1>38
     DEF GInv, FramesOK, TasksOK, Handling

LEMMA ResolveInputPreserves ==
  ASSUME GInv, NEW th \in Threads, ResolveInput(th)
  PROVE  GInv'
<1>1. stack[th] # <<>> /\ Top(th).pc = "Inputs"  BY DEF ResolveInput, At, Top
<1>2. PICK t \in Tasks : t = This(th)  BY <1>1, ThisTask DEF Over
<1>3. /\ Top(th) \in FrameRecs /\ FrameOK(Top(th)) /\ Active = {Top(th)} \cup Others(th)
      /\ \A S : Once(S) /\ Top(th) \in S => \A g \in Others(th) : g \notin S
  BY <1>1, ThisTask, TopFrame DEF GInv, Stacks
<1>4. PICK i \in Nat \ {0} : i = Top(th).i  BY <1>3 DEF FrameRecs
<1>5. /\ ~IsInputTask(t) /\ t \in Owners /\ i \in 1 .. NumRequests(t)
      /\ i \in 1 .. Len(InputKeys[t])
  <2>1. ~IsInputTask(t) /\ i <= Len(InputKeys[t])  BY <1>2, <1>4 DEF ResolveInput
  <2>2. t \in Owners /\ NumRequests(t) = Len(InputKeys[t]) /\ NumRequests(t) \in Nat
    BY <2>1, TypeFacts DEF IsInputTask, NumRequests
  <2> QED  BY <1>4, <2>1, <2>2
<1>6. PICK u \in InputTasks : u = <<t, i>>  BY <1>5, TypeFacts
<1>7. u \in Tasks /\ u \notin Roots  BY TypeFacts
<1>8. /\ NewSubtask(th, u, Top(th)) /\ claimed' = claimed
      /\ UNCHANGED <<waiting, compiled, unspawned>>
  BY <1>2, <1>4, <1>6 DEF ResolveInput, keyVars
<1>9. life[u] = "Absent"
  <2>1. InputsOK(t, i)  BY <1>5 DEF GInv, InputTasksOK
  <2>2. taskPhase[t] = 0 /\ Top(th).task = t  BY <1>1, <1>2, <1>3 DEF FrameOK, This
  <2>3. ASSUME NEW g \in Active, g.task = t, g.pc = "Inputs" PROVE g.i <= i
    <3>1. Once(Handles(t)) /\ Top(th) \in Handles(t)
      BY <1>1, <1>3, <2>2 DEF GInv, Handling, Exclusive, Handles
    <3>2. g \in FrameRecs  BY <2>3, ActiveDef DEF GInv, Stacks, StackType
    <3>3. g \in Handles(t)  BY <2>3, <3>2 DEF Handles
    <3>4. g = Top(th)  BY <1>3, <3>1, <3>3
    <3> QED  BY <1>4, <3>4
  <2> QED  BY <1>6, <2>1, <2>2, <2>3 DEF InputsOK
<1> QED  BY <1>1, <1>2, <1>4, <1>5, <1>6, <1>7, <1>8, <1>9, NewSubtaskStep

LEMMA ClaimPreserves ==
  ASSUME GInv, NEW th \in Threads, Claim(th)
  PROVE  GInv'
<1>1. stack[th] # <<>> /\ Top(th).pc = "Inputs"  BY DEF Claim, Requests, At, Top
<1>2. PICK t \in Tasks : t = This(th)  BY <1>1, ThisTask DEF Over
<1>3. Top(th) \in FrameRecs  BY <1>1, ThisTask
<1>4. PICK i \in Nat \ {0} : i = Top(th).i  BY <1>3 DEF FrameRecs
<1>5. IsInputTask(t) /\ i \in 1 .. Len(OutputKeys(t)) /\ OutputKeys(t) \in Seq(Keys)
  BY <1>2, <1>4, TypeFacts DEF Claim, Requests, IsInputTask
<1>6. PICK u \in Keys : u = OutputKeys(t)[i]  BY <1>5
<1>7. u \in Tasks /\ u \notin Roots /\ i \in 1 .. NumRequests(t)
  BY <1>5, TypeFacts, InputsAssumption DEF NumRequests
<1>8. /\ NewSubtask(th, u, Top(th)) /\ claimed[u] = "Unclaimed"
      /\ claimed' = [claimed EXCEPT ![u] = "Claimed"]
      /\ UNCHANGED <<waiting, compiled, unspawned>>
  BY <1>2, <1>4, <1>6 DEF Claim, Requested
<1>9. life[u] = "Absent"  BY <1>8 DEF GInv, KeysOK, KeyOK
<1> QED  BY <1>1, <1>2, <1>4, <1>5, <1>6, <1>7, <1>8, <1>9, NewSubtaskStep

-----------------------------------------------------------------------------
(* The invariant holds.                                                    *)

\* Nothing exists but the frame of the main thread.
LEMMA InitEstablishes ==
  ASSUME Init
  PROVE  GInv
<1>1. PICK f : f = [Frame(None, 0) EXCEPT !.pc = "Spawn"]  OBVIOUS
<1>2. /\ f = [task |-> None, pc |-> "Spawn", depth |-> 0, i |-> 1, next |-> None,
              deps |-> FALSE, list |-> <<>>]
      /\ f \in FrameRecs
  <2>1. f = [task |-> None, pc |-> "Spawn", depth |-> 0, i |-> 1, next |-> None,
             deps |-> FALSE, list |-> <<>>]
    BY <1>1 DEF Frame
  <2>2. 0 \in 0 .. MaxDepth /\ 1 \in Nat /\ "Spawn" \in Pcs /\ FALSE \in BOOLEAN
    BY InputsAssumption DEF Pcs
  <2>3. <<>> \in Seq(Tasks)  OBVIOUS
  <2> QED  BY <2>1, <2>2, <2>3 DEF FrameRecs
<1>3. /\ f.task = None /\ f.pc = "Spawn" /\ f.depth = 0 /\ f.next = None /\ f.list = <<>>
  BY <1>2
<1>4. stack = [th \in Threads |-> IF th = Main THEN <<f>> ELSE <<>>]
  BY <1>1 DEF Init
<1> HIDE <1>1
<1>5. /\ Main \in Threads /\ stack[Main] = <<f>> /\ Len(stack[Main]) = 1 /\ stack[Main][1] = f
      /\ \A th \in Threads \ {Main} : stack[th] = <<>> /\ Len(stack[th]) = 0
      /\ StackType
  <2>1. <<f>> \in Seq(FrameRecs) /\ <<>> \in Seq(FrameRecs) /\ Len(<<f>>) = 1 /\ <<f>>[1] = f
    BY <1>2
  <2>2. \A th \in Threads : stack[th] = IF th = Main THEN <<f>> ELSE <<>>
    BY <1>4
  <2>3. stack \in [Threads -> Seq(FrameRecs)]  BY <1>4, <2>1
  <2> QED  BY <2>1, <2>2, <2>3, InputsAssumption DEF StackType
<1>6. Active = {f}
  <2>1. ASSUME NEW g \in Active PROVE g = f
    <3>1. PICK th \in Threads : \E j \in 1 .. Len(stack[th]) : g = stack[th][j]
      BY ActiveDef
    <3> QED  BY <1>5, <3>1
  <2>2. f \in Active
    <3>1. 1 \in 1 .. Len(stack[Main]) /\ f = stack[Main][1]  BY <1>5
    <3> QED  BY <1>5, <3>1, ActiveDef
  <2> QED  BY <2>1, <2>2
<1>7. \A v \in Tasks : /\ life[v] = "Absent" /\ parent[v] = None /\ numDependents[v] = 0
                       /\ taskPhase[v] = 0 /\ dispatched[v] = 0
  BY DEF Init
<1>8. \A k \in Keys : claimed[k] = "Unclaimed" /\ waiting[k] = <<>>  BY DEF Init
<1>9. compiled = Cached /\ unspawned \subseteq Roots  BY InputsAssumption DEF Init
<1>10. \A v \in Tasks : Deps(v) = {}
  <2> SUFFICES ASSUME NEW v \in Tasks PROVE Deps(v) = {}
    OBVIOUS
  <2>1. ~In(v, RunPcs)  BY <1>3, <1>6 DEF In, RunPcs
  <2>2. \A u \in Tasks : ~Child(u, v)  BY <1>7 DEF Child
  <2>3. \A u, n : ~Entry(u, n, v)
    <3>1. \A n : ~AtEnd(<<>>, n, v)  BY DEF AtEnd
    <3> QED  BY <1>3, <1>6, <1>8, <3>1 DEF Entry
  <2>4. \A u \in Tasks, n \in Int : ~Depends(v, u, n)  BY <2>1, <2>2, <2>3 DEF Depends
  <2> QED  BY <2>4 DEF Deps
<1>11. \A v \in Tasks : f \notin Handles(v)
  BY <1>3, TypeFacts DEF Handles
<1>12. Types
  <2>1. \A k \in Keys : <<>> \in Seq(InputTasks)  OBVIOUS
  <2>2. /\ life \in [Tasks -> {"Absent", "Alive", "Deleted"}] /\ parent \in [Tasks -> {None} \cup Tasks]
        /\ numDependents \in [Tasks -> Int] /\ taskPhase \in [Tasks -> 0 .. 1]
        /\ dispatched \in [Tasks -> 0 .. 1]
        /\ claimed \in [Keys -> {"Unclaimed", "Claimed", "Done"}]
        /\ waiting \in [Keys -> Seq(InputTasks)]
    BY DEF Init
  <2> QED  BY <1>5, <1>9, <2>2, InputsAssumption DEF Types, StackType
<1>13. Stacks
  <2> SUFFICES ASSUME NEW th \in Threads PROVE StackOK(th)
    BY <1>5 DEF Stacks
  <2>1. CASE th = Main
    <3>1. MaxDepth + 1 >= 1  BY InputsAssumption
    <3>2. Len(stack[th]) = 1 /\ \A j \in 1 .. Len(stack[th]) : j = 1 /\ stack[th][j] = f
      <4>1. Len(stack[th]) = 1 /\ stack[th][1] = f  BY <1>5, <2>1
      <4>2. \A j \in 1 .. 1 : j = 1  OBVIOUS
      <4> QED  BY <4>1, <4>2
    <3> QED  BY <1>3, <3>1, <3>2 DEF StackOK
  <2>2. CASE th # Main
    BY <1>5, <2>2, InputsAssumption DEF StackOK
  <2> QED  BY <2>1, <2>2
<1>14. Counts  BY <1>7, <1>10, FS_EmptySet DEF Counts, CountOK
<1>15. FramesOK  BY <1>3, <1>6 DEF FramesOK, FrameOK, RunPcs
<1>16. Handling
  <2> SUFFICES ASSUME NEW v \in Tasks PROVE Exclusive(v)
    BY DEF Handling
  <2>1. \A th, u \in Threads : \A i \in 1 .. Len(stack[th]), j \in 1 .. Len(stack[u]) :
          th = u /\ i = j
    <3> SUFFICES ASSUME NEW th \in Threads, NEW u \in Threads,
                        NEW i \in 1 .. Len(stack[th]), NEW j \in 1 .. Len(stack[u])
                 PROVE  th = u /\ i = j
      OBVIOUS
    <3>1. th = Main /\ u = Main
      <4>1. \A w \in Threads \ {Main} : 1 .. Len(stack[w]) = {}
        <5>1. 1 .. 0 = {}  OBVIOUS
        <5> QED  BY <1>5, <5>1
      <4> QED  BY <4>1
    <3>2. i \in 1 .. 1 /\ j \in 1 .. 1  BY <1>5, <3>1
    <3> QED  BY <3>1, <3>2
  <2> QED  BY <1>7, <2>1 DEF Exclusive, Once
<1>17. TasksOK
  <2>1. \A v \in Tasks : ~Handled(v)  BY <1>6, <1>7, <1>11 DEF Handled
  <2> QED  BY <1>7, <1>10, <2>1 DEF TasksOK, TaskOK
<1>18. InputTasksOK  BY <1>7, TypeFacts DEF InputTasksOK, InputsOK
<1>19. KeysOK  BY <1>7, <1>8, TypeFacts DEF KeysOK, KeyOK
<1>20. RootsOK
  <2>1. Top(Main).pc = "Spawn" /\ stack[Main] # <<>>  BY <1>3, <1>5 DEF Top
  <2> QED  BY <1>7, <1>9, <2>1, TypeFacts DEF RootsOK
<1>21. CompiledInOrder  BY <1>9 DEF CompiledInOrder
<1> QED
  BY <1>12, <1>13, <1>14, <1>15, <1>16, <1>17, <1>18, <1>19, <1>20, <1>21 DEF GInv

\* A step that changes nothing.
LEMMA Stutters ==
  ASSUME GInv, UNCHANGED vars
  PROVE  GInv'
<1>1. UNCHANGED <<life, parent, numDependents, taskPhase, dispatched, claimed, waiting,
                  compiled, unspawned, stack>>
  BY DEF vars, taskVars, keyVars
<1>2. Active' = Active  BY <1>1 DEF Active
<1>3. \A v, pcs : In(v, pcs)' <=> In(v, pcs)  BY <1>2 DEF In
<1>4. \A v : Deps(v)' = Deps(v)
  <2> SUFFICES ASSUME NEW v PROVE Deps(v)' = Deps(v)
    OBVIOUS
  <2>1. \A u \in Tasks, n \in Int : Depends(v, u, n)' <=> Depends(v, u, n)
    BY <1>1, <1>2, <1>3 DEF Depends, Child, Entry, AtEnd
  <2> QED  BY <2>1, DepsSame
<1>5. \A v, j : Met(v, j)' <=> Met(v, j)
  <2>1. \A u : InputDone(u)' <=> InputDone(u)  BY <1>1 DEF InputDone
  <2> QED  BY <1>1, <1>4, <2>1 DEF Met
<1>6. \A S : Once(S)' <=> Once(S)  BY <1>1 DEF Once
<1>7. Types' /\ StackType'  BY <1>1 DEF GInv, Types, Stacks, StackType
<1>8. Stacks'  BY <1>1, <1>7 DEF GInv, Stacks, StackOK
<1>9. Counts'  BY <1>1, <1>4, CountSame DEF GInv, Counts
<1>10. FramesOK'  BY <1>1, <1>2, <1>4, <1>5 DEF GInv, FramesOK, FrameOK
<1>11. \A v \in Tasks : Handles(v)' = Handles(v)  BY DEF Handles
<1>12. \A v \in Tasks : Handled(v)' <=> Handled(v)  BY <1>1, <1>2, <1>11 DEF Handled
<1>13. Handling'
  <2> SUFFICES ASSUME NEW v \in Tasks PROVE Exclusive(v)'
    BY DEF Handling
  <2>1. Exclusive(v) /\ Handles(v)' = Handles(v)  BY <1>11 DEF GInv, Handling
  <2>2. Once(Handles(v))'  BY <1>1, <2>1 DEF Exclusive, Once, Handles
  <2> QED  BY <1>1, <1>2, <2>1, <2>2 DEF Exclusive
<1>14. TasksOK'  BY <1>1, <1>4, <1>5, <1>12 DEF GInv, TasksOK, TaskOK
<1>15. InputTasksOK'  BY <1>1, <1>2 DEF GInv, InputTasksOK, InputsOK
<1>16. KeysOK'  BY <1>1, <1>3 DEF GInv, KeysOK, KeyOK
<1>17. RootsOK'  BY <1>1 DEF GInv, RootsOK, Top
<1>18. CompiledInOrder'  BY <1>1 DEF GInv, CompiledInOrder
<1> QED
  BY <1>7, <1>8, <1>9, <1>10, <1>13, <1>14, <1>15, <1>16, <1>17, <1>18 DEF GInv

\* Every step keeps the invariant.
LEMMA NextKeepsGInv ==
  ASSUME GInv, Next
  PROVE  GInv'
<1>1. ASSUME NEW th \in Threads, Step(th) PROVE GInv'
  <2>1. CASE Enter(th)  BY <2>1, EnterPreserves
  <2>2. CASE ResolveInput(th)  BY <2>2, ResolveInputPreserves
  <2>3. CASE Available(th)  BY <2>3, AvailablePreserves
  <2>4. CASE Wait(th)  BY <2>4, WaitPreserves
  <2>5. CASE Claim(th)  BY <2>5, ClaimPreserves
  <2>6. CASE EndPhase(th)  BY <2>6, EndPhasePreserves
  <2>7. CASE RunSubtask(th)  BY <2>7, RunSubtaskPreserves
  <2>8. CASE Suspend(th)  BY <2>8, SuspendPreserves
  <2>9. CASE CompileNode(th)  BY <2>9, CompileNodePreserves
  <2>10. CASE MarkDone(th)  BY <2>10, MarkDonePreserves
  <2>11. CASE Notify(th)
    BY <2>11, NotifyEndPreserves, NotifyOnePreserves
  <2>12. CASE Complete(th)
    BY <2>12, CompleteRootPreserves, CompleteSubtaskPreserves
  <2>13. CASE Destroy(th)  BY <2>13, DestroyPreserves
  <2>14. CASE EndNested(th) \/ FlushBlocked(th) \/ FlushBusy(th) \/ Check(th)
    BY <2>14, EndPreserves
  <2> QED
    BY <1>1, <2>1, <2>2, <2>3, <2>4, <2>5, <2>6, <2>7, <2>8, <2>9, <2>10, <2>11, <2>12, <2>13,
       <2>14 DEF Step
<1>2. CASE Spawning  BY <1>2, SpawnEndPreserves, SpawnPreserves DEF Spawning
<1>3. CASE Starting  BY <1>3, StartPreserves DEF Starting
<1>4. CASE Terminated  BY <1>4, Stutters DEF Terminated
<1> QED  BY <1>1, <1>2, <1>3, <1>4 DEF Next

\* The positions of the stacks, as the properties name them.
LEMMA FramesDef ==
  \A x \in Frames : /\ x = <<x[1], x[2]>> /\ x[1] \in Threads /\ x[2] \in DOMAIN stack[x[1]]
<1> SUFFICES ASSUME NEW x \in Frames
             PROVE  x = <<x[1], x[2]>> /\ x[1] \in Threads /\ x[2] \in DOMAIN stack[x[1]]
  OBVIOUS
<1>1. PICK th \in Threads : \E j \in DOMAIN stack[th] : x = <<th, j>>  BY DEF Frames
<1> QED  BY <1>1

\* A frame that uses a task handles it.
LEMMA InUseMeans ==
  ASSUME GInv, NEW x \in Frames
  PROVE  /\ x[1] \in Threads /\ x[2] \in 1 .. Len(stack[x[1]])
         /\ FrameOf(x) = stack[x[1]][x[2]] /\ FrameOf(x) \in Active /\ FrameOf(x) \in FrameRecs
         /\ \A t \in Tasks : InUse(x, t) => FrameOf(x) \in Handles(t)
<1>1. x[1] \in Threads /\ x[2] \in DOMAIN stack[x[1]]  BY FramesDef
<1>2. stack[x[1]] \in Seq(FrameRecs)  BY <1>1 DEF GInv, Stacks, StackType
<1>3. x[2] \in 1 .. Len(stack[x[1]]) /\ stack[x[1]][x[2]] \in FrameRecs  BY <1>1, <1>2
<1>4. FrameOf(x) \in Active /\ FrameOf(x) \in FrameRecs  BY <1>1, <1>3, ActiveDef DEF FrameOf
<1> QED  BY <1>1, <1>3, <1>4 DEF FrameOf, InUse, Handles

\* The properties follow from the invariant.
LEMMA NotReentrantHolds ==
  ASSUME GInv
  PROVE  NotReentrant
<1> SUFFICES ASSUME NEW t \in Tasks
             PROVE  /\ \A x, y \in Frames : InUse(x, t) /\ InUse(y, t) => x = y
                    /\ dispatched[t] > 0 => /\ \A x \in Frames : ~InUse(x, t)
                                            /\ numDependents[t] = 0
  BY DEF NotReentrant
<1>1. Exclusive(t) /\ TaskOK(t) /\ CountOK(t)  BY DEF GInv, Handling, TasksOK, Counts
<1>2. ASSUME NEW x \in Frames, NEW y \in Frames, InUse(x, t), InUse(y, t) PROVE x = y
  <2>1. stack[x[1]][x[2]] \in Handles(t) /\ stack[y[1]][y[2]] \in Handles(t)
    BY <1>2, InUseMeans
  <2>2. x[1] = y[1] /\ x[2] = y[2]  BY <1>1, <2>1, InUseMeans DEF Exclusive, Once
  <2> QED  BY <2>2, FramesDef
<1>3. ASSUME dispatched[t] > 0 PROVE (\A x \in Frames : ~InUse(x, t)) /\ numDependents[t] = 0
  BY <1>1, <1>3, InUseMeans, CountIs DEF Exclusive, TaskOK
<1> QED  BY <1>2, <1>3

LEMMA NoUseAfterDeleteHolds ==
  ASSUME GInv
  PROVE  NoUseAfterDelete
<1>1. \A t \in Tasks : Handled(t) \/ Deps(t) # {} => life[t] = "Alive"
  BY DEF GInv, TasksOK, TaskOK
<1>2. ASSUME NEW t \in Tasks
      PROVE  /\ \A x \in Frames : InUse(x, t) => life[t] = "Alive"
             /\ dispatched[t] > 0 => life[t] = "Alive"
  BY <1>1, InUseMeans DEF Handled
<1>3. ASSUME NEW t \in Tasks, life[t] = "Alive", parent[t] # None
      PROVE  \/ life[parent[t]] = "Alive"
             \/ \E x \in Frames : FrameOf(x).task = t /\ FrameOf(x).pc = "Destroy"
  <2>1. PICK p \in Tasks : p = parent[t]  BY <1>3 DEF GInv, Types
  <2>2. CASE In(t, {"Destroy"})
    <3>1. PICK g \in Active : g.task = t /\ g.pc = "Destroy"  BY <2>2 DEF In
    <3>2. PICK th \in Threads : \E j \in 1 .. Len(stack[th]) : g = stack[th][j]
      BY ActiveDef
    <3>3. PICK j \in 1 .. Len(stack[th]) : g = stack[th][j]  BY <3>2
    <3>4. DOMAIN stack[th] = 1 .. Len(stack[th])
      <4>1. stack[th] \in Seq(FrameRecs)  BY DEF GInv, Stacks, StackType
      <4> QED  BY <4>1
    <3>5. <<th, j>> \in Frames /\ FrameOf(<<th, j>>) = g  BY <3>3, <3>4 DEF Frames, FrameOf
    <3> QED  BY <3>1, <3>5
  <2>3. CASE ~In(t, {"Destroy"})
    <3>1. Depends(p, t, 0)  BY <1>3, <2>1, <2>3 DEF Depends, Child
    <3>2. <<t, 0>> \in Deps(p)  BY <3>1, DepsDef
    <3> QED  BY <1>1, <2>1, <3>2
  <2> QED  BY <2>2, <2>3
<1>4. ASSUME NEW k \in Keys, NEW s \in Seq(InputTasks), NEW j \in DOMAIN s,
             s = waiting[k] \/ \E g \in Active : g.task = k /\ g.list = s
      PROVE  life[s[j]] = "Alive"
  <2>1. PICK n : n = Len(s) + 1 - j  OBVIOUS
  <2>2. n \in 1 .. Len(s) /\ Len(s) + 1 - n = j /\ n \in Int /\ n > 0  BY <2>1
  <2>3. PICK v \in InputTasks : v = s[j]  BY <1>4
  <2>4. AtEnd(s, n, v)  BY <2>2, <2>3 DEF AtEnd
  <2>5. Entry(k, n, v)  BY <1>4, <2>4 DEF Entry
  <2>6. <<k, n>> \in Deps(v) /\ v \in Tasks  BY <2>2, <2>5, DepsDef, TypeFacts DEF Depends
  <2> QED  BY <1>1, <2>3, <2>6
<1>5. \A k \in Keys : \A j \in DOMAIN waiting[k] : life[waiting[k][j]] = "Alive"
  BY <1>4 DEF GInv, Types
<1>6. ASSUME NEW x \in Frames, NEW j \in DOMAIN FrameOf(x).list
      PROVE  life[FrameOf(x).list[j]] = "Alive"
  <2>1. PICK g \in FrameRecs : g = FrameOf(x) /\ g \in Active /\ FrameOK(g)
    BY InUseMeans DEF GInv, FramesOK
  <2>2. g.list \in Seq(InputTasks) /\ g.list # <<>>  BY <1>6, <2>1 DEF FrameRecs
  <2>3. g.task \in Keys  BY <2>1, <2>2 DEF FrameOK
  <2> QED  BY <1>4, <1>6, <2>1, <2>2, <2>3
<1> QED  BY <1>2, <1>3, <1>5, <1>6 DEF NoUseAfterDelete

\* The invariant holds in every reachable state.
THEOREM GraphInvariant == Spec => []GInv
<1>1. Init => GInv  BY InitEstablishes
<1>2. GInv /\ [Next]_vars => GInv'  BY NextKeepsGInv, Stutters
<1> QED  BY <1>1, <1>2, PTL DEF Spec

\* operator() of a compilation task is never entered while it runs, neither by
\* another thread nor by the nested invocations of _RunOrInvoke; and the
\* dispatcher has only tasks without unfulfilled dependencies.
THEOREM TasksNotReentrant == Spec => []NotReentrant
<1>1. GInv => NotReentrant  BY NotReentrantHolds
<1> QED  BY <1>1, GraphInvariant, PTL

\* A compilation task deletes itself only when no frame, list of waiting tasks,
\* dispatched run or unfinished subtask refers to it any more.
THEOREM TasksAliveWhenUsed == Spec => []NoUseAfterDelete
<1>1. GInv => NoUseAfterDelete  BY NoUseAfterDeleteHolds
<1> QED  BY <1>1, GraphInvariant, PTL

\* Phase 2 of an output providing task connects its node to sources that are
\* compiled, or whose compilation failed.
THEOREM SourcesCompiledFirst == Spec => []CompiledInOrder
<1>1. GInv => CompiledInOrder  BY DEF GInv
<1> QED  BY <1>1, GraphInvariant, PTL
=============================================================================
