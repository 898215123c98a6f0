------------------------ MODULE ExecTaskSync_proofs -------------------------
(***************************************************************************)
(* Proofs about ExecTaskSync, for any number of tasks, keys and requests.  *)
(***************************************************************************)
EXTENDS ExecTaskSync, FiniteSetTheorems, TLAPS

-----------------------------------------------------------------------------
(* The inductive invariant.                                                *)

\* A key, its publisher and its waiting list go through their stages together.
KeyOK(k) ==
  /\ state[k] = "Unclaimed" => parent[k] = NoNode /\ pub[k] = "Idle"
  /\ state[k] # "Unclaimed" => /\ parent[k] \in Node
                               /\ Key(parent[k]) = k
                               /\ result[parent[k]] = "Claimed"
  /\ pub[k] \in {"Compiled", "Marked", "Notify"} => k \notin Failing
  /\ state[k] = "Done" => k \notin Failing /\ pub[k] \notin {"Idle", "Compiled"}
  /\ pub[k] \notin {"Idle", "Compiled"} /\ k \notin Failing => state[k] = "Done"
  /\ waiting[k] = NotifiedTag => /\ k \notin Failing
                                 /\ pub[k] \in {"Notify", "Return", "Finished"}
  /\ pub[k] \in {"Notify", "Return", "Finished"} /\ k \notin Failing =>
       waiting[k] = NotifiedTag
  /\ k \in Cached => compiled[k]
  /\ pub[k] # "Idle" /\ k \notin Failing => compiled[k]
  /\ notify[k] # {} => pub[k] = "Notify"
  /\ waiting[k] # NotifiedTag =>
       \A n \in waiting[k] : Key(n) = k /\ result[n] = "Wait"
  /\ \A n \in notify[k] : Key(n) = k /\ result[n] = "Wait"

\* What a request was told is true of its key.
NodeOK(n) ==
  /\ result[n] = "Claimed" => parent[Key(n)] = n /\ Key(n) \notin Cached
  /\ result[n] \in {"Hit", "Done"} => compiled[Key(n)]
  /\ result[n] = "Wait" /\ waiting[Key(n)] # NotifiedTag => n \in waiting[Key(n)]

Claiming(t) == pc[t] \in {"Load", "Cas", "Head", "Push"}

\* The control state of a task.
TaskOK(t) ==
  /\ slot[t] \in 1 .. (Len(OutputKeys[t]) + 1)
  /\ \A i \in Slots(t) : result[<<t, i>>] = "None" <=> i >= slot[t]
  /\ Claiming(t) => slot[t] \in Slots(t) /\ Key(Here(t)) \notin Cached
  /\ taskPhase[t] = 1 => /\ Claiming(t) \/ pc[t] \in {"Asleep", "Lookup"}
                         /\ pc[t] = "Asleep" => dispatched[t] = 1
  /\ taskPhase[t] = 2 => /\ ~Claiming(t) /\ pc[t] # "Lookup"
                         /\ slot[t] = Len(OutputKeys[t]) + 1
  /\ pc[t] \in {"Populate", "Deleted"} => Pending(t) = {}
  /\ dispatched[t] <= 1
  /\ dispatched[t] = 1 => pc[t] = "Asleep" /\ numDependents[t] = 0
  /\ pc[t] = "Asleep" /\ dispatched[t] = 0 => numDependents[t] > 0

IInv == /\ TypeOK
        /\ \A k \in Keys : KeyOK(k)
        /\ \A n \in Node : NodeOK(n)
        /\ \A t \in Tasks : TaskOK(t)
        /\ CountIsExact

-----------------------------------------------------------------------------
(* Requests, keys and finite sets of slots.                                *)

\* A request is a task and one of its slots, and asks for a key.
LEMMA NodeFacts ==
  /\ \A t \in Tasks : \A i \in Slots(t) : <<t, i>> \in Node
  /\ \A n \in Node : /\ n[1] \in Tasks
                     /\ n[2] \in Slots(n[1])
                     /\ n = <<n[1], n[2]>>
  /\ \A n \in Node : Key(n) \in Keys
<1>1. \A t \in Tasks : \A i \in Slots(t) : <<t, i>> \in Node
  BY DEF Node
<1>2. \A n \in Node : n[1] \in Tasks /\ n[2] \in Slots(n[1]) /\ n = <<n[1], n[2]>>
  BY DEF Node
<1>3. \A n \in Node : Key(n) \in Keys
  BY <1>2, KeysAssumption DEF Key, Slots
<1> QED BY <1>1, <1>2, <1>3

\* Adding and removing a slot changes the number of slots by one.
LEMMA SlotCount ==
  ASSUME NEW t \in Tasks, NEW S \in SUBSET Slots(t)
  PROVE  /\ IsFiniteSet(S)
         /\ Cardinality(S) \in Nat
         /\ Cardinality(S) = 0 <=> S = {}
         /\ \A i \in Slots(t) \ S : Cardinality(S \cup {i}) = Cardinality(S) + 1
         /\ \A i \in S : Cardinality(S \ {i}) = Cardinality(S) - 1
<1>1. Len(OutputKeys[t]) \in Nat
  BY KeysAssumption
<1>2. IsFiniteSet(Slots(t))
  BY <1>1, FS_Interval DEF Slots
<1>3. IsFiniteSet(S)
  BY <1>2, FS_Subset
<1> QED BY <1>3, FS_CardinalityType, FS_EmptySet, FS_AddElement, FS_RemoveElement

\* The request a task is working on has not been answered yet.
LEMMA CurrentRequest ==
  ASSUME IInv, NEW t \in Tasks, slot[t] \in Slots(t)
  PROVE  /\ Here(t) \in Node /\ Here(t)[1] = t /\ Here(t)[2] = slot[t]
         /\ Key(Here(t)) \in Keys
         /\ result[Here(t)] = "None"
<1>1. TaskOK(t) /\ TypeOK
  BY DEF IInv
<1>2. Here(t) \in Node /\ Key(Here(t)) \in Keys
  BY NodeFacts DEF Here
<1>3. result[Here(t)] = "None"
  BY <1>1 DEF TaskOK, TypeOK, Here
<1> QED BY <1>2, <1>3 DEF Here

\* The counter of a task is exact.
Exact(t) == numDependents[t] = Cardinality(Pending(t)) + (IF Running(t) THEN 1 ELSE 0)

\* A step that does not touch what a task depends on preserves its invariant.
LEMMA Untouched ==
  ASSUME IInv, NEW t \in Tasks,
         pc'[t] = pc[t], slot'[t] = slot[t], taskPhase'[t] = taskPhase[t],
         numDependents'[t] = numDependents[t], dispatched'[t] = dispatched[t],
         \A i \in Slots(t) : result'[<<t, i>>] = result[<<t, i>>],
         Pending(t)' = Pending(t)
  PROVE  TaskOK(t)' /\ Exact(t)'
<1>1. TaskOK(t) /\ Exact(t)
  BY DEF IInv, CountIsExact, Exact
<1>2. Exact(t)'
  BY <1>1 DEF Exact, Running
<1>3. TaskOK(t)'
  BY <1>1 DEF TaskOK, Claiming, Here, Slots
<1> QED BY <1>2, <1>3

\* How many dependencies a task has, in a state that satisfies the invariant.
LEMMA PendingCount ==
  ASSUME IInv, NEW t \in Tasks
  PROVE  /\ Pending(t) \in SUBSET Slots(t)
         /\ Cardinality(Pending(t)) \in Nat
         /\ Cardinality(Pending(t)) = 0 <=> Pending(t) = {}
         /\ numDependents[t] = Cardinality(Pending(t)) + (IF Running(t) THEN 1 ELSE 0)
<1>1. Pending(t) \in SUBSET Slots(t)
  BY DEF Pending
<1> QED BY <1>1, SlotCount DEF IInv, CountIsExact

\* A running task gets one more dependency.
LEMMA DependencyAdded ==
  ASSUME IInv, NEW t \in Tasks, NEW i \in Slots(t) \ Pending(t),
         Pending(t)' = Pending(t) \cup {i},
         AddDependency(t),
         Running(t) /\ Running(t)'
  PROVE  Exact(t)'
<1>1. /\ Pending(t) \in SUBSET Slots(t)
      /\ Cardinality(Pending(t)) \in Nat
      /\ numDependents[t] = Cardinality(Pending(t)) + 1
  BY PendingCount
<1>2. Cardinality(Pending(t)') = Cardinality(Pending(t)) + 1
  BY <1>1, SlotCount
<1> QED BY <1>1, <1>2 DEF Exact, AddDependency, IInv, TypeOK

\* One dependency of a task is removed, by the task itself or by another one.
LEMMA DependencyRemoved ==
  ASSUME IInv, NEW t \in Tasks, NEW i \in Pending(t),
         Pending(t)' = Pending(t) \ {i},
         RemoveDependency(t),
         Running(t)' = Running(t)
  PROVE  /\ Exact(t)'
         /\ Running(t) => UNCHANGED dispatched
         /\ numDependents[t] > 0
         /\ numDependents' = [numDependents EXCEPT ![t] = @ - 1]
         /\ numDependents'[t] \in Nat
<1>1. /\ Pending(t) \in SUBSET Slots(t)
      /\ Cardinality(Pending(t)) \in Nat
      /\ numDependents[t] = Cardinality(Pending(t)) + (IF Running(t) THEN 1 ELSE 0)
  BY PendingCount
<1>2. Cardinality(Pending(t)') = Cardinality(Pending(t)) - 1
  BY <1>1, SlotCount
<1>3. Cardinality(Pending(t)) > 0
  BY PendingCount
<1>4. numDependents'[t] = numDependents[t] - 1
  BY DEF RemoveDependency, IInv, TypeOK
<1>5. Exact(t)'
  BY <1>1, <1>2, <1>4 DEF Exact
<1> QED BY <1>1, <1>3, <1>4, <1>5 DEF RemoveDependency

\* A notification removes a dependency of a task that is not at work on it.
LEMMA Notified ==
  ASSUME IInv, NEW t \in Tasks, NEW i \in Pending(t),
         Pending(t)' = Pending(t) \ {i},
         RemoveDependency(t),
         UNCHANGED taskVars
  PROVE  /\ TaskOK(t)' /\ Exact(t)'
         /\ numDependents' \in [Tasks -> Nat] /\ dispatched' \in [Tasks -> Nat]
         /\ \A u \in Tasks \ {t} : /\ numDependents'[u] = numDependents[u]
                                  /\ dispatched'[u] = dispatched[u]
<1>1. TaskOK(t) /\ TypeOK
  BY DEF IInv
<1>2. Running(t)' = Running(t)
  BY DEF Running, taskVars
<1>3. /\ Exact(t)'
      /\ numDependents[t] > 0
      /\ Running(t) => UNCHANGED dispatched
      /\ numDependents' = [numDependents EXCEPT ![t] = @ - 1]
      /\ numDependents'[t] \in Nat
  BY <1>2, DependencyRemoved
<1>4. dispatched[t] = 0 /\ pc[t] # "Deleted"
  BY <1>1, <1>3 DEF TaskOK, TypeOK
<1>5. dispatched' = IF numDependents'[t] = 0 THEN [dispatched EXCEPT ![t] = 1]
                                             ELSE dispatched
  BY <1>1, <1>3, <1>4 DEF RemoveDependency, TypeOK
<1>6. Running(t) => numDependents'[t] # 0
  <2>1. Running(t) => numDependents[t] # 1
    BY PendingCount
  <2> QED BY <1>1, <1>3, <2>1 DEF TypeOK
<1>7. TaskOK(t)'
  BY <1>1, <1>3, <1>4, <1>5, <1>6 DEF TaskOK, TypeOK, Claiming, Here, Running, taskVars
<1> QED BY <1>1, <1>3, <1>5, <1>7 DEF TypeOK

-----------------------------------------------------------------------------
(* Every action of a task preserves the invariant.                         *)

\* The claim: the task gets a dependency on the subtask it creates.
LEMMA CasWonPreserves ==
  ASSUME IInv, NEW t \in Tasks, CasWon(t)
  PROVE  IInv'
<1> DEFINE k == Key(Here(t))
<1>1. slot[t] \in Slots(t)
  BY DEF IInv, TaskOK, Claiming, CasWon
<1>2. /\ Here(t) \in Node /\ Here(t)[1] = t /\ Here(t)[2] = slot[t]
      /\ k \in Keys
      /\ result[Here(t)] = "None"
  BY <1>1, CurrentRequest
<1>3. TypeOK'
  BY <1>2 DEF IInv, TypeOK, CasWon, Answer, AddDependency, Here
<1>4. \A j \in Keys : KeyOK(j)'
  BY <1>2 DEF IInv, TypeOK, KeyOK, NodeOK, CasWon, Answer, AddDependency
<1>5. \A n \in Node : NodeOK(n)'
  <2>1. parent[k] \notin Node /\ k \notin Cached
    BY <1>2, SentinelAssumption DEF IInv, KeyOK, TaskOK, Claiming, CasWon
  <2> QED BY <1>2, <2>1, NodeFacts DEF IInv, TypeOK, NodeOK, CasWon, Answer
<1>6. ASSUME NEW u \in Tasks, u # t PROVE TaskOK(u)' /\ Exact(u)'
  <2>1. \A i \in Slots(u) : <<u, i>> \in Node /\ <<u, i>> # Here(t)
    BY <1>6, NodeFacts DEF Here
  <2>2. Pending(u)' = Pending(u)
    BY <1>6, <2>1 DEF Pending, Enlisted, IInv, TypeOK, CasWon, Answer
  <2> QED BY <1>6, <2>1, <2>2, Untouched DEF IInv, TypeOK, CasWon, Answer, AddDependency
<1>7. Pending(t)' = Pending(t) \cup {slot[t]} /\ slot[t] \notin Pending(t)
  <2>1. \A i \in Slots(t) : <<t, i>> \in Node /\ (<<t, i>> = Here(t) <=> i = slot[t])
    BY NodeFacts DEF Here
  <2>2. slot[t] \notin Pending(t)
    BY <1>2, <2>1 DEF Pending, CasWon
  <2>3. pub[k] = "Idle"
    BY <1>2 DEF IInv, KeyOK, CasWon
  <2>4. \A i \in Slots(t) : i \in Pending(t)' <=> i \in Pending(t) \cup {slot[t]}
    BY <1>2, <2>1, <2>3 DEF Pending, Enlisted, IInv, TypeOK, CasWon, Answer
  <2> QED BY <1>1, <2>2, <2>4 DEF Pending
<1>8. Exact(t)'
  BY <1>1, <1>7, DependencyAdded DEF IInv, TypeOK, Running, CasWon, Answer
<1>9. TaskOK(t)'
  BY <1>1, <1>2, NodeFacts, KeysAssumption DEF TaskOK, Claiming, Here, IInv, TypeOK, CasWon, Answer, AddDependency, Slots
<1> QED BY <1>3, <1>4, <1>5, <1>6, <1>8, <1>9 DEF IInv, CountIsExact, Exact

\* Other tasks do not notice a step of t that changes none of the keys.
LEMMA OtherTasks ==
  ASSUME IInv, NEW t \in Tasks, NEW u \in Tasks \ {t},
         pc'[u] = pc[u], slot'[u] = slot[u], taskPhase'[u] = taskPhase[u],
         numDependents'[u] = numDependents[u], dispatched'[u] = dispatched[u],
         \A i \in Slots(u) : result'[<<u, i>>] = result[<<u, i>>],
         UNCHANGED keyVars
  PROVE  TaskOK(u)' /\ Exact(u)'
<1>1. Pending(u)' = Pending(u)
  BY DEF Pending, Enlisted, keyVars
<1> QED BY <1>1, Untouched

\* The steps that answer a request whose output is in the cache.
LEMMA AvailablePreserves ==
  ASSUME IInv, NEW t \in Tasks, NEW r \in {"Hit", "Done"},
         slot[t] \in Slots(t), compiled[Key(Here(t))],
         Running(t), pc[t] # "Push",
         Answer(t, r),
         UNCHANGED <<keyVars, taskPhase, head, numDependents, dispatched>>
  PROVE  IInv'
<1>1. /\ Here(t) \in Node /\ Here(t)[1] = t /\ Here(t)[2] = slot[t]
      /\ Key(Here(t)) \in Keys
      /\ result[Here(t)] = "None"
  BY CurrentRequest
<1>2. TypeOK'
  BY <1>1 DEF IInv, TypeOK, Answer, keyVars
<1>3. \A j \in Keys : KeyOK(j)'
  BY <1>1 DEF IInv, TypeOK, KeyOK, Answer, keyVars
<1>4. \A n \in Node : NodeOK(n)'
  BY <1>1 DEF IInv, TypeOK, NodeOK, Answer, keyVars
<1>5. ASSUME NEW u \in Tasks \ {t} PROVE TaskOK(u)' /\ Exact(u)'
  <2>1. \A i \in Slots(u) : <<u, i>> \in Node /\ <<u, i>> # Here(t)
    BY NodeFacts DEF Here
  <2> QED BY <2>1, OtherTasks DEF IInv, TypeOK, Answer
<1>6. Pending(t)' = Pending(t)
  <2>1. \A i \in Slots(t) : <<t, i>> \in Node /\ (<<t, i>> = Here(t) <=> i = slot[t])
    BY NodeFacts DEF Here
  <2> QED BY <1>1, <2>1 DEF Pending, Enlisted, IInv, TypeOK, Answer, keyVars
<1>7. Exact(t)'
  BY <1>6 DEF Exact, Running, IInv, CountIsExact, TypeOK, Answer
<1>8. TaskOK(t)'
  <2>1. taskPhase[t] = 1
    BY KeysAssumption DEF IInv, TaskOK, TypeOK, Slots
  <2> QED BY <1>1, <2>1, NodeFacts, KeysAssumption
          DEF TaskOK, Claiming, Here, IInv, TypeOK, Answer, Slots, Running
<1> QED BY <1>2, <1>3, <1>4, <1>5, <1>7, <1>8 DEF IInv, CountIsExact, Exact

\* The output is in the cache.
LEMMA CacheHitPreserves ==
  ASSUME IInv, NEW t \in Tasks, CacheHit(t)
  PROVE  IInv'
BY AvailablePreserves DEF CacheHit, Running

\* A key that is marked done has its output in the cache.
LEMMA LoadDonePreserves ==
  ASSUME IInv, NEW t \in Tasks, LoadDone(t)
  PROVE  IInv'
<1>1. slot[t] \in Slots(t)
  BY DEF IInv, TaskOK, Claiming, LoadDone
<1>2. compiled[Key(Here(t))]
  BY <1>1, CurrentRequest DEF IInv, KeyOK, LoadDone
<1> QED BY <1>1, <1>2, AvailablePreserves DEF LoadDone, Running

\* A closed list belongs to a key whose output is in the cache.
LEMMA HeadClosedPreserves ==
  ASSUME IInv, NEW t \in Tasks, HeadClosed(t)
  PROVE  IInv'
<1>1. slot[t] \in Slots(t)
  BY DEF IInv, TaskOK, Claiming, HeadClosed
<1>2. compiled[Key(Here(t))]
  BY <1>1, CurrentRequest DEF IInv, KeyOK, HeadClosed
<1> QED BY <1>1, <1>2, AvailablePreserves DEF HeadClosed, Running

\* The steps that only move on to the next instruction of _Claim.
LEMMA MoveOnPreserves ==
  ASSUME IInv, NEW t \in Tasks, NEW p \in {"Load", "Cas", "Head", "Push"},
         slot[t] \in Slots(t), Key(Here(t)) \notin Cached,
         Claiming(t) \/ pc[t] = "Lookup",
         pc[t] = "Push" <=> p = "Push",
         pc' = [pc EXCEPT ![t] = p],
         head' \in [Tasks -> SUBSET Node],
         UNCHANGED <<keyVars, taskPhase, slot, result, numDependents, dispatched>>
  PROVE  IInv'
<1>1. TypeOK'
  BY DEF IInv, TypeOK, keyVars
<1>2. \A j \in Keys : KeyOK(j)'
  BY DEF IInv, KeyOK, keyVars
<1>3. \A n \in Node : NodeOK(n)'
  BY DEF IInv, NodeOK, keyVars
<1>4. ASSUME NEW u \in Tasks \ {t} PROVE TaskOK(u)' /\ Exact(u)'
  BY OtherTasks DEF IInv, TypeOK
<1>5. Pending(t)' = Pending(t)
  BY DEF Pending, Enlisted, IInv, TypeOK, keyVars
<1>6. Exact(t)'
  BY <1>5 DEF Exact, Running, Claiming, IInv, CountIsExact, TypeOK
<1>7. TaskOK(t)'
  BY DEF TaskOK, Claiming, Here, IInv, TypeOK, Slots
<1> QED BY <1>1, <1>2, <1>3, <1>4, <1>6, <1>7 DEF IInv, CountIsExact, Exact

\* A key that is not in the cache is not one of an earlier round.
LEMMA CacheMissPreserves ==
  ASSUME IInv, NEW t \in Tasks, CacheMiss(t)
  PROVE  IInv'
<1>1. Key(Here(t)) \notin Cached
  BY CurrentRequest DEF IInv, KeyOK, CacheMiss
<1> QED BY <1>1, MoveOnPreserves DEF CacheMiss, Goto, IInv, TypeOK

\* The load of the state decides between the claim and the list.
LEMMA LoadPendingPreserves ==
  ASSUME IInv, NEW t \in Tasks, LoadPending(t)
  PROVE  IInv'
<1>1. Claiming(t) /\ slot[t] \in Slots(t) /\ Key(Here(t)) \notin Cached
  BY DEF IInv, TaskOK, Claiming, LoadPending
<1> QED BY <1>1, MoveOnPreserves DEF LoadPending, Goto, IInv, TypeOK

\* Another task claimed the key.
LEMMA CasLostPreserves ==
  ASSUME IInv, NEW t \in Tasks, CasLost(t)
  PROVE  IInv'
<1>1. Claiming(t) /\ slot[t] \in Slots(t) /\ Key(Here(t)) \notin Cached
  BY DEF IInv, TaskOK, Claiming, CasLost, Goto
<1> QED BY <1>1, MoveOnPreserves DEF CasLost, Goto, IInv, TypeOK

\* The head that is read again is still the head of an open list.
LEMMA PushRetryPreserves ==
  ASSUME IInv, NEW t \in Tasks, PushRetry(t)
  PROVE  IInv'
<1>1. Claiming(t) /\ slot[t] \in Slots(t) /\ Key(Here(t)) \notin Cached
  BY DEF IInv, TaskOK, Claiming, PushRetry
<1>2. waiting[Key(Here(t))] \in SUBSET Node
  BY <1>1, CurrentRequest DEF IInv, TypeOK, PushRetry
<1>3. pc' = [pc EXCEPT ![t] = "Push"] /\ head' \in [Tasks -> SUBSET Node]
  BY <1>2 DEF IInv, TypeOK, PushRetry
<1> QED BY <1>1, <1>3, MoveOnPreserves DEF PushRetry

\* The dependency is counted before the node is on the list ...
LEMMA HeadOpenPreserves ==
  ASSUME IInv, NEW t \in Tasks, HeadOpen(t)
  PROVE  IInv'
<1>1. slot[t] \in Slots(t) /\ pc[t] = "Head" /\ pc' = [pc EXCEPT ![t] = "Push"]
  BY DEF IInv, TaskOK, Claiming, HeadOpen, Goto
<1>2. Key(Here(t)) \in Keys /\ result[Here(t)] = "None"
  BY <1>1, CurrentRequest
<1>3. TypeOK'
  BY <1>1, <1>2 DEF IInv, TypeOK, HeadOpen, AddDependency, keyVars
<1>4. \A j \in Keys : KeyOK(j)'
  BY DEF IInv, KeyOK, HeadOpen, keyVars
<1>5. \A n \in Node : NodeOK(n)'
  BY DEF IInv, NodeOK, HeadOpen, keyVars
<1>6. ASSUME NEW u \in Tasks \ {t} PROVE TaskOK(u)' /\ Exact(u)'
  BY <1>1, OtherTasks DEF IInv, TypeOK, HeadOpen, AddDependency
<1>7. Pending(t)' = Pending(t) \cup {slot[t]} /\ slot[t] \notin Pending(t)
  <2>1. slot[t] \notin Pending(t)
    BY <1>1, <1>2 DEF Pending, Here
  <2>2. \A i \in Slots(t) : i \in Pending(t)' <=> i \in Pending(t) \cup {slot[t]}
    BY <1>1 DEF Pending, Enlisted, IInv, TypeOK, HeadOpen, keyVars
  <2> QED BY <1>1, <2>1, <2>2 DEF Pending
<1>8. Exact(t)'
  BY <1>1, <1>7, DependencyAdded DEF IInv, TypeOK, Running, HeadOpen
<1>9. TaskOK(t)'
  BY <1>1 DEF TaskOK, Claiming, Here, IInv, TypeOK, HeadOpen, AddDependency, Slots
<1> QED BY <1>3, <1>4, <1>5, <1>6, <1>8, <1>9 DEF IInv, CountIsExact, Exact

\* ... stays the same when the node gets there ...
LEMMA PushWonPreserves ==
  ASSUME IInv, NEW t \in Tasks, PushWon(t)
  PROVE  IInv'
<1> DEFINE k == Key(Here(t))
<1>1. slot[t] \in Slots(t) /\ pc[t] = "Push"
  BY DEF IInv, TaskOK, Claiming, PushWon
<1>2. /\ Here(t) \in Node /\ Here(t)[1] = t /\ Here(t)[2] = slot[t]
      /\ k \in Keys
      /\ result[Here(t)] = "None"
  BY <1>1, CurrentRequest
<1>3. waiting[k] \in SUBSET Node /\ waiting[k] # NotifiedTag
  BY SentinelAssumption DEF IInv, TypeOK, PushWon
<1>4. waiting'[k] \in SUBSET Node /\ waiting'[k] # NotifiedTag
      /\ waiting'[k] = waiting[k] \cup {Here(t)}
  BY <1>2, <1>3, SentinelAssumption DEF IInv, TypeOK, PushWon
<1>5. TypeOK'
  BY <1>2, <1>4 DEF IInv, TypeOK, PushWon, Answer
<1>6. \A j \in Keys : KeyOK(j)'
  <2> SUFFICES ASSUME NEW j \in Keys PROVE KeyOK(j)'
    OBVIOUS
  <2>1. KeyOK(j)
    BY DEF IInv
  <2>2. \A n \in Node : result[n] # "None" => result'[n] = result[n]
    BY <1>2 DEF IInv, TypeOK, PushWon, Answer
  <2>3. result'[Here(t)] = "Wait"
    BY <1>2 DEF IInv, TypeOK, PushWon, Answer
  <2>4. CASE j = k
    <3>1. \A n \in waiting'[j] : Key(n) = j /\ result'[n] = "Wait"
      BY <1>3, <1>4, <2>1, <2>2, <2>3, <2>4 DEF KeyOK
    <3>2. \A n \in notify[j] : Key(n) = j /\ result'[n] = "Wait"
      BY <2>1, <2>2 DEF KeyOK, IInv, TypeOK
    <3> QED BY <1>3, <1>4, <2>1, <2>2, <2>4, <3>1, <3>2 DEF KeyOK, PushWon
  <2>5. CASE j # k
    <3>1. waiting'[j] = waiting[j]
      BY <2>5 DEF IInv, TypeOK, PushWon
    <3>2. waiting[j] # NotifiedTag =>
            \A n \in waiting'[j] : Key(n) = j /\ result'[n] = "Wait"
      BY <2>1, <2>2, <3>1 DEF KeyOK, IInv, TypeOK
    <3>3. \A n \in notify[j] : Key(n) = j /\ result'[n] = "Wait"
      BY <2>1, <2>2 DEF KeyOK, IInv, TypeOK
    <3> QED BY <3>1, <3>2, <3>3, <2>1, <2>2 DEF KeyOK, PushWon
  <2> QED BY <2>4, <2>5
<1>7. \A n \in Node : NodeOK(n)'
  BY <1>2, <1>3, <1>4, NodeFacts DEF IInv, TypeOK, NodeOK, PushWon, Answer
<1>8. \A n \in Node : n # Here(t) => (Enlisted(n)' <=> Enlisted(n))
  BY <1>2, <1>3, <1>4, NodeFacts DEF Enlisted, IInv, TypeOK, PushWon
<1>9. ASSUME NEW u \in Tasks \ {t} PROVE TaskOK(u)' /\ Exact(u)'
  <2>1. \A i \in Slots(u) : <<u, i>> \in Node /\ <<u, i>> # Here(t)
    BY NodeFacts DEF Here
  <2>2. Pending(u)' = Pending(u)
    BY <1>8, <2>1 DEF Pending, IInv, TypeOK, PushWon, Answer
  <2> QED BY <2>1, <2>2, Untouched DEF IInv, TypeOK, PushWon, Answer
<1>10. Pending(t)' = Pending(t)
  <2>1. \A i \in Slots(t) : <<t, i>> \in Node /\ (<<t, i>> = Here(t) <=> i = slot[t])
    BY NodeFacts DEF Here
  <2>2. \A n \in Node : n = Here(t) => Enlisted(n)' /\ result'[n] = "Wait"
    BY <1>2, <1>4 DEF Enlisted, IInv, TypeOK, PushWon, Answer
  <2>3. ASSUME NEW i \in Slots(t) PROVE i \in Pending(t)' <=> i \in Pending(t)
    <3>1. CASE i = slot[t]
      BY <1>1, <2>1, <2>2, <3>1 DEF Pending
    <3>2. CASE i # slot[t]
      BY <1>1, <1>2, <1>8, <2>1, <3>2 DEF Pending, IInv, TypeOK, PushWon, Answer
    <3> QED BY <3>1, <3>2
  <2> QED BY <2>3 DEF Pending
<1>11. Exact(t)'
  BY <1>1, <1>10 DEF Exact, Running, IInv, CountIsExact, TypeOK, PushWon, Answer
<1>12. TaskOK(t)'
  BY <1>1, <1>2, NodeFacts, KeysAssumption
  DEF TaskOK, Claiming, Here, IInv, TypeOK, PushWon, Answer, Slots
<1> QED BY <1>5, <1>6, <1>7, <1>9, <1>11, <1>12 DEF IInv, CountIsExact, Exact

\* ... and is removed when the list was closed first.
LEMMA PushClosedPreserves ==
  ASSUME IInv, NEW t \in Tasks, PushClosed(t)
  PROVE  IInv'
<1> DEFINE k == Key(Here(t))
<1>1. slot[t] \in Slots(t) /\ pc[t] = "Push"
  BY DEF IInv, TaskOK, Claiming, PushClosed
<1>2. /\ Here(t) \in Node /\ Here(t)[1] = t /\ Here(t)[2] = slot[t]
      /\ k \in Keys
      /\ result[Here(t)] = "None"
  BY <1>1, CurrentRequest
<1>3. Pending(t)' = Pending(t) \ {slot[t]} /\ slot[t] \in Pending(t)
  <2>1. \A i \in Slots(t) : <<t, i>> \in Node /\ (<<t, i>> = Here(t) <=> i = slot[t])
    BY NodeFacts DEF Here
  <2>2. slot[t] \in Pending(t)
    BY <1>1 DEF Pending
  <2>3. \A i \in Slots(t) : i \in Pending(t)' <=> i \in Pending(t) \ {slot[t]}
    BY <1>1, <1>2, <2>1 DEF Pending, Enlisted, IInv, TypeOK, PushClosed, Answer, keyVars
  <2> QED BY <2>2, <2>3 DEF Pending
<1>4. /\ Exact(t)'
      /\ UNCHANGED dispatched
      /\ numDependents[t] > 0
      /\ numDependents' = [numDependents EXCEPT ![t] = @ - 1]
      /\ numDependents'[t] \in Nat
  BY <1>1, <1>3, DependencyRemoved DEF Running, IInv, TypeOK, PushClosed, Answer
<1>5. TypeOK'
  BY <1>2, <1>4 DEF IInv, TypeOK, PushClosed, Answer, keyVars
<1>6. \A j \in Keys : KeyOK(j)'
  BY <1>2 DEF IInv, TypeOK, KeyOK, PushClosed, Answer, keyVars
<1>7. \A n \in Node : NodeOK(n)'
  <2>1. compiled[k]
    BY <1>2 DEF IInv, KeyOK, PushClosed
  <2> QED BY <1>2, <2>1 DEF IInv, TypeOK, NodeOK, PushClosed, Answer, keyVars
<1>8. ASSUME NEW u \in Tasks \ {t} PROVE TaskOK(u)' /\ Exact(u)'
  <2>1. \A i \in Slots(u) : <<u, i>> \in Node /\ <<u, i>> # Here(t)
    BY NodeFacts DEF Here
  <2> QED BY <1>4, <2>1, OtherTasks DEF IInv, TypeOK, PushClosed, Answer
<1>9. TaskOK(t)'
  BY <1>1, <1>2, <1>4, NodeFacts, KeysAssumption
  DEF TaskOK, Claiming, Here, IInv, TypeOK, PushClosed, Answer, Slots
<1> QED BY <1>4, <1>5, <1>6, <1>7, <1>8, <1>9 DEF IInv, CountIsExact, Exact

\* A task that was dispatched has no dependency but the one on itself.
LEMMA RunPreserves ==
  ASSUME IInv, NEW t \in Tasks, Run(t)
  PROVE  IInv'
<1>1. /\ pc[t] = "Asleep" /\ dispatched[t] = 1 /\ numDependents[t] = 0
      /\ pc' = [pc EXCEPT ![t] = IF taskPhase[t] = 1 THEN "Lookup" ELSE "Populate"]
      /\ dispatched' = [dispatched EXCEPT ![t] = 0]
      /\ numDependents' = [numDependents EXCEPT ![t] = 1]
  <2>1. TaskOK(t) /\ TypeOK
    BY DEF IInv
  <2>2. /\ pc[t] = "Asleep" /\ dispatched[t] > 0
        /\ pc' = [pc EXCEPT ![t] = IF taskPhase[t] = 1 THEN "Lookup" ELSE "Populate"]
    BY DEF Run, Goto
  <2>3. dispatched[t] = 1 /\ numDependents[t] = 0
    BY <2>1, <2>2 DEF TaskOK, TypeOK
  <2> QED BY <2>1, <2>2, <2>3 DEF Run, TypeOK
<1>2. Pending(t) = {}
  BY <1>1, PendingCount DEF Running
<1>3. TypeOK'
  BY <1>1 DEF IInv, TypeOK, Run, keyVars
<1>4. \A j \in Keys : KeyOK(j)'
  BY DEF IInv, KeyOK, Run, keyVars
<1>5. \A n \in Node : NodeOK(n)'
  BY DEF IInv, NodeOK, Run, keyVars
<1>6. ASSUME NEW u \in Tasks \ {t} PROVE TaskOK(u)' /\ Exact(u)'
  BY <1>1, OtherTasks DEF IInv, TypeOK, Run
<1>7. Pending(t)' = {}
  BY <1>1, <1>2 DEF Pending, Enlisted, IInv, TypeOK, Run, keyVars
<1>8. Exact(t)'
  BY <1>1, <1>7, FS_EmptySet DEF Exact, Running, IInv, TypeOK
<1>9. TaskOK(t)'
  BY <1>1, <1>7 DEF TaskOK, Claiming, IInv, TypeOK, Run
<1> QED BY <1>3, <1>4, <1>5, <1>6, <1>8, <1>9 DEF IInv, CountIsExact, Exact

\* A task goes on with phase 2 only without dependencies.
LEMMA EndPhasePreserves ==
  ASSUME IInv, NEW t \in Tasks, EndPhase(t)
  PROVE  IInv'
<1>1. /\ pc[t] = "Lookup" /\ slot[t] = Len(OutputKeys[t]) + 1
      /\ pc' = [pc EXCEPT ![t] = IF HasDependencies(t) THEN "Release" ELSE "Populate"]
      /\ taskPhase' = [taskPhase EXCEPT ![t] = 2]
  BY KeysAssumption DEF IInv, TypeOK, TaskOK, EndPhase, Goto, Slots
<1>2. TypeOK'
  BY <1>1 DEF IInv, TypeOK, EndPhase, keyVars
<1>3. \A j \in Keys : KeyOK(j)'
  BY DEF IInv, KeyOK, EndPhase, keyVars
<1>4. \A n \in Node : NodeOK(n)'
  BY DEF IInv, NodeOK, EndPhase, keyVars
<1>5. ASSUME NEW u \in Tasks \ {t} PROVE TaskOK(u)' /\ Exact(u)'
  BY <1>1, OtherTasks DEF IInv, TypeOK, EndPhase
<1>6. Pending(t)' = Pending(t)
  BY <1>1 DEF Pending, Enlisted, IInv, TypeOK, EndPhase, keyVars
<1>7. Exact(t)'
  BY <1>1, <1>6 DEF Exact, Running, IInv, CountIsExact, TypeOK, EndPhase
<1>8. TaskOK(t)'
  <2>1. ~HasDependencies(t) => Pending(t) = {}
    BY <1>1 DEF Pending, HasDependencies
  <2> QED BY <1>1, <1>6, <2>1 DEF TaskOK, Claiming, IInv, TypeOK, EndPhase
<1> QED BY <1>2, <1>3, <1>4, <1>5, <1>7, <1>8 DEF IInv, CountIsExact, Exact

\* A task that goes to sleep runs itself again iff nothing is pending.
LEMMA ReleasePreserves ==
  ASSUME IInv, NEW t \in Tasks, Release(t)
  PROVE  IInv'
<1>1. /\ pc[t] = "Release" /\ pc' = [pc EXCEPT ![t] = "Asleep"]
      /\ taskPhase[t] = 2 /\ dispatched[t] = 0
  <2>1. TaskOK(t) /\ TypeOK
    BY DEF IInv
  <2>2. pc[t] = "Release" /\ pc' = [pc EXCEPT ![t] = "Asleep"]
    BY DEF Release, Goto
  <2> QED BY <2>1, <2>2 DEF TaskOK, TypeOK, Claiming
<1>2. /\ Cardinality(Pending(t)) \in Nat
      /\ numDependents[t] = Cardinality(Pending(t)) + 1
  BY <1>1, PendingCount DEF Running
<1>3. /\ numDependents' = [numDependents EXCEPT ![t] = Cardinality(Pending(t))]
      /\ dispatched' = IF Cardinality(Pending(t)) = 0
                       THEN [dispatched EXCEPT ![t] = 1] ELSE dispatched
  <2>1. numDependents[t] = 1 <=> Cardinality(Pending(t)) = 0
    BY <1>2
  <2>2. numDependents[t] - 1 = Cardinality(Pending(t))
    BY <1>2
  <2>3. dispatched[t] + 1 = 1
    BY <1>1
  <2> QED BY <2>1, <2>2, <2>3 DEF Release, RemoveDependency
<1>4. TypeOK'
  BY <1>1, <1>2, <1>3 DEF IInv, TypeOK, Release, keyVars
<1>5. \A j \in Keys : KeyOK(j)'
  BY DEF IInv, KeyOK, Release, keyVars
<1>6. \A n \in Node : NodeOK(n)'
  BY DEF IInv, NodeOK, Release, keyVars
<1>7. ASSUME NEW u \in Tasks \ {t} PROVE TaskOK(u)' /\ Exact(u)'
  BY <1>1, <1>3, OtherTasks DEF IInv, TypeOK, Release
<1>8. Pending(t)' = Pending(t)
  BY <1>1 DEF Pending, Enlisted, IInv, TypeOK, Release, keyVars
<1>9. Exact(t)'
  BY <1>1, <1>2, <1>3, <1>8 DEF Exact, Running, IInv, TypeOK
<1>10. TaskOK(t)'
  BY <1>1, <1>2, <1>3, <1>8 DEF TaskOK, Claiming, IInv, TypeOK, Release
<1> QED BY <1>4, <1>5, <1>6, <1>7, <1>9, <1>10 DEF IInv, CountIsExact, Exact

\* A task is deleted without dependencies.
LEMMA PopulatePreserves ==
  ASSUME IInv, NEW t \in Tasks, Populate(t)
  PROVE  IInv'
<1>1. /\ pc[t] = "Populate" /\ pc' = [pc EXCEPT ![t] = "Deleted"]
      /\ taskPhase[t] = 2 /\ dispatched[t] = 0 /\ Pending(t) = {}
  <2>1. TaskOK(t) /\ TypeOK
    BY DEF IInv
  <2>2. pc[t] = "Populate" /\ pc' = [pc EXCEPT ![t] = "Deleted"]
    BY DEF Populate, Goto
  <2> QED BY <2>1, <2>2 DEF TaskOK, TypeOK, Claiming
<1>2. numDependents[t] = 1
  BY <1>1, PendingCount, FS_EmptySet DEF Running
<1>3. numDependents' = [numDependents EXCEPT ![t] = 0]
  BY <1>2 DEF Populate, IInv, TypeOK
<1>4. TypeOK'
  BY <1>1, <1>3 DEF IInv, TypeOK, Populate, keyVars
<1>5. \A j \in Keys : KeyOK(j)'
  BY DEF IInv, KeyOK, Populate, keyVars
<1>6. \A n \in Node : NodeOK(n)'
  BY DEF IInv, NodeOK, Populate, keyVars
<1>7. ASSUME NEW u \in Tasks \ {t} PROVE TaskOK(u)' /\ Exact(u)'
  BY <1>1, <1>3, OtherTasks DEF IInv, TypeOK, Populate
<1>8. Pending(t)' = {}
  BY <1>1 DEF Pending, Enlisted, IInv, TypeOK, Populate, keyVars
<1>9. Exact(t)'
  BY <1>1, <1>3, <1>8, FS_EmptySet DEF Exact, Running, IInv, TypeOK
<1>10. TaskOK(t)'
  BY <1>1, <1>3, <1>8 DEF TaskOK, Claiming, IInv, TypeOK, Populate
<1> QED BY <1>4, <1>5, <1>6, <1>7, <1>9, <1>10 DEF IInv, CountIsExact, Exact

-----------------------------------------------------------------------------
(* Every action of a publisher preserves the invariant.                    *)

\* Steps of a publisher that remove no dependency leave the tasks alone.
LEMMA TasksUntouched ==
  ASSUME IInv,
         UNCHANGED <<taskVars, numDependents, dispatched>>,
         \A n \in Node : /\ result[n] = "Wait" => (Enlisted(n)' <=> Enlisted(n))
                         /\ result[n] = "Claimed" =>
                              (pub'[Key(n)] = "Finished" <=> pub[Key(n)] = "Finished")
  PROVE  /\ \A u \in Tasks : TaskOK(u)'
         /\ CountIsExact'
<1> SUFFICES ASSUME NEW u \in Tasks PROVE TaskOK(u)' /\ Exact(u)'
  BY DEF CountIsExact, Exact
<1>1. Pending(u)' = Pending(u)
  <2>1. \A i \in Slots(u) : <<u, i>> \in Node
    BY NodeFacts
  <2> QED BY <2>1 DEF Pending, taskVars
<1> QED BY <1>1, Untouched DEF taskVars

\* The output is published before the key is done.
LEMMA CompilePreserves ==
  ASSUME IInv, NEW k \in Keys, Compile(k)
  PROVE  IInv'
<1>1. TypeOK'
  BY DEF IInv, TypeOK, Compile, PubGoto, taskVars
<1>2. \A j \in Keys : KeyOK(j)'
  BY DEF IInv, TypeOK, KeyOK, Compile, PubGoto, taskVars
<1>3. \A n \in Node : NodeOK(n)'
  BY NodeFacts DEF IInv, TypeOK, NodeOK, Compile, taskVars
<1>4. \A n \in Node : (Enlisted(n)' <=> Enlisted(n))
  BY DEF Enlisted, Compile
<1>5. \A n \in Node : pub'[Key(n)] = "Finished" <=> pub[Key(n)] = "Finished"
  BY NodeFacts DEF IInv, TypeOK, Compile, PubGoto
<1>6. (\A u \in Tasks : TaskOK(u)') /\ CountIsExact'
  BY <1>4, <1>5, TasksUntouched DEF Compile
<1> QED BY <1>1, <1>2, <1>3, <1>6 DEF IInv

\* A null node publishes nothing and closes no list.
LEMMA CompileFailsPreserves ==
  ASSUME IInv, NEW k \in Keys, CompileFails(k)
  PROVE  IInv'
<1>1. TypeOK'
  BY DEF IInv, TypeOK, CompileFails, PubGoto, taskVars
<1>2. \A j \in Keys : KeyOK(j)'
  BY DEF IInv, TypeOK, KeyOK, CompileFails, PubGoto, taskVars
<1>3. \A n \in Node : NodeOK(n)'
  BY NodeFacts DEF IInv, TypeOK, NodeOK, CompileFails, taskVars
<1>4. \A n \in Node : (Enlisted(n)' <=> Enlisted(n))
  BY DEF Enlisted, CompileFails
<1>5. \A n \in Node : pub'[Key(n)] = "Finished" <=> pub[Key(n)] = "Finished"
  BY NodeFacts DEF IInv, TypeOK, CompileFails, PubGoto
<1>6. (\A u \in Tasks : TaskOK(u)') /\ CountIsExact'
  BY <1>4, <1>5, TasksUntouched DEF CompileFails
<1> QED BY <1>1, <1>2, <1>3, <1>6 DEF IInv

\* The state is set while the list is still open.
LEMMA MarkDonePreserves ==
  ASSUME IInv, NEW k \in Keys, MarkDone(k)
  PROVE  IInv'
<1>1. TypeOK'
  BY DEF IInv, TypeOK, MarkDone, PubGoto, taskVars
<1>2. \A j \in Keys : KeyOK(j)'
  BY DEF IInv, TypeOK, KeyOK, MarkDone, PubGoto, taskVars
<1>3. \A n \in Node : NodeOK(n)'
  BY NodeFacts DEF IInv, TypeOK, NodeOK, MarkDone, taskVars
<1>4. \A n \in Node : (Enlisted(n)' <=> Enlisted(n))
  BY DEF Enlisted, MarkDone
<1>5. \A n \in Node : pub'[Key(n)] = "Finished" <=> pub[Key(n)] = "Finished"
  BY NodeFacts DEF IInv, TypeOK, MarkDone, PubGoto
<1>6. (\A u \in Tasks : TaskOK(u)') /\ CountIsExact'
  BY <1>4, <1>5, TasksUntouched DEF MarkDone
<1> QED BY <1>1, <1>2, <1>3, <1>6 DEF IInv

\* All nodes of the list were notified.
LEMMA NotifyEndPreserves ==
  ASSUME IInv, NEW k \in Keys, NotifyEnd(k)
  PROVE  IInv'
<1>1. TypeOK'
  BY DEF IInv, TypeOK, NotifyEnd, PubGoto, taskVars
<1>2. \A j \in Keys : KeyOK(j)'
  BY DEF IInv, TypeOK, KeyOK, NotifyEnd, PubGoto, taskVars
<1>3. \A n \in Node : NodeOK(n)'
  BY DEF IInv, NodeOK, NotifyEnd, taskVars
<1>4. \A n \in Node : (Enlisted(n)' <=> Enlisted(n))
  BY DEF Enlisted, NotifyEnd
<1>5. \A n \in Node : pub'[Key(n)] = "Finished" <=> pub[Key(n)] = "Finished"
  BY NodeFacts DEF IInv, TypeOK, NotifyEnd, PubGoto
<1>6. (\A u \in Tasks : TaskOK(u)') /\ CountIsExact'
  BY <1>4, <1>5, TasksUntouched DEF NotifyEnd
<1> QED BY <1>1, <1>2, <1>3, <1>6 DEF IInv

\* The nodes of the list become the nodes to notify.
LEMMA ClosePreserves ==
  ASSUME IInv, NEW k \in Keys, Close(k)
  PROVE  IInv'
<1>1. /\ waiting[k] \in SUBSET Node /\ waiting[k] # NotifiedTag
      /\ notify[k] = {} /\ k \notin Failing /\ pub[k] = "Marked"
      /\ pub' = [pub EXCEPT ![k] = "Notify"]
  <2>1. KeyOK(k) /\ TypeOK
    BY DEF IInv
  <2>2. pub[k] = "Marked" /\ pub' = [pub EXCEPT ![k] = "Notify"]
    BY DEF Close, PubGoto
  <2> QED BY <2>1, <2>2 DEF KeyOK, TypeOK
<1>2. TypeOK'
  BY <1>1 DEF IInv, TypeOK, Close, taskVars
<1>3. \A j \in Keys : KeyOK(j)'
  BY <1>1 DEF IInv, TypeOK, KeyOK, Close, taskVars
<1>4. \A n \in Node : NodeOK(n)'
  BY NodeFacts DEF IInv, TypeOK, NodeOK, Close, taskVars
<1>5. \A n \in Node : (Enlisted(n)' <=> Enlisted(n))
  BY <1>1, NodeFacts DEF Enlisted, IInv, TypeOK, Close
<1>6. \A n \in Node : pub'[Key(n)] = "Finished" <=> pub[Key(n)] = "Finished"
  BY <1>1, NodeFacts DEF IInv, TypeOK
<1>7. (\A u \in Tasks : TaskOK(u)') /\ CountIsExact'
  BY <1>5, <1>6, TasksUntouched DEF Close
<1> QED BY <1>2, <1>3, <1>4, <1>7 DEF IInv

\* A notification removes the dependency of one node.
LEMMA NotifyPreserves ==
  ASSUME IInv, NEW k \in Keys, NEW n \in notify[k], Notify(k, n)
  PROVE  IInv'
<1> DEFINE t == n[1]
<1>1. /\ n \in Node /\ Key(n) = k /\ result[n] = "Wait"
      /\ t \in Tasks /\ n[2] \in Slots(t) /\ n = <<t, n[2]>>
  BY NodeFacts DEF IInv, TypeOK, KeyOK
<1>2. waiting[k] = NotifiedTag /\ pub[k] = "Notify"
  BY DEF IInv, KeyOK, Notify
<1>3. \A m \in Node : Enlisted(m)' <=> Enlisted(m) /\ m # n
  BY <1>1, <1>2, NodeFacts DEF Enlisted, IInv, TypeOK, Notify
<1>4. n[2] \in Pending(t)
  BY <1>1 DEF Pending, Enlisted
<1>5. slot[t] # n[2]
  BY <1>1, CurrentRequest DEF Here
<1>6. Pending(t)' = Pending(t) \ {n[2]}
  <2>1. \A i \in Slots(t) : <<t, i>> \in Node /\ (<<t, i>> = n <=> i = n[2])
    BY <1>1, NodeFacts
  <2>2. \A i \in Slots(t) : i \in Pending(t)' <=> i \in Pending(t) \ {n[2]}
    BY <1>1, <1>3, <1>5, <2>1 DEF Pending, Notify, taskVars
  <2> QED BY <2>2 DEF Pending
<1>7. /\ TaskOK(t)' /\ Exact(t)'
      /\ numDependents' \in [Tasks -> Nat] /\ dispatched' \in [Tasks -> Nat]
      /\ \A u \in Tasks \ {t} : /\ numDependents'[u] = numDependents[u]
                               /\ dispatched'[u] = dispatched[u]
  BY <1>1, <1>4, <1>6, Notified DEF Notify
<1>8. TypeOK'
  BY <1>7 DEF IInv, TypeOK, Notify, taskVars
<1>9. \A j \in Keys : KeyOK(j)'
  BY <1>2 DEF IInv, TypeOK, KeyOK, Notify, taskVars
<1>10. \A m \in Node : NodeOK(m)'
  BY DEF IInv, NodeOK, Notify, taskVars
<1>11. ASSUME NEW u \in Tasks \ {t} PROVE TaskOK(u)' /\ Exact(u)'
  <2>1. \A i \in Slots(u) : <<u, i>> \in Node /\ <<u, i>> # n
    BY <1>1, NodeFacts
  <2>2. Pending(u)' = Pending(u)
    BY <1>3, <2>1 DEF Pending, Notify, taskVars
  <2> QED BY <1>7, <2>2, Untouched DEF Notify, taskVars
<1> QED BY <1>7, <1>8, <1>9, <1>10, <1>11 DEF IInv, CountIsExact, Exact

\* The complete subtask removes the dependency of its parent.
LEMMA ReturnPreserves ==
  ASSUME IInv, NEW k \in Keys, Return(k)
  PROVE  IInv'
<1>1. pub[k] = "Return" /\ pub' = [pub EXCEPT ![k] = "Finished"]
  BY DEF Return, PubGoto
<1>2. PICK n \in Node : n = parent[k] /\ Key(n) = k /\ result[n] = "Claimed"
  BY <1>1 DEF IInv, TypeOK, KeyOK
<1> DEFINE t == n[1]
<1>3. t \in Tasks /\ n[2] \in Slots(t) /\ n = <<t, n[2]>>
  BY <1>2, NodeFacts
<1>4. n[2] \in Pending(t)
  BY <1>1, <1>2, <1>3 DEF Pending
<1>5. slot[t] # n[2]
  BY <1>2, <1>3, CurrentRequest DEF Here
<1>6. \A m \in Node : result[m] = "Claimed" /\ Key(m) = k => m = n
  BY <1>2 DEF IInv, NodeOK
<1>7. Pending(t)' = Pending(t) \ {n[2]}
  <2>1. \A i \in Slots(t) : <<t, i>> \in Node /\ (<<t, i>> = n <=> i = n[2])
    BY <1>3, NodeFacts
  <2>2. \A i \in Slots(t) : (result[<<t, i>>] = "Claimed" /\ pub'[Key(<<t, i>>)] # "Finished")
          <=> (result[<<t, i>>] = "Claimed" /\ pub[Key(<<t, i>>)] # "Finished" /\ i # n[2])
    BY <1>1, <1>2, <1>6, <2>1, NodeFacts DEF IInv, TypeOK
  <2>3. \A i \in Slots(t) : i \in Pending(t)' <=> i \in Pending(t) \ {n[2]}
    BY <1>2, <1>3, <1>5, <2>2 DEF Pending, Enlisted, Return, taskVars
  <2> QED BY <2>3 DEF Pending
<1>8. /\ TaskOK(t)' /\ Exact(t)'
      /\ numDependents' \in [Tasks -> Nat] /\ dispatched' \in [Tasks -> Nat]
      /\ \A u \in Tasks \ {t} : /\ numDependents'[u] = numDependents[u]
                               /\ dispatched'[u] = dispatched[u]
  BY <1>2, <1>3, <1>4, <1>7, Notified DEF Return
<1>9. TypeOK'
  BY <1>1, <1>8 DEF IInv, TypeOK, Return, taskVars
<1>10. \A j \in Keys : KeyOK(j)'
  BY <1>1 DEF IInv, TypeOK, KeyOK, Return, taskVars
<1>11. \A m \in Node : NodeOK(m)'
  BY DEF IInv, NodeOK, Return, taskVars
<1>12. ASSUME NEW u \in Tasks \ {t} PROVE TaskOK(u)' /\ Exact(u)'
  <2>1. \A i \in Slots(u) : <<u, i>> \in Node /\ <<u, i>> # n
    BY <1>3, NodeFacts
  <2>2. \A i \in Slots(u) : result[<<u, i>>] = "Claimed" =>
          (pub'[Key(<<u, i>>)] = "Finished" <=> pub[Key(<<u, i>>)] = "Finished")
    BY <1>1, <1>6, <2>1, NodeFacts DEF IInv, TypeOK
  <2>3. Pending(u)' = Pending(u)
    BY <2>2 DEF Pending, Enlisted, Return, taskVars
  <2> QED BY <1>8, <2>3, Untouched DEF Return, taskVars
<1> QED BY <1>8, <1>9, <1>10, <1>11, <1>12 DEF IInv, CountIsExact, Exact

-----------------------------------------------------------------------------
(* The invariant and what follows from it.                                 *)

\* The tasks of a round are dispatched and depend on nothing.
LEMMA InitEstablishes == Init => IInv
<1> SUFFICES ASSUME Init PROVE IInv
  OBVIOUS
<1>1. TypeOK
  BY DEF Init, TypeOK
<1>2. \A k \in Keys : KeyOK(k)
  <2>1. \A S \in SUBSET Node : S # NotifiedTag
    BY SentinelAssumption
  <2> QED BY <2>1 DEF Init, KeyOK
<1>3. \A n \in Node : NodeOK(n)
  BY DEF Init, NodeOK
<1>4. \A t \in Tasks : Pending(t) = {}
  <2>1. \A t \in Tasks : \A i \in Slots(t) : result[<<t, i>>] = "None"
    BY NodeFacts DEF Init
  <2> QED BY <2>1 DEF Pending, Init
<1>5. \A t \in Tasks : TaskOK(t)
  <2> SUFFICES ASSUME NEW t \in Tasks PROVE TaskOK(t)
    OBVIOUS
  <2>1. \A i \in Slots(t) : result[<<t, i>>] = "None"
    BY NodeFacts DEF Init
  <2>2. Len(OutputKeys[t]) \in Nat
    BY KeysAssumption
  <2> QED BY <2>1, <2>2 DEF Init, TaskOK, Claiming, Slots
<1>6. CountIsExact
  BY <1>4, FS_EmptySet DEF Init, CountIsExact, Running
<1> QED BY <1>1, <1>2, <1>3, <1>5, <1>6 DEF IInv

\* The invariant is inductive.
LEMMA NextPreserves == IInv /\ [Next]_vars => IInv'
<1> SUFFICES ASSUME IInv, [Next]_vars PROVE IInv'
  OBVIOUS
<1>1. ASSUME NEW t \in Tasks, TaskStep(t) PROVE IInv'
  BY <1>1, RunPreserves, CacheHitPreserves, CacheMissPreserves, LoadDonePreserves,
     LoadPendingPreserves, CasWonPreserves, CasLostPreserves, HeadClosedPreserves,
     HeadOpenPreserves, PushWonPreserves, PushRetryPreserves, PushClosedPreserves,
     EndPhasePreserves, ReleasePreserves, PopulatePreserves
  DEF TaskStep
<1>2. ASSUME NEW k \in Keys, PubStep(k) PROVE IInv'
  BY <1>2, CompilePreserves, CompileFailsPreserves, MarkDonePreserves,
     ClosePreserves, NotifyPreserves, NotifyEndPreserves, ReturnPreserves
  DEF PubStep
<1>3. CASE UNCHANGED vars
  <2>1. TypeOK'
    BY <1>3 DEF IInv, TypeOK, vars, keyVars, taskVars
  <2>2. (\A k \in Keys : KeyOK(k)') /\ (\A n \in Node : NodeOK(n)')
    BY <1>3 DEF IInv, KeyOK, NodeOK, vars, keyVars, taskVars
  <2>3. (\A t \in Tasks : TaskOK(t)') /\ CountIsExact'
    BY <1>3, TasksUntouched DEF Enlisted, vars, keyVars
  <2> QED BY <2>1, <2>2, <2>3 DEF IInv
<1> QED BY <1>1, <1>2, <1>3 DEF Next, Terminated

\* The inductive invariant holds in every reachable state of the protocol.
THEOREM Invariance == Spec => []IInv
BY InitEstablishes, NextPreserves, PTL DEF Spec

\* Every variable keeps its type; in particular no dependency counter of a task
\* becomes negative, however AddDependency and RemoveDependency interleave.
THEOREM TypeCorrect == Spec => []TypeOK
<1>1. IInv => TypeOK
  BY DEF IInv
<1> QED BY <1>1, Invariance, PTL

\* _numDependents is the number of unfulfilled dependencies, plus one while
\* operator() runs.
THEOREM CountCorrect == Spec => []CountIsExact
<1>1. IInv => CountIsExact
  BY DEF IInv
<1> QED BY <1>1, Invariance, PTL

\* operator() is never re-entered: a task is dispatched at most once, asleep and
\* without dependencies.
THEOREM NoReentrance == Spec => []NotReentrant
<1>1. IInv => NotReentrant
  BY DEF IInv, TaskOK, NotReentrant
<1> QED BY <1>1, Invariance, PTL

\* A request that was told to wait is released only after its key was compiled.
LEMMA WaitFacts ==
  ASSUME IInv, NEW n \in Node, result[n] = "Wait"
  PROVE  /\ Enlisted(n) => pub[Key(n)] # "Finished" \/ Key(n) \in Failing
         /\ ~Enlisted(n) => compiled[Key(n)]
<1>1. Key(n) \in Keys
  BY NodeFacts
<1>2. KeyOK(Key(n)) /\ NodeOK(n)
  BY <1>1 DEF IInv
<1> QED BY <1>2 DEF KeyOK, NodeOK, Enlisted

\* No wake-up is lost between a task that goes to sleep, the notifiers that
\* remove its dependencies and the close of a list it pushes its node on.
THEOREM WakeupsKept == Spec => []NoLostWakeup
<1>1. ASSUME IInv PROVE NoLostWakeup
  <2> SUFFICES ASSUME NEW t \in Tasks, pc[t] = "Asleep", dispatched[t] # 1
               PROVE  \E i \in Pending(t) : \/ pub[Key(<<t, i>>)] # "Finished"
                                            \/ Key(<<t, i>>) \in Failing
    BY DEF NoLostWakeup
  <2>1. dispatched[t] = 0
    BY <1>1 DEF IInv, TypeOK, TaskOK
  <2>2. numDependents[t] > 0
    BY <1>1, <2>1 DEF IInv, TaskOK
  <2>3. PICK i \in Pending(t) : TRUE
    BY <1>1, <2>2, PendingCount DEF Running
  <2>4. <<t, i>> \in Node
    BY NodeFacts DEF Pending
  <2> QED BY <1>1, <2>3, <2>4, WaitFacts DEF Pending
<1> QED BY <1>1, Invariance, PTL

\* Phase 2 finds every output in the cache, whichever way each key was answered,
\* except one that this task claimed and whose node could not be compiled.
THEOREM OutputsFound == Spec => []OutputsReady
<1>1. ASSUME IInv PROVE OutputsReady
  <2> SUFFICES ASSUME NEW t \in Tasks, pc[t] = "Populate", NEW i \in Slots(t)
               PROVE  \/ compiled[Key(<<t, i>>)]
                      \/ /\ result[<<t, i>>] = "Claimed"
                         /\ Key(<<t, i>>) \in Failing
    BY DEF OutputsReady
  <2> DEFINE n == <<t, i>>
  <2>1. n \in Node /\ Key(n) \in Keys
    BY NodeFacts
  <2>2. KeyOK(Key(n)) /\ NodeOK(n) /\ TaskOK(t)
    BY <1>1, <2>1 DEF IInv
  <2>3. i \notin Pending(t)
    BY <2>2 DEF TaskOK
  <2>4. result[n] # "None"
    <3>1. slot[t] = Len(OutputKeys[t]) + 1
      BY <1>1, <2>2 DEF IInv, TypeOK, TaskOK, Claiming
    <3> QED BY <2>2, <3>1, KeysAssumption DEF TaskOK, Slots
  <2>5. CASE result[n] = "Wait"
    BY <1>1, <2>1, <2>3, <2>5, WaitFacts DEF Pending
  <2>6. CASE result[n] = "Claimed"
    BY <2>2, <2>3, <2>6 DEF Pending, KeyOK
  <2>7. CASE result[n] \in {"Hit", "Done"}
    BY <2>2, <2>7 DEF NodeOK
  <2> QED BY <1>1, <2>1, <2>4, <2>5, <2>6, <2>7 DEF IInv, TypeOK
<1> QED BY <1>1, Invariance, PTL

\* At most one request for a key is told to compile it.
THEOREM ClaimsExclusive == Spec => []ClaimedOnce
<1>1. IInv => ClaimedOnce
  BY DEF IInv, NodeOK, ClaimedOnce
<1> QED BY <1>1, Invariance, PTL

\* When a task deletes itself no waiting list, notifier, dispatcher or running
\* subtask has a pointer to it any more.
THEOREM DeletionSafe == Spec => []NoDanglingTask
<1>1. ASSUME IInv PROVE NoDanglingTask
  <2> SUFFICES ASSUME NEW t \in Tasks, pc[t] = "Deleted"
               PROVE  /\ dispatched[t] = 0
                      /\ \A i \in Slots(t) : ~Enlisted(<<t, i>>)
                      /\ \A k \in Keys : parent[k] # NoNode /\ parent[k][1] = t
                                           => pub[k] = "Finished"
    BY DEF NoDanglingTask
  <2>1. dispatched[t] = 0 /\ Pending(t) = {}
    BY <1>1 DEF IInv, TypeOK, TaskOK
  <2>2. ASSUME NEW i \in Slots(t) PROVE ~Enlisted(<<t, i>>)
    <3>1. <<t, i>> \in Node /\ Key(<<t, i>>) \in Keys
      BY NodeFacts
    <3>2. Enlisted(<<t, i>>) => result[<<t, i>>] = "Wait"
      BY <1>1, <3>1 DEF IInv, KeyOK, Enlisted
    <3> QED BY <2>1, <3>2 DEF Pending
  <2>3. ASSUME NEW k \in Keys, parent[k] # NoNode, parent[k][1] = t
        PROVE  pub[k] = "Finished"
    <3>1. parent[k] \in Node /\ Key(parent[k]) = k /\ result[parent[k]] = "Claimed"
      BY <1>1, <2>3 DEF IInv, TypeOK, KeyOK
    <3>2. parent[k] = <<t, parent[k][2]>> /\ parent[k][2] \in Slots(t)
      BY <2>3, <3>1, NodeFacts
    <3> QED BY <2>1, <3>1, <3>2 DEF Pending
  <2> QED BY <2>1, <2>2, <2>3
<1> QED BY <1>1, Invariance, PTL

-----------------------------------------------------------------------------
(***************************************************************************)
(* The refinement.  The lock-free protocol implements the safety part of   *)
(* TaskSyncSpec: its initial states are initial states of TaskSyncSpec,    *)
(* and each of its steps is a step of TaskSyncSpec or leaves the promise's *)
(* state alone.                                                            *)
(***************************************************************************)

(* A task reaches _WaitOn only for a key that was claimed.                 *)

LostClaim(t) == pc[t] \in {"Head", "Push"} => state[Key(Here(t))] # "Unclaimed"

RInv == IInv /\ \A t \in Tasks : LostClaim(t)

\* No step takes a claim back.
LEMMA ClaimsStay ==
  ASSUME IInv, Next, NEW k \in Keys, state[k] # "Unclaimed"
  PROVE  state'[k] # "Unclaimed"
<1>1. ASSUME NEW t \in Tasks, TaskStep(t) PROVE state'[k] # "Unclaimed"
  <2>1. CASE CasWon(t)
    BY <2>1 DEF CasWon, IInv, TypeOK
  <2>2. CASE PushWon(t)
    BY <2>2 DEF PushWon
  <2>3. CASE ~CasWon(t) /\ ~PushWon(t)
    BY <1>1, <2>3 DEF TaskStep, Run, CacheHit, CacheMiss, LoadDone, LoadPending, CasLost,
       HeadClosed, HeadOpen, PushRetry, PushClosed, EndPhase, Release, Populate, keyVars
  <2> QED BY <2>1, <2>2, <2>3
<1>2. ASSUME NEW j \in Keys, PubStep(j) PROVE state'[k] # "Unclaimed"
  BY <1>2 DEF PubStep, Compile, CompileFails, MarkDone, Close, Notify, NotifyEnd, Return,
     IInv, TypeOK
<1> QED BY <1>1, <1>2 DEF Next, Terminated, vars, keyVars

\* That a task in _WaitOn lost the race for the claim is inductive.
LEMMA RInvInductive ==
  /\ Init => RInv
  /\ RInv /\ [Next]_vars => RInv'
<1>1. Init => RInv
  BY InitEstablishes DEF RInv, LostClaim, Init
<1>2. ASSUME RInv, [Next]_vars, NEW t \in Tasks PROVE LostClaim(t)'
  <2>1. CASE UNCHANGED vars
    BY <1>2, <2>1 DEF RInv, LostClaim, Here, vars, keyVars, taskVars
  <2>2. CASE Next
    <3> SUFFICES ASSUME pc'[t] \in {"Head", "Push"}
                 PROVE  state'[Key(<<t, slot'[t]>>)] # "Unclaimed"
      BY DEF LostClaim, Here
    <3>1. slot'[t] = slot[t] /\ slot[t] \in Slots(t) /\ state[Key(Here(t))] # "Unclaimed"
      <4>1. ASSUME NEW u \in Tasks, TaskStep(u), u # t
            PROVE pc'[t] = pc[t] /\ slot'[t] = slot[t]
        BY <1>2, <4>1 DEF RInv, IInv, TypeOK, TaskStep, Run, CacheHit, CacheMiss, LoadDone,
           LoadPending, CasWon, CasLost, HeadClosed, HeadOpen, PushWon, PushRetry,
           PushClosed, EndPhase, Release, Populate, Goto, Answer
      <4>2. ASSUME NEW k \in Keys, PubStep(k) PROVE pc'[t] = pc[t] /\ slot'[t] = slot[t]
        BY <4>2 DEF PubStep, Compile, CompileFails, MarkDone, Close, Notify, NotifyEnd,
           Return, taskVars
      <4>3. ASSUME pc'[t] = pc[t], slot'[t] = slot[t]
            PROVE slot[t] \in Slots(t) /\ state[Key(Here(t))] # "Unclaimed"
        BY <1>2, <4>3 DEF RInv, IInv, TaskOK, Claiming, LostClaim
      <4>4. ASSUME TaskStep(t)
            PROVE slot'[t] = slot[t] /\ slot[t] \in Slots(t) /\ state[Key(Here(t))] # "Unclaimed"
        <5>1. LoadPending(t) \/ CasLost(t) \/ HeadOpen(t) \/ PushRetry(t)
          BY <1>2, <4>4 DEF RInv, IInv, TypeOK, TaskStep, Run, CacheHit, CacheMiss, LoadDone,
             CasWon, HeadClosed, PushWon, PushClosed, EndPhase, Release, Populate, Goto, Answer
        <5> QED BY <1>2, <5>1 DEF RInv, IInv, TypeOK, TaskOK, Claiming, LostClaim, LoadPending,
                CasLost, HeadOpen, PushRetry, Goto
      <4> QED BY <2>2, <4>1, <4>2, <4>3, <4>4 DEF Next, Terminated, vars, taskVars
    <3>2. Key(Here(t)) \in Keys
      BY <1>2, <3>1, CurrentRequest DEF RInv
    <3> QED BY <1>2, <2>2, <3>1, <3>2, ClaimsStay DEF RInv, Here
  <2> QED BY <1>2, <2>1, <2>2
<1> QED BY <1>1, <1>2, NextPreserves DEF RInv

-----------------------------------------------------------------------------
(* The refinement mapping of Promise, and its steps.                       *)

Closed == [k \in Keys |-> waiting[k] = NotifiedTag]
AnswerOf(n) == IF result[n] = "Hit" THEN "None"
               ELSE IF Released(n) THEN "Released" ELSE result[n]

\* A step that changes no state, closes no list and answers no request.
LEMMA Stutter ==
  ASSUME UNCHANGED <<state, waiting, notify, result>>
  PROVE  UNCHANGED Promise!vars
BY DEF Promise!vars, Released, Enlisted

\* Nothing was asked, claimed or closed.
LEMMA InitRefines == Init => Promise!Init
<1> SUFFICES ASSUME Init PROVE Promise!Init
  OBVIOUS
<1>1. \A k \in Keys : waiting[k] # NotifiedTag
  BY SentinelAssumption DEF Init
<1> QED BY <1>1 DEF Init, Promise!Init, Released

\* A step that answers the current request of t and changes no list.
LEMMA AnswerChanges ==
  ASSUME IInv, NEW t \in Tasks, slot[t] \in Slots(t),
         NEW r \in {"Hit", "Done", "Claimed"}, Answer(t, r),
         UNCHANGED <<waiting, notify>>
  PROVE  /\ AnswerOf(Here(t)) = "None"
         /\ \A n \in Node : AnswerOf(n)' = IF n # Here(t) THEN AnswerOf(n)
                                           ELSE IF r = "Hit" THEN "None" ELSE r
<1>1. Here(t) \in Node /\ result[Here(t)] = "None"
  BY CurrentRequest
<1> QED BY <1>1 DEF AnswerOf, Released, Enlisted, Answer, IInv, TypeOK

\* A cache hit is not a request of the protocol.
LEMMA HitRefines ==
  ASSUME IInv, NEW t \in Tasks, CacheHit(t)
  PROVE  UNCHANGED Promise!vars
<1>1. slot[t] \in Slots(t) /\ Answer(t, "Hit") /\ UNCHANGED keyVars
  BY DEF CacheHit
<1>2. \A n \in Node : AnswerOf(n)' = AnswerOf(n)
  BY <1>1, AnswerChanges DEF keyVars
<1> QED BY <1>1, <1>2 DEF Promise!vars, AnswerOf, keyVars

\* The mapped answers, as a function.
Answers == [n \in Node |-> AnswerOf(n)]

\* Whatever the reason a task need not wait, its key is marked done.
LEMMA DoneRefines ==
  ASSUME IInv, NEW t \in Tasks, LoadDone(t) \/ HeadClosed(t) \/ PushClosed(t)
  PROVE  Promise!Next
<1>1. slot[t] \in Slots(t) /\ Answer(t, "Done") /\ UNCHANGED keyVars
  BY DEF IInv, TaskOK, Claiming, LoadDone, HeadClosed, PushClosed
<1>2. Here(t) \in Node /\ Key(Here(t)) \in Keys
  BY <1>1, CurrentRequest
<1>3. state[Key(Here(t))] = "Done"
  BY <1>2 DEF IInv, KeyOK, LoadDone, HeadClosed, PushClosed
<1>4. AnswerOf(Here(t)) = "None" /\ Answers' = [Answers EXCEPT ![Here(t)] = "Done"]
  BY <1>1, AnswerChanges DEF keyVars, Answers
<1>5. PICK r \in Node : r = Here(t)
  BY <1>2
<1>6. Promise!Done(r)
  BY <1>1, <1>2, <1>3, <1>4, <1>5 DEF Promise!Done, Answers, AnswerOf, keyVars
<1> QED BY <1>6 DEF Promise!Next

\* The compare-exchange of the state is the claim.
LEMMA ClaimedRefines ==
  ASSUME IInv, NEW t \in Tasks, CasWon(t)
  PROVE  Promise!Next
<1>1. slot[t] \in Slots(t) /\ Answer(t, "Claimed") /\ UNCHANGED <<waiting, notify>>
  BY DEF IInv, TaskOK, Claiming, CasWon
<1>2. Here(t) \in Node /\ Key(Here(t)) \in Keys
  BY <1>1, CurrentRequest
<1>3. AnswerOf(Here(t)) = "None" /\ Answers' = [Answers EXCEPT ![Here(t)] = "Claimed"]
  BY <1>1, AnswerChanges DEF Answers
<1>4. PICK r \in Node : r = Here(t)
  BY <1>2
<1>5. Promise!Claimed(r)
  BY <1>1, <1>2, <1>3, <1>4 DEF Promise!Claimed, Answers, AnswerOf, CasWon
<1> QED BY <1>5 DEF Promise!Next

\* The compare-exchange of the list head is the moment a task begins to wait.
LEMMA WaitRefines ==
  ASSUME RInv, NEW t \in Tasks, PushWon(t)
  PROVE  Promise!Next
<1> DEFINE k == Key(Here(t))
<1>1. slot[t] \in Slots(t) /\ pc[t] = "Push" /\ state[k] # "Unclaimed"
  BY DEF RInv, IInv, TaskOK, Claiming, LostClaim, PushWon
<1>2. Here(t) \in Node /\ k \in Keys /\ result[Here(t)] = "None"
  BY <1>1, CurrentRequest DEF RInv
<1>3. /\ waiting[k] # NotifiedTag /\ waiting[k] \in SUBSET Node
      /\ waiting[k] \cup {Here(t)} # NotifiedTag
      /\ waiting' = [waiting EXCEPT ![k] = waiting[k] \cup {Here(t)}]
  BY <1>2, SentinelAssumption DEF RInv, IInv, TypeOK, PushWon
<1>4. Closed' = Closed
  BY <1>2, <1>3 DEF Closed, RInv, IInv, TypeOK
<1>5. Answers' = [Answers EXCEPT ![Here(t)] = "Wait"]
  <2>1. \A n \in Node : result'[n] = IF n = Here(t) THEN "Wait" ELSE result[n]
    BY <1>2 DEF PushWon, Answer, RInv, IInv, TypeOK
  <2>2. \A n \in Node : n = Here(t) => Enlisted(n)'
    BY <1>2, <1>3 DEF Enlisted, RInv, IInv, TypeOK
  <2>3. \A n \in Node : n # Here(t) => (Enlisted(n)' <=> Enlisted(n))
    BY <1>2, <1>3, NodeFacts DEF Enlisted, RInv, IInv, TypeOK, PushWon
  <2>4. \A n \in Node : AnswerOf(n)' = IF n = Here(t) THEN "Wait" ELSE AnswerOf(n)
    BY <2>1, <2>2, <2>3 DEF AnswerOf, Released
  <2> QED BY <2>4 DEF Answers
<1>6. PICK r \in Node : r = Here(t)
  BY <1>2
<1>7. Promise!Wait(r)
  <2>1. Answers[Here(t)] = "None" /\ ~Closed[k] /\ UNCHANGED state
    BY <1>2, <1>3 DEF Answers, AnswerOf, Released, Closed, PushWon
  <2> QED BY <1>1, <1>4, <1>5, <1>6, <2>1 DEF Promise!Wait, Answers, AnswerOf, Closed
<1> QED BY <1>7 DEF Promise!Next

\* The exchange of the state marks the key done.
LEMMA MarkDoneRefines ==
  ASSUME IInv, NEW k \in Keys, MarkDone(k)
  PROVE  Promise!Next
<1>1. state[k] = "Claimed"
  BY DEF IInv, TypeOK, KeyOK, MarkDone, PubGoto
<1>2. Answers' = Answers /\ Closed' = Closed
  BY DEF Answers, AnswerOf, Released, Enlisted, Closed, MarkDone, taskVars
<1>3. Promise!MarkDone(k)
  BY <1>1, <1>2 DEF Promise!MarkDone, Answers, AnswerOf, Closed, MarkDone
<1> QED BY <1>3 DEF Promise!Next

\* The exchange of the list head closes the list.
LEMMA CloseRefines ==
  ASSUME IInv, NEW k \in Keys, Close(k)
  PROVE  Promise!Next
<1>1. /\ state[k] = "Done" /\ waiting[k] # NotifiedTag /\ notify[k] = {}
      /\ UNCHANGED <<state, result>>
      /\ waiting' = [waiting EXCEPT ![k] = NotifiedTag]
      /\ notify' = [notify EXCEPT ![k] = waiting[k]]
  <2>1. pub[k] = "Marked" /\ KeyOK(k) /\ TypeOK
    BY DEF IInv, Close, PubGoto
  <2> QED BY <2>1 DEF KeyOK, TypeOK, Close, taskVars
<1>2. Closed' = [Closed EXCEPT ![k] = TRUE]
  BY <1>1 DEF Closed, IInv, TypeOK
<1>3. \A n \in Node : (Enlisted(n)' <=> Enlisted(n))
  BY <1>1, NodeFacts DEF Enlisted, IInv, TypeOK
<1>4. Answers' = Answers
  BY <1>1, <1>3 DEF Answers, AnswerOf, Released
<1>5. Promise!Close(k)
  BY <1>1, <1>2, <1>4 DEF Promise!Close, Answers, AnswerOf, Closed
<1> QED BY <1>5 DEF Promise!Next

\* Each notification releases one waiting request.
LEMMA ReleaseRefines ==
  ASSUME IInv, NEW k \in Keys, NEW n \in notify[k], Notify(k, n)
  PROVE  Promise!Next
<1>1. n \in Node /\ Key(n) = k /\ result[n] = "Wait" /\ waiting[k] = NotifiedTag
  BY DEF IInv, TypeOK, KeyOK, Notify
<1>2. \A m \in Node : Enlisted(m)' <=> Enlisted(m) /\ m # n
  BY <1>1, NodeFacts DEF Enlisted, IInv, TypeOK, Notify
<1>3. Enlisted(n)
  BY <1>1 DEF Enlisted
<1>4. Answers' = [Answers EXCEPT ![n] = "Released"] /\ Answers[n] = "Wait"
  <2>1. \A m \in Node : AnswerOf(m)' = IF m = n THEN "Released" ELSE AnswerOf(m)
    BY <1>1, <1>2 DEF AnswerOf, Released, Notify, taskVars
  <2> QED BY <1>1, <1>3, <2>1 DEF Answers, AnswerOf, Released
<1>5. Closed[k] /\ Closed' = Closed /\ UNCHANGED state
  BY <1>1 DEF Closed, Notify
<1>6. Promise!Release(n)
  BY <1>1, <1>4, <1>5 DEF Promise!Release, Answers, AnswerOf, Closed
<1> QED BY <1>1, <1>6 DEF Promise!Next

\* Every step is a step of the promise or a stutter.
LEMMA StepRefines ==
  ASSUME RInv, [Next]_vars
  PROVE  [Promise!Next]_(Promise!vars)
<1>1. ASSUME NEW t \in Tasks, TaskStep(t) PROVE [Promise!Next]_(Promise!vars)
  <2>1. CASE \/ Run(t) \/ CacheMiss(t) \/ LoadPending(t) \/ CasLost(t) \/ HeadOpen(t)
             \/ PushRetry(t) \/ EndPhase(t) \/ Release(t) \/ Populate(t)
    BY <2>1, Stutter DEF Run, CacheMiss, LoadPending, CasLost, HeadOpen, PushRetry,
       EndPhase, Release, Populate, keyVars
  <2> QED BY <1>1, <2>1, HitRefines, DoneRefines, ClaimedRefines, WaitRefines
          DEF TaskStep, RInv
<1>2. ASSUME NEW k \in Keys, PubStep(k) PROVE [Promise!Next]_(Promise!vars)
  <2>1. CASE Compile(k) \/ CompileFails(k) \/ NotifyEnd(k) \/ Return(k)
    BY <2>1, Stutter DEF Compile, CompileFails, NotifyEnd, Return, taskVars
  <2> QED BY <1>2, <2>1, MarkDoneRefines, CloseRefines, ReleaseRefines DEF PubStep, RInv
<1>3. CASE UNCHANGED vars
  BY <1>3, Stutter DEF vars, keyVars, taskVars
<1> QED BY <1>1, <1>2, <1>3 DEF Next, Terminated

\* Exec_CompilerTaskSync gives the answers TaskSyncSpec promises: the first
\* request claims a key, a request waits only while the list is open, and each
\* waiting request is released once, after the key was marked done.
THEOREM SafetyRefinement == Spec => Promise!Safety
<1>1. Init => Promise!Init /\ RInv
  BY InitRefines, RInvInductive
<1>2. RInv /\ [Next]_vars => RInv' /\ [Promise!Next]_(Promise!vars)
  BY RInvInductive, StepRefines
<1> QED BY <1>1, <1>2, PTL DEF Spec, Promise!Safety
=============================================================================
