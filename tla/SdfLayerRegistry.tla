-------------------------- MODULE SdfLayerRegistry --------------------------
(***************************************************************************)
(* Opening, finding, creating and destroying layers from several threads:  *)
(* SdfLayer::FindOrOpen, Find and CreateNew, the registry of layers behind *)
(* its reader-writer lock, the reference counts that keep a layer alive,   *)
(* and the initialization that other threads wait for.                     *)
(*                                                                         *)
(* A thread holds at most one layer, ref[t]; the reference count of a      *)
(* layer is the number of its holders.  Identifier, repository path and    *)
(* real path of a layer are one key: what several paths resolve to is      *)
(* data.  A thread finds an expiring layer as long as its destructor has   *)
(* not erased it, as the code does with its weak pointers.                 *)
(***************************************************************************)
EXTENDS Naturals, Sequences, FiniteSets

CONSTANTS
  Threads,      \* threads that use layers
  Identifiers,  \* identifiers of layers
  Missing,      \* identifiers without an asset or without a file format
  Layers,       \* layer objects, each of them created once at most
  Unreadable,   \* those of assets whose reading may fail
  Unsavable,    \* those of layers whose first save may fail
  Throwing,     \* those of assets whose reading may throw
  None          \* no layer, no thread, no answer

ASSUME LayersAssumption == /\ Missing \cup Unreadable \cup Unsavable \cup Throwing
                                \subseteq Identifiers
                           /\ None \notin Layers \cup Threads \cup BOOLEAN

VARIABLES
  readers, writer,  \* who holds the registry mutex
  queue,            \* the threads that wait for it, first come first served
  registry,         \* _layerRegistry: the layer of an identifier
  identifier,       \* the identifier of a layer
  life,             \* per layer: Unused, Alive, Expiring, Destroyed
  complete,         \* _initializationComplete
  success,          \* _initializationWasSuccessful
  pc,               \* where a thread is
  call,             \* what it calls: FindOrOpen, Find or CreateNew
  wanted,           \* the identifier it asks for
  ref,              \* the layer it holds a reference to
  dying             \* the layer whose destructor it runs

lockVars == <<readers, writer, queue>>
initVars == <<complete, success>>
layerVars == <<registry, identifier, life, initVars>>
callVars == <<call, wanted>>
vars == <<lockVars, layerVars, pc, callVars, ref, dying>>

Init == /\ readers = {}
        /\ writer = None
        /\ queue = <<>>
        /\ registry = [i \in Identifiers |-> None]
        /\ identifier = [l \in Layers |-> None]
        /\ life = [l \in Layers |-> "Unused"]
        /\ complete = [l \in Layers |-> FALSE]
        /\ success = [l \in Layers |-> None]
        /\ pc = [t \in Threads |-> "Out"]
        /\ call = [t \in Threads |-> "None"]
        /\ wanted = [t \in Threads |-> None]
        /\ ref = [t \in Threads |-> None]
        /\ dying = [t \in Threads |-> None]

Goto(t, from, to) == pc[t] = from /\ pc' = [pc EXCEPT ![t] = to]

Holders(l) == {t \in Threads : ref[t] = l}

\* lock.release(), or the end of the scope of the lock.
Unlock(t) == /\ readers' = readers \ {t}
             /\ writer' = IF writer = t THEN None ELSE writer
             /\ UNCHANGED queue

\* What the registry has for the identifier the thread asks for.
Entry(t) == registry[wanted[t]]
EntryIs(t, state) == Entry(t) # None /\ life[Entry(t)] = state

-----------------------------------------------------------------------------
(* The calls, and the registry mutex.                                      *)

Busy == {t \in Threads : pc[t] # "Out"}
Unused == {l \in Layers : life[l] = "Unused"}

\* A bound: a call begins only while there is an unused layer for it.
Call(t, c, i) ==
  /\ Cardinality(Busy) < Cardinality(Unused)
  /\ ref[t] = None
  /\ Goto(t, "Out", IF c = "CreateNew" THEN "WantWrite" ELSE "WantRead")
  /\ call' = [call EXCEPT ![t] = c]
  /\ wanted' = [wanted EXCEPT ![t] = i]
  /\ queue' = Append(queue, t)
  /\ UNCHANGED <<readers, writer, layerVars, ref, dying>>

\* The mutex is a queueing one: nobody overtakes.
First(t) == queue # <<>> /\ Head(queue) = t

LockRead(t) == /\ First(t)
               /\ writer = None
               /\ readers' = readers \cup {t}
               /\ queue' = Tail(queue)
               /\ UNCHANGED writer

LockWrite(t) == /\ First(t)
                /\ writer = None /\ readers = {}
                /\ writer' = t
                /\ queue' = Tail(queue)
                /\ UNCHANGED readers

AcquireRead(t) ==
  /\ Goto(t, "WantRead", "FindAsReader")
  /\ LockRead(t)
  /\ UNCHANGED <<layerVars, callVars, ref, dying>>

AcquireWrite(t) ==
  /\ Goto(t, "WantWrite",
          IF call[t] = "CreateNew" THEN "Create" ELSE "FindAsWriter")
  /\ LockWrite(t)
  /\ UNCHANGED <<layerVars, callVars, ref, dying>>

\* upgrade_to_writer returns true: the lock was never released.
UpgradeAtOnce(t) ==
  /\ Goto(t, "Upgrade", "Found")
  /\ readers = {t}
  /\ readers' = {}
  /\ writer' = t
  /\ UNCHANGED <<queue, layerVars, callVars, ref, dying>>

\* As a bug would have it: the search is not repeated after a wait for the lock.
UpgradeWithoutRetry(t) ==
  /\ Goto(t, "Upgrade", "Found")
  /\ writer = None /\ readers \subseteq {t}
  /\ readers' = {}
  /\ writer' = t
  /\ UNCHANGED <<queue, layerVars, callVars, ref, dying>>

\* It returns false: the lock was released, and what was found may be stale.
UpgradeReleased(t) ==
  /\ Goto(t, "Upgrade", "WantWrite")
  /\ readers' = readers \ {t}
  /\ queue' = Append(queue, t)
  /\ UNCHANGED <<writer, layerVars, callVars, ref, dying>>

-----------------------------------------------------------------------------
(* _TryToFindLayer.                                                        *)

Finding(t) == pc[t] \in {"FindAsReader", "FindAsWriter"}

\* As a bug would have it: an expiring layer is taken for a live one.
TakeExpiring(t) ==
  /\ Finding(t)
  /\ EntryIs(t, "Alive") \/ EntryIs(t, "Expiring")
  /\ ref' = [ref EXCEPT ![t] = Entry(t)]
  /\ pc' = [pc EXCEPT ![t] = "WaitForInitialization"]
  /\ Unlock(t)
  /\ UNCHANGED <<layerVars, callVars, dying>>

\* A reference is taken only from a count that is not 0.
Take(t) ==
  /\ Finding(t)
  /\ EntryIs(t, "Alive")
  /\ ref' = [ref EXCEPT ![t] = Entry(t)]
  /\ pc' = [pc EXCEPT ![t] = "WaitForInitialization"]
  /\ Unlock(t)
  /\ UNCHANGED <<layerVars, callVars, dying>>

\* A reader that found an expiring layer, or that will open the layer it did
\* not find, has to become a writer.
NeedsWriter(t) ==
  /\ Goto(t, "FindAsReader", "Upgrade")
  /\ EntryIs(t, "Expiring") \/ (Entry(t) = None /\ call[t] = "FindOrOpen")
  /\ UNCHANGED <<lockVars, layerVars, callVars, ref, dying>>

NotFound(t) ==
  /\ Goto(t, "FindAsReader", "Out")
  /\ Entry(t) = None /\ call[t] = "Find"
  /\ Unlock(t)
  /\ UNCHANGED <<layerVars, callVars, ref, dying>>

\* The writer erases an expiring layer from the registry; Find gives up then.
Evict(t) ==
  /\ pc[t] = "Found" \/ (pc[t] = "FindAsWriter" /\ ~EntryIs(t, "Alive"))
  /\ registry' = [registry EXCEPT ![wanted[t]] = None]
  /\ IF call[t] = "FindOrOpen"
     THEN pc' = [pc EXCEPT ![t] = "Open"] /\ UNCHANGED lockVars
     ELSE pc' = [pc EXCEPT ![t] = "Out"] /\ Unlock(t)
  /\ UNCHANGED <<identifier, life, initVars, callVars, ref, dying>>

Successful(t) == success[ref[t]] = TRUE

\* As a bug would have it: the thread does not wait, and an outcome that is
\* not there throws.
WaitNot(t) ==
  /\ Goto(t, "WaitForInitialization", IF success[ref[t]] = None THEN "Throw"
                                      ELSE IF Successful(t) THEN "Out"
                                      ELSE "Drop")
  /\ UNCHANGED <<lockVars, layerVars, callVars, ref, dying>>

\* As a bug would have it: the outcome is not looked at.
WaitOnly(t) ==
  /\ Goto(t, "WaitForInitialization", "Out")
  /\ complete[ref[t]]
  /\ UNCHANGED <<lockVars, layerVars, callVars, ref, dying>>

\* _WaitForInitializationAndCheckIfSuccessful
Wait(t) ==
  /\ Goto(t, "WaitForInitialization", IF Successful(t) THEN "Out" ELSE "Drop")
  /\ complete[ref[t]]
  /\ UNCHANGED <<lockVars, layerVars, callVars, ref, dying>>

-----------------------------------------------------------------------------
(* Opening and creating a layer, with the registry locked.                 *)

\* As a bug would have it: the lock is kept.
OpenFailsLocked(t) ==
  /\ Goto(t, "Open", "Out")
  /\ wanted[t] \in Missing
  /\ UNCHANGED <<lockVars, layerVars, callVars, ref, dying>>

OpenFails(t) ==
  /\ Goto(t, "Open", "Out")
  /\ wanted[t] \in Missing
  /\ Unlock(t)
  /\ UNCHANGED <<layerVars, callVars, ref, dying>>

\* The constructor registers the layer, not yet initialized.
NewLayer(t, l) ==
  /\ life[l] = "Unused"
  /\ life' = [life EXCEPT ![l] = "Alive"]
  /\ identifier' = [identifier EXCEPT ![l] = wanted[t]]
  /\ registry' = [registry EXCEPT ![wanted[t]] = l]
  /\ ref' = [ref EXCEPT ![t] = l]
  /\ UNCHANGED <<initVars, callVars, dying>>

\* FindOrOpen releases the lock before it reads the file.
Open(t, l) ==
  /\ Goto(t, "Open", "Read")
  /\ wanted[t] \notin Missing
  /\ NewLayer(t, l)
  /\ Unlock(t)

\* CreateNew keeps it until the layer is saved.
CreateNewExists(t) ==
  /\ Goto(t, "Create", "Out")
  /\ Entry(t) # None
  /\ Unlock(t)
  /\ UNCHANGED <<layerVars, callVars, ref, dying>>

CreateNew(t, l) ==
  /\ Goto(t, "Create", "Save")
  /\ Entry(t) = None
  /\ NewLayer(t, l)
  /\ UNCHANGED lockVars

\* _FinishInitialization sets the outcome ...
Finish(t, outcome) ==
  /\ pc[t] \in {"Read", "Save"}
  /\ outcome \/ (pc[t] = "Read" /\ wanted[t] \in Unreadable)
  /\ success' = [success EXCEPT ![ref[t]] = outcome]
  /\ pc' = [pc EXCEPT ![t] = "Finish"]
  /\ UNCHANGED <<lockVars, registry, identifier, life, complete, callVars, ref,
                 dying>>

\* As a bug would have it: a failure is not published.
PublishSuccessOnly(t) ==
  /\ Goto(t, "Finish", IF Successful(t) THEN "Out" ELSE "Drop")
  /\ complete' = [complete EXCEPT ![ref[t]] = Successful(t)]
  /\ IF call[t] = "CreateNew" THEN Unlock(t) ELSE UNCHANGED lockVars
  /\ UNCHANGED <<registry, identifier, life, success, callVars, ref, dying>>

\* ... then unblocks the waiting threads.  CreateNew unlocks the registry.
Publish(t) ==
  /\ Goto(t, "Finish", IF Successful(t) THEN "Out" ELSE "Drop")
  /\ complete' = [complete EXCEPT ![ref[t]] = TRUE]
  /\ IF call[t] = "CreateNew" THEN Unlock(t) ELSE UNCHANGED lockVars
  /\ UNCHANGED <<registry, identifier, life, success, callVars, ref, dying>>

\* _Save returns false: the lock is released, then the reference dropped.
SaveFails(t) ==
  /\ wanted[t] \in Unsavable
  /\ Goto(t, "Save", "Drop")
  /\ Unlock(t)
  /\ UNCHANGED <<layerVars, callVars, ref, dying>>

\* _Read throws, and FindOrOpen catches the exception.
ReadThrows(t) ==
  /\ wanted[t] \in Throwing
  /\ Goto(t, "Read", "Drop")
  /\ UNCHANGED <<lockVars, layerVars, callVars, ref, dying>>

-----------------------------------------------------------------------------
(* Dropping a reference, and ~SdfLayer.                                    *)

\* A call that failed drops its reference; a caller drops it at any time.
Drop(t) ==
  /\ pc[t] \in {"Out", "Drop"}
  /\ ref[t] # None
  /\ ref' = [ref EXCEPT ![t] = None]
  /\ IF Holders(ref[t]) = {t}
     THEN /\ life' = [life EXCEPT ![ref[t]] = "Expiring"]
          /\ dying' = [dying EXCEPT ![t] = ref[t]]
          /\ pc' = [pc EXCEPT ![t] = "WantDestroy"]
          /\ queue' = Append(queue, t)
     ELSE /\ pc' = [pc EXCEPT ![t] = "Out"]
          /\ UNCHANGED <<life, dying, queue>>
  /\ UNCHANGED <<readers, writer, registry, identifier, initVars, callVars>>

AcquireDestroy(t) ==
  /\ Goto(t, "WantDestroy", "Destroy")
  /\ LockWrite(t)
  /\ UNCHANGED <<layerVars, callVars, ref, dying>>

\* As a bug would have it: the entry is erased whichever layer it is of.
DestroyEntry(t) ==
  /\ Goto(t, "Destroy", "Out")
  /\ registry' = [registry EXCEPT ![identifier[dying[t]]] = None]
  /\ life' = [life EXCEPT ![dying[t]] = "Destroyed"]
  /\ dying' = [dying EXCEPT ![t] = None]
  /\ Unlock(t)
  /\ UNCHANGED <<identifier, initVars, callVars, ref>>

\* FindOrOpen may have erased the layer already, and registered another one.
Destroy(t) ==
  /\ Goto(t, "Destroy", "Out")
  /\ registry' = [registry EXCEPT ![identifier[dying[t]]] =
                    IF @ = dying[t] THEN None ELSE @]
  /\ life' = [life EXCEPT ![dying[t]] = "Destroyed"]
  /\ dying' = [dying EXCEPT ![t] = None]
  /\ Unlock(t)
  /\ UNCHANGED <<identifier, initVars, callVars, ref>>

-----------------------------------------------------------------------------
Acquire(t) == AcquireRead(t) \/ AcquireWrite(t) \/ AcquireDestroy(t)

Step(t) == \/ UpgradeAtOnce(t) \/ UpgradeReleased(t)
           \/ Take(t) \/ NeedsWriter(t) \/ NotFound(t) \/ Evict(t) \/ Wait(t)
           \/ OpenFails(t) \/ CreateNewExists(t)
           \/ (\E l \in Layers : Open(t, l) \/ CreateNew(t, l))
           \/ (\E outcome \in BOOLEAN : Finish(t, outcome))
           \/ Publish(t) \/ SaveFails(t) \/ ReadThrows(t)
           \/ (pc[t] = "Drop" /\ Drop(t))
           \/ Destroy(t)

Calls(t) == \/ \E c \in {"FindOrOpen", "Find", "CreateNew"}, i \in Identifiers :
                 Call(t, c, i)
            \/ (pc[t] = "Out" /\ Drop(t))

Initializing(t) == pc[t] \in {"Read", "Save", "Finish"}

\* A thread that waits for a layer nobody initializes waits for ever.
Stuck(t) == /\ pc[t] = "WaitForInitialization"
            /\ ~complete[ref[t]]
            /\ \A u \in Holders(ref[t]) : ~Initializing(u)

\* No calls are left to make: the bound on layers is reached.
Resting == /\ \A t \in Threads : Stuck(t) \/ (pc[t] = "Out" /\ ref[t] = None)
           /\ Cardinality(Unused) <= Cardinality(Busy)
           /\ UNCHANGED vars

Next == (\E t \in Threads : Acquire(t) \/ Step(t) \/ Calls(t)) \/ Resting

\* Threads run.  When a caller calls, and when it drops a layer, is up to the
\* caller.
Fairness == \A t \in Threads : WF_vars(Acquire(t) \/ Step(t))

Spec == Init /\ [][Next]_vars
FairSpec == Spec /\ Fairness

-----------------------------------------------------------------------------
(* Properties.                                                             *)

Locked == {"FindAsReader", "FindAsWriter", "Upgrade", "Found", "Open", "Create",
           "Save", "Destroy"}

TypeOK ==
  /\ readers \subseteq Threads
  /\ writer \in Threads \cup {None}
  /\ queue \in Seq(Threads)
  /\ registry \in [Identifiers -> Layers \cup {None}]
  /\ identifier \in [Layers -> Identifiers \cup {None}]
  /\ life \in [Layers -> {"Unused", "Alive", "Expiring", "Destroyed"}]
  /\ complete \in [Layers -> BOOLEAN]
  /\ success \in [Layers -> BOOLEAN \cup {None}]
  /\ pc \in [Threads -> Locked \cup {"Out", "WantRead", "WantWrite", "Read",
                                     "WaitForInitialization", "Finish", "Drop",
                                     "WantDestroy"}]
  /\ call \in [Threads -> {"None", "FindOrOpen", "Find", "CreateNew"}]
  /\ wanted \in [Threads -> Identifiers \cup {None}]
  /\ ref \in [Threads -> Layers \cup {None}]
  /\ dying \in [Threads -> Layers \cup {None}]

\* Two threads that open, create, find or destroy a layer at the same time never
\* end up with two live layers for one identifier, nor with a live layer that
\* nobody can find because another one's destructor erased its entry.
OneLayer == \A l \in Layers : life[l] = "Alive" => registry[identifier[l]] = l

\* The registry has weak pointers, which _TryToFindLayer turns into references
\* under the lock: none of them outlives the destructor, and no reference is
\* taken to a layer that expires.
NoDanglingEntry ==
  /\ \A i \in Identifiers :
       registry[i] # None => life[registry[i]] \in {"Alive", "Expiring"}
  /\ \A t \in Threads : ref[t] # None => life[ref[t]] = "Alive"

\* A caller never gets a layer whose initialization has not ended, or has failed,
\* be it its own, one that another thread opens, or one that is being created.
OnlyInitialized ==
  \A t \in Threads : pc[t] = "Out" /\ ref[t] # None =>
    complete[ref[t]] /\ Successful(t)

\* layer.cpp: "we need to be sure to call layer->_FinishInitialization() with
\* either success or failure, in order to unblock any other threads waiting for
\* initialization to finish."  Whoever waits for a layer waits for a thread that
\* is still at it.
WaitersAreUnblocked ==
  \A t \in Threads : ~Stuck(t)

\* The two ways out that forget the waiting threads are the only ones: whoever
\* waits for a layer that is saved without fail, and read without an exception,
\* waits for a thread that is still at it.
OthersAreUnblocked ==
  \A t \in Threads :
    Stuck(t) => identifier[ref[t]] \in Unsavable \cup Throwing

\* layer.cpp, where the save of a new layer has failed: "Dropping the layer
\* reference will destroy it, and the destructor will remove it from the
\* registry."
DroppedIsDestroyed ==
  [][\A t \in Threads :
       (call[t] = "CreateNew" /\ pc[t] = "Drop" /\ pc'[t] # "Drop")
         => life'[ref[t]] = "Expiring"]_vars

\* Every call returns, and every destructor ends, save for the calls that wait
\* for a layer whose initialization was given up.
CallsReturn == \A t \in Threads : pc[t] # "Out" ~> pc[t] = "Out" \/ Stuck(t)
=============================================================================
