---------------------- MODULE SdfLayerRegistry_proofs -----------------------
(***************************************************************************)
(* Proofs about SdfLayerRegistry, for any threads, identifiers and layers. *)
(***************************************************************************)
EXTENDS SdfLayerRegistry, TLAPS

-----------------------------------------------------------------------------
(* The inductive invariant.                                                *)

HoldsRead(t) == pc[t] \in {"FindAsReader", "Upgrade"}
HoldsWrite(t) ==
  \/ pc[t] \in {"FindAsWriter", "Found", "Open", "Create", "Save", "Destroy"}
  \/ pc[t] = "Finish" /\ call[t] = "CreateNew"

\* The mutex is held by the threads that are where the code holds it.
LockOK == /\ \A t \in Threads : t \in readers <=> HoldsRead(t)
          /\ \A t \in Threads : writer = t <=> HoldsWrite(t)
          /\ writer # None => readers = {}

Searching(t) == pc[t] \in {"WantRead", "WantWrite", "FindAsReader", "Upgrade",
                           "FindAsWriter", "Found", "Open", "Create"}

\* What a thread holds, by where it is.
ThreadOK(t) ==
  /\ Searching(t) => ref[t] = None /\ wanted[t] \in Identifiers
  /\ pc[t] \in {"Read", "Save", "Finish", "WaitForInitialization", "Drop"} =>
       ref[t] # None
  /\ pc[t] \in {"WantDestroy", "Destroy"} => ref[t] = None
  /\ dying[t] # None <=> pc[t] \in {"WantDestroy", "Destroy"}
  /\ ref[t] # None => life[ref[t]] = "Alive"
  /\ dying[t] # None => life[dying[t]] = "Expiring"
  /\ pc[t] \in {"WantRead", "FindAsReader", "Upgrade", "FindAsWriter", "Found",
                "Open", "Read"} => call[t] # "CreateNew"
  /\ pc[t] \in {"Create", "Save"} => call[t] = "CreateNew"

\* What a thread found under the lock is still so.
FoundOK(t) ==
  /\ pc[t] \in {"Upgrade", "Found"} => ~EntryIs(t, "Alive")
  /\ pc[t] = "Open" => Entry(t) = None

\* What a thread knows of the initialization of its layer.
KnowsOK(t) ==
  /\ Initializing(t) => ~complete[ref[t]]
  /\ pc[t] = "Finish" => success[ref[t]] # None
  /\ pc[t] = "Out" /\ ref[t] # None => complete[ref[t]] /\ Successful(t)

\* One thread initializes a layer, and one destroys it.
Exclusive(t, u) ==
  t # u => /\ Initializing(t) /\ Initializing(u) => ref[t] # ref[u]
           /\ dying[t] # None => dying[t] # dying[u]

LayerOK(l) ==
  /\ life[l] \in {"Alive", "Expiring"} => identifier[l] \in Identifiers
  /\ life[l] = "Alive" => registry[identifier[l]] = l
  /\ life[l] = "Unused" => ~complete[l]
  /\ complete[l] => success[l] # None

EntryOK(i) ==
  registry[i] # None => /\ life[registry[i]] \in {"Alive", "Expiring"}
                        /\ identifier[registry[i]] = i

IInv == /\ TypeOK
        /\ LockOK
        /\ \A t \in Threads : ThreadOK(t) /\ FoundOK(t) /\ KnowsOK(t)
        /\ \A t, u \in Threads : Exclusive(t, u)
        /\ \A l \in Layers : LayerOK(l)
        /\ \A i \in Identifiers : EntryOK(i)

\* A layer whose initialization may be given up without a word.
Abandonable(l) == identifier[l] \in Unsavable \cup Throwing

\* Any other layer that is not yet initialized has a thread that initializes it,
InProgress(l) ==
  life[l] = "Alive" /\ ~complete[l] /\ ~Abandonable(l) =>
    \E u \in Threads : Initializing(u) /\ ref[u] = l

\* and is dropped by a call that failed only when it is initialized.
NoneDropped(t) == pc[t] = "Drop" => complete[ref[t]] \/ Abandonable(ref[t])

\* The layer a thread initializes has the identifier it asked for.
AsWanted(t) == Initializing(t) => identifier[ref[t]] = wanted[t]

Progress == /\ \A l \in Layers : InProgress(l)
            /\ \A t \in Threads : NoneDropped(t) /\ AsWanted(t)

PInv == IInv /\ Progress

-----------------------------------------------------------------------------
(* Every action preserves the invariant.                                   *)

\* What layers and the registry have in common does not depend on the threads.
LEMMA LayersUntouched ==
  ASSUME IInv, UNCHANGED layerVars
  PROVE  (\A l \in Layers : LayerOK(l)') /\ (\A i \in Identifiers : EntryOK(i)')
BY DEF IInv, LayerOK, EntryOK, layerVars, initVars

\* A call begins outside of the lock.
LEMMA CallPreserves ==
  ASSUME IInv, NEW t \in Threads,
         NEW c \in {"FindOrOpen", "Find", "CreateNew"}, NEW i \in Identifiers,
         Call(t, c, i)
  PROVE  IInv'
<1>1. TypeOK'
  BY DEF IInv, TypeOK, Goto, Call, layerVars, initVars
<1>2. LockOK'
  BY DEF IInv, TypeOK, LockOK, HoldsRead, HoldsWrite, ThreadOK, Goto, Call,
     initVars
<1>3. ASSUME NEW u \in Threads PROVE ThreadOK(u)'
  BY DEF IInv, TypeOK, ThreadOK, Searching, Goto, Call, layerVars, initVars
<1>4. ASSUME NEW u \in Threads PROVE FoundOK(u)'
  BY DEF IInv, TypeOK, ThreadOK, FoundOK, Entry, EntryIs, LayerOK, Goto, Call,
     layerVars
<1>5. ASSUME NEW u \in Threads PROVE KnowsOK(u)'
  BY DEF IInv, TypeOK, ThreadOK, KnowsOK, Exclusive, Initializing, Successful,
     Goto, Call, layerVars, initVars
<1>6. ASSUME NEW u \in Threads, NEW v \in Threads PROVE Exclusive(u, v)'
  BY DEF IInv, TypeOK, Searching, Exclusive, Initializing, Goto, Call
<1>7. (\A m \in Layers : LayerOK(m)') /\ (\A j \in Identifiers : EntryOK(j)')
  BY LayersUntouched DEF Call
<1>8. QED
  BY <1>1, <1>2, <1>3, <1>4, <1>5, <1>6, <1>7 DEF IInv

\* A reader is let in when there is no writer.
LEMMA AcquireReadPreserves ==
  ASSUME IInv, NEW t \in Threads, AcquireRead(t)
  PROVE  IInv'
<1>1. TypeOK'
  BY DEF IInv, TypeOK, Locked, Goto, AcquireRead, LockRead, First, layerVars,
     initVars, callVars
<1>2. LockOK'
  BY DEF IInv, TypeOK, LockOK, HoldsRead, HoldsWrite, ThreadOK, Goto,
     AcquireRead, LockRead, layerVars, initVars, callVars
<1>3. ASSUME NEW u \in Threads PROVE ThreadOK(u)'
  BY DEF IInv, TypeOK, ThreadOK, Searching, Goto, AcquireRead, layerVars,
     initVars, callVars
<1>4. ASSUME NEW u \in Threads PROVE FoundOK(u)'
  BY DEF IInv, TypeOK, ThreadOK, FoundOK, Entry, EntryIs, LayerOK, Goto,
     AcquireRead, layerVars, initVars, callVars
<1>5. ASSUME NEW u \in Threads PROVE KnowsOK(u)'
  BY DEF IInv, TypeOK, ThreadOK, KnowsOK, Exclusive, Initializing, Successful,
     Goto, AcquireRead, layerVars, initVars
<1>6. ASSUME NEW u \in Threads, NEW v \in Threads PROVE Exclusive(u, v)'
  BY DEF IInv, TypeOK, Searching, Exclusive, Initializing, Goto, AcquireRead,
     callVars
<1>7. (\A m \in Layers : LayerOK(m)') /\ (\A j \in Identifiers : EntryOK(j)')
  BY LayersUntouched DEF AcquireRead
<1>8. QED
  BY <1>1, <1>2, <1>3, <1>4, <1>5, <1>6, <1>7 DEF IInv

\* A writer is let in when there is nobody.
LEMMA AcquireWritePreserves ==
  ASSUME IInv, NEW t \in Threads, AcquireWrite(t)
  PROVE  IInv'
<1>1. TypeOK'
  BY DEF IInv, TypeOK, Locked, Goto, AcquireWrite, LockWrite, First, layerVars,
     initVars, callVars
<1>2. LockOK'
  BY LayersAssumption DEF IInv, TypeOK, LockOK, HoldsRead, HoldsWrite, ThreadOK,
     Goto, AcquireWrite, LockWrite, layerVars, initVars, callVars
<1>3. ASSUME NEW u \in Threads PROVE ThreadOK(u)'
  BY LayersAssumption DEF IInv, TypeOK, ThreadOK, Searching, Goto, AcquireWrite,
     layerVars, initVars, callVars
<1>4. ASSUME NEW u \in Threads PROVE FoundOK(u)'
  BY DEF IInv, TypeOK, ThreadOK, FoundOK, Entry, EntryIs, LayerOK, Goto,
     AcquireWrite, layerVars, initVars, callVars
<1>5. ASSUME NEW u \in Threads PROVE KnowsOK(u)'
  BY DEF IInv, TypeOK, ThreadOK, KnowsOK, Exclusive, Initializing, Successful,
     Goto, AcquireWrite, layerVars, initVars
<1>6. ASSUME NEW u \in Threads, NEW v \in Threads PROVE Exclusive(u, v)'
  BY DEF IInv, TypeOK, Searching, Exclusive, Initializing, Goto, AcquireWrite,
     callVars
<1>7. (\A m \in Layers : LayerOK(m)') /\ (\A j \in Identifiers : EntryOK(j)')
  BY LayersUntouched DEF AcquireWrite
<1>8. QED
  BY <1>1, <1>2, <1>3, <1>4, <1>5, <1>6, <1>7 DEF IInv

\* So is a destructor.
LEMMA AcquireDestroyPreserves ==
  ASSUME IInv, NEW t \in Threads, AcquireDestroy(t)
  PROVE  IInv'
<1>1. TypeOK'
  BY DEF IInv, TypeOK, Locked, Goto, AcquireDestroy, LockWrite, First,
     layerVars, initVars, callVars
<1>2. LockOK'
  BY LayersAssumption DEF IInv, TypeOK, LockOK, HoldsRead, HoldsWrite, ThreadOK,
     Goto, AcquireDestroy, LockWrite, layerVars, initVars, callVars
<1>3. ASSUME NEW u \in Threads PROVE ThreadOK(u)'
  BY LayersAssumption DEF IInv, TypeOK, ThreadOK, Searching, Goto,
     AcquireDestroy, layerVars, initVars, callVars
<1>4. ASSUME NEW u \in Threads PROVE FoundOK(u)'
  BY DEF IInv, TypeOK, ThreadOK, FoundOK, Entry, EntryIs, LayerOK, Goto,
     AcquireDestroy, layerVars, initVars, callVars
<1>5. ASSUME NEW u \in Threads PROVE KnowsOK(u)'
  BY DEF IInv, TypeOK, ThreadOK, KnowsOK, Exclusive, Initializing, Successful,
     Goto, AcquireDestroy, layerVars, initVars
<1>6. ASSUME NEW u \in Threads, NEW v \in Threads PROVE Exclusive(u, v)'
  BY DEF IInv, TypeOK, Searching, Exclusive, Initializing, Goto, AcquireDestroy,
     callVars
<1>7. (\A m \in Layers : LayerOK(m)') /\ (\A j \in Identifiers : EntryOK(j)')
  BY LayersUntouched DEF AcquireDestroy
<1>8. QED
  BY <1>1, <1>2, <1>3, <1>4, <1>5, <1>6, <1>7 DEF IInv

\* The only reader becomes the writer; what it found is still so.
LEMMA UpgradeAtOncePreserves ==
  ASSUME IInv, NEW t \in Threads, UpgradeAtOnce(t)
  PROVE  IInv'
<1>1. TypeOK'
  BY DEF IInv, TypeOK, Locked, Goto, UpgradeAtOnce, layerVars, initVars,
     callVars
<1>2. LockOK'
  BY LayersAssumption DEF IInv, TypeOK, LockOK, HoldsRead, HoldsWrite, ThreadOK,
     Goto, UpgradeAtOnce, initVars, callVars
<1>3. ASSUME NEW u \in Threads PROVE ThreadOK(u)'
  BY LayersAssumption DEF IInv, TypeOK, ThreadOK, Searching, Goto,
     UpgradeAtOnce, layerVars, initVars, callVars
<1>4. ASSUME NEW u \in Threads PROVE FoundOK(u)'
  BY DEF IInv, TypeOK, ThreadOK, FoundOK, Entry, EntryIs, LayerOK, Goto,
     UpgradeAtOnce, layerVars, initVars, callVars
<1>5. ASSUME NEW u \in Threads PROVE KnowsOK(u)'
  BY DEF IInv, TypeOK, ThreadOK, KnowsOK, Exclusive, Initializing, Successful,
     Goto, UpgradeAtOnce, layerVars, initVars
<1>6. ASSUME NEW u \in Threads, NEW v \in Threads PROVE Exclusive(u, v)'
  BY DEF IInv, TypeOK, Searching, Exclusive, Initializing, Goto, UpgradeAtOnce,
     callVars
<1>7. (\A m \in Layers : LayerOK(m)') /\ (\A j \in Identifiers : EntryOK(j)')
  BY LayersUntouched DEF UpgradeAtOnce
<1>8. QED
  BY <1>1, <1>2, <1>3, <1>4, <1>5, <1>6, <1>7 DEF IInv

\* A reader that lets go of the lock knows nothing.
LEMMA UpgradeReleasedPreserves ==
  ASSUME IInv, NEW t \in Threads, UpgradeReleased(t)
  PROVE  IInv'
<1>1. TypeOK'
  BY DEF IInv, TypeOK, Goto, UpgradeReleased, layerVars, initVars, callVars
<1>2. LockOK'
  BY DEF IInv, TypeOK, LockOK, HoldsRead, HoldsWrite, ThreadOK, Goto,
     UpgradeReleased, initVars, callVars
<1>3. ASSUME NEW u \in Threads PROVE ThreadOK(u)'
  BY DEF IInv, TypeOK, ThreadOK, Searching, Goto, UpgradeReleased, layerVars,
     initVars, callVars
<1>4. ASSUME NEW u \in Threads PROVE FoundOK(u)'
  BY DEF IInv, TypeOK, ThreadOK, FoundOK, Entry, EntryIs, LayerOK, Goto,
     UpgradeReleased, layerVars, initVars, callVars
<1>5. ASSUME NEW u \in Threads PROVE KnowsOK(u)'
  BY DEF IInv, TypeOK, ThreadOK, KnowsOK, Exclusive, Initializing, Successful,
     Goto, UpgradeReleased, layerVars, initVars
<1>6. ASSUME NEW u \in Threads, NEW v \in Threads PROVE Exclusive(u, v)'
  BY DEF IInv, TypeOK, Searching, Exclusive, Initializing, Goto,
     UpgradeReleased, callVars
<1>7. (\A m \in Layers : LayerOK(m)') /\ (\A j \in Identifiers : EntryOK(j)')
  BY LayersUntouched DEF UpgradeReleased
<1>8. QED
  BY <1>1, <1>2, <1>3, <1>4, <1>5, <1>6, <1>7 DEF IInv

\* A live layer stays one with one more holder.
LEMMA TakePreserves ==
  ASSUME IInv, NEW t \in Threads, Take(t)
  PROVE  IInv'
<1>1. TypeOK'
  BY DEF IInv, TypeOK, ThreadOK, Searching, Entry, Goto, Take, Finding, Unlock,
     layerVars, initVars, callVars
<1>2. LockOK'
  BY LayersAssumption DEF IInv, TypeOK, LockOK, HoldsRead, HoldsWrite, ThreadOK,
     Goto, Take, Finding, Unlock, layerVars, initVars, callVars
<1>3. ASSUME NEW u \in Threads PROVE ThreadOK(u)'
  BY LayersAssumption DEF IInv, TypeOK, ThreadOK, Searching, EntryIs, Goto,
     Take, Finding, layerVars, initVars, callVars
<1>4. ASSUME NEW u \in Threads PROVE FoundOK(u)'
  BY DEF IInv, TypeOK, ThreadOK, FoundOK, Entry, EntryIs, LayerOK, EntryOK,
     Goto, Take, layerVars, initVars, callVars
<1>5. ASSUME NEW u \in Threads PROVE KnowsOK(u)'
  BY DEF IInv, TypeOK, ThreadOK, KnowsOK, Exclusive, Initializing, Successful,
     Goto, Take, layerVars, initVars
<1>6. ASSUME NEW u \in Threads, NEW v \in Threads PROVE Exclusive(u, v)'
  BY DEF IInv, TypeOK, Searching, Exclusive, Initializing, Goto, Take, Finding,
     callVars
<1>7. (\A m \in Layers : LayerOK(m)') /\ (\A j \in Identifiers : EntryOK(j)')
  BY LayersUntouched DEF Take
<1>8. QED
  BY <1>1, <1>2, <1>3, <1>4, <1>5, <1>6, <1>7 DEF IInv

\* What a reader found stays so while it reads.
LEMMA NeedsWriterPreserves ==
  ASSUME IInv, NEW t \in Threads, NeedsWriter(t)
  PROVE  IInv'
<1>1. TypeOK'
  BY DEF IInv, TypeOK, Locked, Goto, NeedsWriter, lockVars, layerVars, initVars,
     callVars
<1>2. LockOK'
  BY DEF IInv, TypeOK, LockOK, HoldsRead, HoldsWrite, ThreadOK, Goto,
     NeedsWriter, lockVars, initVars, callVars
<1>3. ASSUME NEW u \in Threads PROVE ThreadOK(u)'
  BY DEF IInv, TypeOK, ThreadOK, Searching, Goto, NeedsWriter, layerVars,
     initVars, callVars
<1>4. ASSUME NEW u \in Threads PROVE FoundOK(u)'
  BY DEF IInv, TypeOK, ThreadOK, FoundOK, Entry, EntryIs, LayerOK, Goto,
     NeedsWriter, layerVars, initVars, callVars
<1>5. ASSUME NEW u \in Threads PROVE KnowsOK(u)'
  BY DEF IInv, TypeOK, ThreadOK, KnowsOK, Exclusive, Initializing, Successful,
     Goto, NeedsWriter, layerVars, initVars
<1>6. ASSUME NEW u \in Threads, NEW v \in Threads PROVE Exclusive(u, v)'
  BY DEF IInv, TypeOK, Searching, Exclusive, Initializing, Goto, NeedsWriter,
     callVars
<1>7. (\A m \in Layers : LayerOK(m)') /\ (\A j \in Identifiers : EntryOK(j)')
  BY LayersUntouched DEF NeedsWriter
<1>8. QED
  BY <1>1, <1>2, <1>3, <1>4, <1>5, <1>6, <1>7 DEF IInv

\* A search that finds nothing gives up the lock and changes nothing.
LEMMA NotFoundPreserves ==
  ASSUME IInv, NEW t \in Threads, NotFound(t)
  PROVE  IInv'
<1>1. TypeOK'
  BY DEF IInv, TypeOK, Goto, NotFound, Unlock, layerVars, initVars, callVars
<1>2. LockOK'
  BY DEF IInv, TypeOK, LockOK, HoldsRead, HoldsWrite, ThreadOK, Goto, NotFound,
     Unlock, initVars, callVars
<1>3. ASSUME NEW u \in Threads PROVE ThreadOK(u)'
  BY DEF IInv, TypeOK, ThreadOK, Searching, Goto, NotFound, layerVars, initVars,
     callVars
<1>4. ASSUME NEW u \in Threads PROVE FoundOK(u)'
  BY DEF IInv, TypeOK, ThreadOK, FoundOK, Entry, EntryIs, LayerOK, Goto,
     NotFound, layerVars, initVars, callVars
<1>5. ASSUME NEW u \in Threads PROVE KnowsOK(u)'
  BY DEF IInv, TypeOK, ThreadOK, Searching, KnowsOK, Exclusive, Initializing,
     Successful, Goto, NotFound, layerVars, initVars
<1>6. ASSUME NEW u \in Threads, NEW v \in Threads PROVE Exclusive(u, v)'
  BY DEF IInv, TypeOK, ThreadOK, Searching, Exclusive, Initializing, Goto,
     NotFound, layerVars, callVars
<1>7. (\A m \in Layers : LayerOK(m)') /\ (\A j \in Identifiers : EntryOK(j)')
  BY LayersUntouched DEF NotFound
<1>8. QED
  BY <1>1, <1>2, <1>3, <1>4, <1>5, <1>6, <1>7 DEF IInv

\* The erased entry is that of no live layer.
LEMMA EvictPreserves ==
  ASSUME IInv, NEW t \in Threads, Evict(t)
  PROVE  IInv'
<1>1. TypeOK'
  BY DEF IInv, TypeOK, Locked, Successful, Goto, Evict, Unlock, lockVars,
     initVars, callVars
<1>2. LockOK'
  BY LayersAssumption DEF IInv, TypeOK, LockOK, HoldsRead, HoldsWrite, ThreadOK,
     Searching, Goto, Evict, Unlock, lockVars, initVars, callVars
<1>3. ASSUME NEW u \in Threads PROVE ThreadOK(u)'
  BY LayersAssumption DEF IInv, TypeOK, ThreadOK, Searching, Goto, Evict,
     initVars, callVars
<1>4. ASSUME NEW u \in Threads PROVE FoundOK(u)'
  BY DEF IInv, TypeOK, ThreadOK, Searching, FoundOK, Entry, EntryIs, LayerOK,
     Goto, Evict, callVars
<1>5. ASSUME NEW u \in Threads PROVE KnowsOK(u)'
  BY DEF IInv, TypeOK, ThreadOK, Searching, KnowsOK, Exclusive, Initializing,
     Successful, LayerOK, Goto, Evict, initVars, callVars
<1>6. ASSUME NEW u \in Threads, NEW v \in Threads PROVE Exclusive(u, v)'
  BY DEF IInv, TypeOK, ThreadOK, Searching, Exclusive, Initializing, Goto,
     Evict, callVars
<1>7. ASSUME NEW m \in Layers PROVE LayerOK(m)'
  BY DEF IInv, TypeOK, Searching, FoundOK, Entry, EntryIs, Initializing,
     LayerOK, Goto, Evict, initVars
<1>8. ASSUME NEW j \in Identifiers PROVE EntryOK(j)'
  BY DEF IInv, TypeOK, ThreadOK, EntryOK, LayerOK, Goto, Evict, callVars
<1>9. QED
  BY <1>1, <1>2, <1>3, <1>4, <1>5, <1>6, <1>7, <1>8 DEF IInv

\* Who waited for a layer goes on with it only when it is complete and successful.
LEMMA WaitPreserves ==
  ASSUME IInv, NEW t \in Threads, Wait(t)
  PROVE  IInv'
<1>1. TypeOK'
  BY DEF IInv, TypeOK, Goto, Wait, lockVars, layerVars, initVars, callVars
<1>2. LockOK'
  BY DEF IInv, TypeOK, LockOK, HoldsRead, HoldsWrite, ThreadOK, Goto, Wait,
     lockVars, initVars, callVars
<1>3. ASSUME NEW u \in Threads PROVE ThreadOK(u)'
  BY DEF IInv, TypeOK, ThreadOK, Searching, Goto, Wait, layerVars, initVars,
     callVars
<1>4. ASSUME NEW u \in Threads PROVE FoundOK(u)'
  BY DEF IInv, TypeOK, ThreadOK, FoundOK, Entry, EntryIs, LayerOK, Goto, Wait,
     layerVars, initVars, callVars
<1>5. ASSUME NEW u \in Threads PROVE KnowsOK(u)'
  BY DEF IInv, TypeOK, ThreadOK, KnowsOK, Exclusive, Initializing, Successful,
     Goto, Wait, layerVars, initVars
<1>6. ASSUME NEW u \in Threads, NEW v \in Threads PROVE Exclusive(u, v)'
  BY DEF IInv, TypeOK, Searching, Exclusive, Initializing, Goto, Wait, callVars
<1>7. (\A m \in Layers : LayerOK(m)') /\ (\A j \in Identifiers : EntryOK(j)')
  BY LayersUntouched DEF Wait
<1>8. QED
  BY <1>1, <1>2, <1>3, <1>4, <1>5, <1>6, <1>7 DEF IInv

\* Nothing was registered, so that the lock is all there is to give up.
LEMMA OpenFailsPreserves ==
  ASSUME IInv, NEW t \in Threads, OpenFails(t)
  PROVE  IInv'
<1>1. TypeOK'
  BY DEF IInv, TypeOK, Goto, OpenFails, Unlock, layerVars, initVars, callVars
<1>2. LockOK'
  BY LayersAssumption DEF IInv, TypeOK, LockOK, HoldsRead, HoldsWrite, ThreadOK,
     Goto, OpenFails, Unlock, initVars, callVars
<1>3. ASSUME NEW u \in Threads PROVE ThreadOK(u)'
  BY LayersAssumption DEF IInv, TypeOK, ThreadOK, Searching, Goto, OpenFails,
     layerVars, initVars, callVars
<1>4. ASSUME NEW u \in Threads PROVE FoundOK(u)'
  BY DEF IInv, TypeOK, ThreadOK, FoundOK, Entry, EntryIs, LayerOK, Goto,
     OpenFails, layerVars, initVars, callVars
<1>5. ASSUME NEW u \in Threads PROVE KnowsOK(u)'
  BY DEF IInv, TypeOK, ThreadOK, Searching, KnowsOK, Exclusive, Initializing,
     Successful, Goto, OpenFails, layerVars, initVars
<1>6. ASSUME NEW u \in Threads, NEW v \in Threads PROVE Exclusive(u, v)'
  BY DEF IInv, TypeOK, ThreadOK, Searching, Exclusive, Initializing, Goto,
     OpenFails, layerVars, callVars
<1>7. (\A m \in Layers : LayerOK(m)') /\ (\A j \in Identifiers : EntryOK(j)')
  BY LayersUntouched DEF OpenFails
<1>8. QED
  BY <1>1, <1>2, <1>3, <1>4, <1>5, <1>6, <1>7 DEF IInv

\* The writer found no entry, so it replaces none.
LEMMA OpenPreserves ==
  ASSUME IInv, NEW t \in Threads, NEW l \in Layers,
         Open(t, l)
  PROVE  IInv'
<1>1. TypeOK'
  BY DEF IInv, TypeOK, Locked, Successful, Goto, Open, NewLayer, Unlock,
     initVars, callVars
<1>2. LockOK'
  BY LayersAssumption DEF IInv, TypeOK, LockOK, HoldsRead, HoldsWrite, ThreadOK,
     Searching, Goto, Open, NewLayer, Unlock, initVars, callVars
<1>3. ASSUME NEW u \in Threads PROVE ThreadOK(u)'
  BY LayersAssumption DEF IInv, TypeOK, ThreadOK, Searching, Goto, Open,
     NewLayer, initVars, callVars
<1>4. ASSUME NEW u \in Threads PROVE FoundOK(u)'
  BY LayersAssumption DEF IInv, TypeOK, ThreadOK, LockOK, HoldsRead, HoldsWrite,
     FoundOK, Entry, LayerOK, Goto, Open, NewLayer
<1>5. ASSUME NEW u \in Threads PROVE KnowsOK(u)'
  BY LayersAssumption DEF IInv, TypeOK, KnowsOK, Initializing, Successful,
     LayerOK, Goto, Open, NewLayer, initVars, callVars
<1>6. ASSUME NEW u \in Threads, NEW v \in Threads PROVE Exclusive(u, v)'
  BY DEF IInv, TypeOK, ThreadOK, Searching, Exclusive, Initializing, Goto, Open,
     NewLayer
<1>7. ASSUME NEW m \in Layers PROVE LayerOK(m)'
  BY LayersAssumption DEF IInv, TypeOK, ThreadOK, Searching, FoundOK, Entry,
     Initializing, LayerOK, Goto, Open, NewLayer, initVars
<1>8. ASSUME NEW j \in Identifiers PROVE EntryOK(j)'
  BY LayersAssumption DEF IInv, TypeOK, Searching, EntryOK, LayerOK, Goto, Open,
     NewLayer, initVars, callVars
<1>9. QED
  BY <1>1, <1>2, <1>3, <1>4, <1>5, <1>6, <1>7, <1>8 DEF IInv

\* The same where the identifier is taken.
LEMMA CreateNewExistsPreserves ==
  ASSUME IInv, NEW t \in Threads, CreateNewExists(t)
  PROVE  IInv'
<1>1. TypeOK'
  BY DEF IInv, TypeOK, Goto, CreateNewExists, Unlock, layerVars, initVars,
     callVars
<1>2. LockOK'
  BY LayersAssumption DEF IInv, TypeOK, LockOK, HoldsRead, HoldsWrite, ThreadOK,
     Goto, CreateNewExists, Unlock, initVars, callVars
<1>3. ASSUME NEW u \in Threads PROVE ThreadOK(u)'
  BY LayersAssumption DEF IInv, TypeOK, ThreadOK, Searching, Goto,
     CreateNewExists, layerVars, initVars, callVars
<1>4. ASSUME NEW u \in Threads PROVE FoundOK(u)'
  BY DEF IInv, TypeOK, ThreadOK, FoundOK, Entry, EntryIs, LayerOK, Goto,
     CreateNewExists, layerVars, initVars, callVars
<1>5. ASSUME NEW u \in Threads PROVE KnowsOK(u)'
  BY DEF IInv, TypeOK, ThreadOK, Searching, KnowsOK, Exclusive, Initializing,
     Successful, Goto, CreateNewExists, layerVars, initVars
<1>6. ASSUME NEW u \in Threads, NEW v \in Threads PROVE Exclusive(u, v)'
  BY DEF IInv, TypeOK, ThreadOK, Searching, Exclusive, Initializing, Goto,
     CreateNewExists, layerVars, callVars
<1>7. (\A m \in Layers : LayerOK(m)') /\ (\A j \in Identifiers : EntryOK(j)')
  BY LayersUntouched DEF CreateNewExists
<1>8. QED
  BY <1>1, <1>2, <1>3, <1>4, <1>5, <1>6, <1>7 DEF IInv

\* As Open, but the lock is kept.
LEMMA CreateNewPreserves ==
  ASSUME IInv, NEW t \in Threads, NEW l \in Layers,
         CreateNew(t, l)
  PROVE  IInv'
<1>1. TypeOK'
  BY DEF IInv, TypeOK, Locked, Successful, Goto, CreateNew, NewLayer, lockVars,
     initVars, callVars
<1>2. LockOK'
  BY DEF IInv, TypeOK, LockOK, HoldsRead, HoldsWrite, ThreadOK, Searching, Goto,
     CreateNew, NewLayer, lockVars, initVars, callVars
<1>3. ASSUME NEW u \in Threads PROVE ThreadOK(u)'
  BY LayersAssumption DEF IInv, TypeOK, ThreadOK, Searching, Goto, CreateNew,
     NewLayer, initVars, callVars
<1>4. ASSUME NEW u \in Threads PROVE FoundOK(u)'
  BY LayersAssumption DEF IInv, TypeOK, ThreadOK, LockOK, HoldsRead, HoldsWrite,
     FoundOK, Entry, LayerOK, Goto, CreateNew, NewLayer
<1>5. ASSUME NEW u \in Threads PROVE KnowsOK(u)'
  BY LayersAssumption DEF IInv, TypeOK, KnowsOK, Initializing, Successful,
     LayerOK, Goto, CreateNew, NewLayer, initVars, callVars
<1>6. ASSUME NEW u \in Threads, NEW v \in Threads PROVE Exclusive(u, v)'
  BY DEF IInv, TypeOK, ThreadOK, Searching, Exclusive, Initializing, Goto,
     CreateNew, NewLayer
<1>7. ASSUME NEW m \in Layers PROVE LayerOK(m)'
  BY LayersAssumption DEF IInv, TypeOK, ThreadOK, Searching, Entry,
     Initializing, LayerOK, Goto, CreateNew, NewLayer, initVars
<1>8. ASSUME NEW j \in Identifiers PROVE EntryOK(j)'
  BY LayersAssumption DEF IInv, TypeOK, Searching, EntryOK, LayerOK, Goto,
     CreateNew, NewLayer, initVars, callVars
<1>9. QED
  BY <1>1, <1>2, <1>3, <1>4, <1>5, <1>6, <1>7, <1>8 DEF IInv

\* Only the initializing thread sets the outcome.
LEMMA FinishPreserves ==
  ASSUME IInv, NEW t \in Threads, NEW outcome \in BOOLEAN,
         Finish(t, outcome)
  PROVE  IInv'
<1>1. TypeOK'
  BY DEF IInv, TypeOK, Locked, Successful, Goto, Finish, lockVars, callVars
<1>2. LockOK'
  BY DEF IInv, TypeOK, LockOK, HoldsRead, HoldsWrite, ThreadOK, Searching, Goto,
     Finish, lockVars, callVars
<1>3. ASSUME NEW u \in Threads PROVE ThreadOK(u)'
  BY DEF IInv, TypeOK, ThreadOK, Searching, Entry, EntryIs, Goto, Finish,
     callVars
<1>4. ASSUME NEW u \in Threads PROVE FoundOK(u)'
  BY DEF IInv, TypeOK, FoundOK, Entry, EntryIs, LayerOK, Goto, Finish, callVars
<1>5. ASSUME NEW u \in Threads PROVE KnowsOK(u)'
  BY LayersAssumption DEF IInv, TypeOK, ThreadOK, KnowsOK, Exclusive,
     Initializing, Successful, Goto, Finish, callVars
<1>6. ASSUME NEW u \in Threads, NEW v \in Threads PROVE Exclusive(u, v)'
  BY LayersAssumption DEF IInv, TypeOK, Searching, Exclusive, Initializing,
     Goto, Finish
<1>7. ASSUME NEW m \in Layers PROVE LayerOK(m)'
  BY DEF IInv, TypeOK, Searching, KnowsOK, Initializing, LayerOK, Goto, Finish
<1>8. ASSUME NEW j \in Identifiers PROVE EntryOK(j)'
  BY DEF IInv, TypeOK, EntryOK, LayerOK, Goto, Finish
<1>9. QED
  BY <1>1, <1>2, <1>3, <1>4, <1>5, <1>6, <1>7, <1>8 DEF IInv

\* The outcome is there before it is published.
LEMMA PublishPreserves ==
  ASSUME IInv, NEW t \in Threads, Publish(t)
  PROVE  IInv'
<1>1. TypeOK'
  BY DEF IInv, TypeOK, Locked, Successful, Goto, Publish, Unlock, lockVars,
     callVars
<1>2. LockOK'
  BY LayersAssumption DEF IInv, TypeOK, LockOK, HoldsRead, HoldsWrite, ThreadOK,
     Searching, Goto, Publish, Unlock, lockVars, callVars
<1>3. ASSUME NEW u \in Threads PROVE ThreadOK(u)'
  BY LayersAssumption DEF IInv, TypeOK, ThreadOK, Searching, EntryIs, Goto,
     Publish, callVars
<1>4. ASSUME NEW u \in Threads PROVE FoundOK(u)'
  BY DEF IInv, TypeOK, FoundOK, Entry, EntryIs, LayerOK, Goto, Publish, callVars
<1>5. ASSUME NEW u \in Threads PROVE KnowsOK(u)'
  BY DEF IInv, TypeOK, ThreadOK, KnowsOK, Exclusive, Initializing, Successful,
     Goto, Publish, callVars
<1>6. ASSUME NEW u \in Threads, NEW v \in Threads PROVE Exclusive(u, v)'
  BY DEF IInv, TypeOK, Searching, Exclusive, Initializing, Goto, Publish,
     callVars
<1>7. ASSUME NEW m \in Layers PROVE LayerOK(m)'
  BY DEF IInv, TypeOK, ThreadOK, Searching, KnowsOK, Initializing, LayerOK,
     Goto, Publish
<1>8. ASSUME NEW j \in Identifiers PROVE EntryOK(j)'
  BY DEF IInv, TypeOK, EntryOK, LayerOK, Goto, Publish, callVars
<1>9. QED
  BY <1>1, <1>2, <1>3, <1>4, <1>5, <1>6, <1>7, <1>8 DEF IInv

\* The layer stays registered and alive until its reference is dropped.
LEMMA SaveFailsPreserves ==
  ASSUME IInv, NEW t \in Threads, SaveFails(t)
  PROVE  IInv'
<1>1. TypeOK'
  BY DEF IInv, TypeOK, Goto, SaveFails, Unlock, layerVars, initVars, callVars
<1>2. LockOK'
  BY LayersAssumption DEF IInv, TypeOK, LockOK, HoldsRead, HoldsWrite, ThreadOK,
     Goto, SaveFails, Unlock, initVars, callVars
<1>3. ASSUME NEW u \in Threads PROVE ThreadOK(u)'
  BY LayersAssumption DEF IInv, TypeOK, ThreadOK, Searching, Goto, SaveFails,
     layerVars, initVars, callVars
<1>4. ASSUME NEW u \in Threads PROVE FoundOK(u)'
  BY DEF IInv, TypeOK, ThreadOK, FoundOK, Entry, EntryIs, LayerOK, Goto,
     SaveFails, layerVars, initVars, callVars
<1>5. ASSUME NEW u \in Threads PROVE KnowsOK(u)'
  BY DEF IInv, TypeOK, ThreadOK, KnowsOK, Exclusive, Initializing, Successful,
     Goto, SaveFails, layerVars, initVars
<1>6. ASSUME NEW u \in Threads, NEW v \in Threads PROVE Exclusive(u, v)'
  BY DEF IInv, TypeOK, Searching, Exclusive, Initializing, Goto, SaveFails,
     callVars
<1>7. (\A m \in Layers : LayerOK(m)') /\ (\A j \in Identifiers : EntryOK(j)')
  BY LayersUntouched DEF SaveFails
<1>8. QED
  BY <1>1, <1>2, <1>3, <1>4, <1>5, <1>6, <1>7 DEF IInv

\* The layer stays registered and alive, and it stays incomplete.
LEMMA ReadThrowsPreserves ==
  ASSUME IInv, NEW t \in Threads, ReadThrows(t)
  PROVE  IInv'
<1>1. TypeOK'
  BY DEF IInv, TypeOK, Goto, ReadThrows, lockVars, layerVars, initVars, callVars
<1>2. LockOK'
  BY DEF IInv, TypeOK, LockOK, HoldsRead, HoldsWrite, ThreadOK, Goto,
     ReadThrows, lockVars, initVars, callVars
<1>3. ASSUME NEW u \in Threads PROVE ThreadOK(u)'
  BY DEF IInv, TypeOK, ThreadOK, Searching, Goto, ReadThrows, layerVars,
     initVars, callVars
<1>4. ASSUME NEW u \in Threads PROVE FoundOK(u)'
  BY DEF IInv, TypeOK, ThreadOK, FoundOK, Entry, EntryIs, LayerOK, Goto,
     ReadThrows, layerVars, initVars, callVars
<1>5. ASSUME NEW u \in Threads PROVE KnowsOK(u)'
  BY DEF IInv, TypeOK, ThreadOK, KnowsOK, Exclusive, Initializing, Successful,
     Goto, ReadThrows, layerVars, initVars
<1>6. ASSUME NEW u \in Threads, NEW v \in Threads PROVE Exclusive(u, v)'
  BY DEF IInv, TypeOK, Searching, Exclusive, Initializing, Goto, ReadThrows,
     callVars
<1>7. (\A m \in Layers : LayerOK(m)') /\ (\A j \in Identifiers : EntryOK(j)')
  BY LayersUntouched DEF ReadThrows
<1>8. QED
  BY <1>1, <1>2, <1>3, <1>4, <1>5, <1>6, <1>7 DEF IInv

\* The last holder expires the layer and destroys it alone.
LEMMA DropPreserves ==
  ASSUME IInv, NEW t \in Threads, Drop(t)
  PROVE  IInv'
<1>1. TypeOK'
  <2>1. ref[t] \in Layers 
    BY DEF IInv, TypeOK, Drop
  <2>2. queue' \in Seq(Threads)
    <3>1. Append(queue, t) \in Seq(Threads)
      BY DEF IInv, TypeOK
    <3>2. QED
      BY <3>1 DEF IInv, TypeOK, Drop
  <2>3. QED
    BY <2>1, <2>2 DEF IInv, TypeOK, Locked, Goto, Drop, Holders, initVars,
       callVars
<1>2. LockOK'
  BY LayersAssumption DEF IInv, TypeOK, LockOK, HoldsRead, HoldsWrite, ThreadOK,
     Searching, Goto, Drop, Holders, initVars, callVars
<1>3. ASSUME NEW u \in Threads PROVE ThreadOK(u)'
  BY LayersAssumption DEF IInv, TypeOK, ThreadOK, Searching, EntryIs, Goto,
     Drop, Holders, initVars, callVars
<1>4. ASSUME NEW u \in Threads PROVE FoundOK(u)'
  BY DEF IInv, TypeOK, ThreadOK, Searching, FoundOK, Entry, EntryIs, LayerOK,
     Goto, Drop, initVars, callVars
<1>5. ASSUME NEW u \in Threads PROVE KnowsOK(u)'
  BY DEF IInv, TypeOK, ThreadOK, KnowsOK, Exclusive, Initializing, Successful,
     LayerOK, Goto, Drop, initVars, callVars
<1>6. ASSUME NEW u \in Threads, NEW v \in Threads PROVE Exclusive(u, v)'
  BY DEF IInv, TypeOK, ThreadOK, Searching, Exclusive, Initializing, Goto, Drop,
     Holders
<1>7. ASSUME NEW m \in Layers PROVE LayerOK(m)'
  BY DEF IInv, TypeOK, ThreadOK, Searching, Entry, Initializing, LayerOK, Goto,
     Drop, initVars
<1>8. ASSUME NEW j \in Identifiers PROVE EntryOK(j)'
  BY DEF IInv, TypeOK, ThreadOK, EntryOK, LayerOK, Goto, Drop, initVars,
     callVars
<1>9. QED
  BY <1>1, <1>2, <1>3, <1>4, <1>5, <1>6, <1>7, <1>8 DEF IInv

\* The destructor erases the entry of no other layer.
LEMMA DestroyPreserves ==
  ASSUME IInv, NEW t \in Threads, Destroy(t)
  PROVE  IInv'
<1>1. TypeOK'
  BY DEF IInv, TypeOK, Locked, Successful, Goto, Destroy, Unlock, initVars,
     callVars
<1>2. LockOK'
  BY LayersAssumption DEF IInv, TypeOK, LockOK, HoldsRead, HoldsWrite, ThreadOK,
     Searching, Goto, Destroy, Unlock, initVars, callVars
<1>3. ASSUME NEW u \in Threads PROVE ThreadOK(u)'
  BY LayersAssumption DEF IInv, TypeOK, ThreadOK, Searching, Entry, EntryIs,
     Exclusive, Goto, Destroy, initVars, callVars
<1>4. ASSUME NEW u \in Threads PROVE FoundOK(u)'
  BY DEF IInv, TypeOK, ThreadOK, Searching, FoundOK, Entry, EntryIs, EntryOK,
     Goto, Destroy, callVars
<1>5. ASSUME NEW u \in Threads PROVE KnowsOK(u)'
  BY DEF IInv, TypeOK, ThreadOK, KnowsOK, Exclusive, Initializing, Successful,
     Goto, Destroy, initVars, callVars
<1>6. ASSUME NEW u \in Threads, NEW v \in Threads PROVE Exclusive(u, v)'
  BY DEF IInv, TypeOK, Searching, Exclusive, Initializing, Goto, Destroy,
     callVars
<1>7. ASSUME NEW m \in Layers PROVE LayerOK(m)'
  BY DEF IInv, TypeOK, Searching, Initializing, LayerOK, Goto, Destroy, initVars
<1>8. ASSUME NEW j \in Identifiers PROVE EntryOK(j)'
  BY DEF IInv, TypeOK, EntryOK, LayerOK, Goto, Destroy, callVars
<1>9. QED
  BY <1>1, <1>2, <1>3, <1>4, <1>5, <1>6, <1>7, <1>8 DEF IInv
-----------------------------------------------------------------------------
(* The theorems.                                                           *)

\* Initially nobody holds anything.
LEMMA InitEstablishes == Init => IInv
<1> SUFFICES ASSUME Init PROVE IInv
  OBVIOUS
<1>1. TypeOK
  BY DEF Init, TypeOK
<1>2. LockOK
  BY LayersAssumption DEF Init, LockOK, HoldsRead, HoldsWrite
<1>3. ASSUME NEW t \in Threads PROVE ThreadOK(t) /\ FoundOK(t) /\ KnowsOK(t)
  BY <1>3 DEF Init, ThreadOK, Searching, FoundOK, KnowsOK, Initializing
<1>4. ASSUME NEW t \in Threads, NEW u \in Threads PROVE Exclusive(t, u)
  BY <1>4 DEF Init, Exclusive, Initializing
<1>5. ASSUME NEW l \in Layers PROVE LayerOK(l)
  BY <1>5 DEF Init, LayerOK
<1>6. ASSUME NEW i \in Identifiers PROVE EntryOK(i)
  BY <1>6 DEF Init, EntryOK
<1>7. QED
  BY <1>1, <1>2, <1>3, <1>4, <1>5, <1>6 DEF IInv

\* Stuttering steps change nothing.
LEMMA StutterPreserves == IInv /\ UNCHANGED vars => IInv'
BY DEF IInv, TypeOK, LockOK, HoldsRead, HoldsWrite, ThreadOK, Searching,
   FoundOK, Entry, EntryIs, KnowsOK, Initializing, Successful, Exclusive,
   LayerOK, EntryOK, vars, lockVars, layerVars, initVars, callVars

\* Every step preserves the invariant, by the lemmas above.
LEMMA NextPreserves == IInv /\ [Next]_vars => IInv'
<1> SUFFICES ASSUME IInv, [Next]_vars PROVE IInv'
  OBVIOUS
<1>1. ASSUME NEW t \in Threads, Acquire(t) PROVE IInv'
  BY <1>1, AcquireReadPreserves, AcquireWritePreserves, AcquireDestroyPreserves
     DEF Acquire
<1>2. ASSUME NEW t \in Threads, Step(t) PROVE IInv'
  <2>1. ASSUME NEW l \in Layers, Open(t, l) \/ CreateNew(t, l) PROVE IInv'
    BY <2>1, OpenPreserves, CreateNewPreserves
  <2>2. ASSUME NEW outcome \in BOOLEAN, Finish(t, outcome) PROVE IInv'
    BY <2>2, FinishPreserves
  <2>3. CASE UpgradeAtOnce(t) \/ UpgradeReleased(t) \/ Take(t) \/ NeedsWriter(t)
             \/ NotFound(t) \/ Evict(t) \/ Wait(t)
    BY <2>3, UpgradeAtOncePreserves, UpgradeReleasedPreserves, TakePreserves,
       NeedsWriterPreserves, NotFoundPreserves, EvictPreserves, WaitPreserves
  <2>4. CASE OpenFails(t) \/ CreateNewExists(t) \/ Publish(t) \/ SaveFails(t)
             \/ ReadThrows(t) \/ Drop(t) \/ Destroy(t)
    BY <2>4, OpenFailsPreserves, CreateNewExistsPreserves, PublishPreserves,
       SaveFailsPreserves, ReadThrowsPreserves, DropPreserves, DestroyPreserves
  <2>5. QED
    BY <1>2, <2>1, <2>2, <2>3, <2>4 DEF Step
<1>3. ASSUME NEW t \in Threads, Calls(t) PROVE IInv'
  BY <1>3, CallPreserves, DropPreserves DEF Calls
<1>4. CASE Resting \/ UNCHANGED vars
  BY <1>4, StutterPreserves DEF Resting
<1>5. QED
  BY <1>1, <1>2, <1>3, <1>4 DEF Next

\* The inductive invariant holds in every reachable state.
THEOREM Invariance == Spec => []IInv
<1>1. QED
  BY InitEstablishes, NextPreserves, PTL DEF Spec

\* Type correctness.
THEOREM TypeCorrect == Spec => []TypeOK
<1>1. IInv => TypeOK
  BY DEF IInv
<1>2. QED
  BY <1>1, Invariance, PTL

\* The registry has every live layer under its identifier, hence one at most,
\* however opening, creating, finding and destroying interleave.
THEOREM OneLayerOnly == Spec => []OneLayer
<1>1. IInv => OneLayer
  BY DEF IInv, LayerOK, OneLayer
<1>2. QED
  BY <1>1, Invariance, PTL

\* Neither an entry of the registry nor a reference outlives its layer.
THEOREM EntriesValid == Spec => []NoDanglingEntry
<1>1. IInv => NoDanglingEntry
  BY DEF IInv, ThreadOK, EntryOK, NoDanglingEntry
<1>2. QED
  BY <1>1, Invariance, PTL

\* A caller gets initialized layers only, whatever fails.
THEOREM InitializedOnly == Spec => []OnlyInitialized
<1>1. IInv => OnlyInitialized
  BY DEF IInv, KnowsOK, OnlyInitialized
<1>2. QED
  BY <1>1, Invariance, PTL

-----------------------------------------------------------------------------
(* Whoever waits for a layer whose initialization is not given up is served. *)

\* A layer in progress stays in progress until its outcome is published.
LEMMA ProgressPreserved ==
  ASSUME PInv, NEW t \in Threads, Acquire(t) \/ Step(t) \/ Calls(t)
  PROVE  Progress'
<1>1. ASSUME NEW l \in Layers, Open(t, l) \/ CreateNew(t, l) PROVE Progress'
  <2>1. /\ pc[t] \in {"Open", "Create"} /\ ref[t] = None /\ life[l] = "Unused"
        /\ \E p \in {"Read", "Save"} : pc' = [pc EXCEPT ![t] = p]
        /\ life' = [life EXCEPT ![l] = "Alive"]
        /\ identifier' = [identifier EXCEPT ![l] = wanted[t]]
        /\ ref' = [ref EXCEPT ![t] = l]
        /\ complete' = complete /\ wanted' = wanted
    BY <1>1 DEF PInv, IInv, ThreadOK, Searching, Open, CreateNew, NewLayer,
       Goto, initVars, callVars
  <2>2. pc'[t] \in {"Read", "Save"} /\ ref'[t] = l /\ identifier'[l] = wanted'[t]
    BY <2>1 DEF PInv, IInv, TypeOK
  <2>3. ASSUME NEW u \in Threads, u # t PROVE pc'[u] = pc[u] /\ ref'[u] = ref[u]
    BY <2>1, <2>3 DEF PInv, IInv, TypeOK
  <2>4. ASSUME NEW m \in Layers, m # l
        PROVE  life'[m] = life[m] /\ identifier'[m] = identifier[m]
    BY <2>1, <2>4 DEF PInv, IInv, TypeOK
  <2>5. ASSUME NEW m \in Layers, m # l PROVE InProgress(m)'
    <3>1. SUFFICES ASSUME life[m] = "Alive", ~complete[m], ~Abandonable(m)
                   PROVE  \E u \in Threads : Initializing(u)' /\ ref'[u] = m
      BY <2>1, <2>4, <2>5 DEF InProgress, Abandonable
    <3>2. PICK u \in Threads : Initializing(u) /\ ref[u] = m
      BY <3>1 DEF PInv, Progress, InProgress
    <3>3. u # t
      BY <2>1, <3>2 DEF Initializing
    <3>4. QED
      BY <2>3, <3>2, <3>3 DEF Initializing
  <2>6. InProgress(l)'
    BY <2>2 DEF InProgress, Initializing
  <2>7. ASSUME NEW u \in Threads, u # t, ref[u] # None
        PROVE  ref[u] \in Layers /\ ref[u] # l
    BY <2>1, <2>7 DEF PInv, IInv, TypeOK, ThreadOK
  <2>8. ASSUME NEW u \in Threads PROVE NoneDropped(u)' /\ AsWanted(u)'
    <3>1. CASE u = t
      BY <2>2, <3>1 DEF NoneDropped, AsWanted
    <3>2. CASE u # t
      <4>1. pc[u] \in {"Read", "Save", "Finish", "Drop"} =>
              identifier'[ref[u]] = identifier[ref[u]]
        BY <2>4, <2>7, <3>2 DEF PInv, IInv, ThreadOK
      <4>2. QED
        BY <2>1, <2>3, <3>2, <4>1 DEF PInv, Progress, NoneDropped, AsWanted,
           Abandonable, Initializing
    <3>3. QED
      BY <3>1, <3>2
  <2>9. QED
    BY <2>5, <2>6, <2>8 DEF Progress
<1>2. ASSUME NEW outcome \in BOOLEAN, Finish(t, outcome) PROVE Progress'
  BY <1>2 DEF PInv, IInv, TypeOK, Progress, InProgress, NoneDropped, AsWanted,
     Abandonable, Initializing, Finish, callVars
<1>3. CASE Publish(t)
  BY <1>3 DEF PInv, IInv, TypeOK, ThreadOK, Progress, InProgress, NoneDropped,
     AsWanted, Abandonable, Initializing, Publish, Goto, callVars
<1>4. CASE Drop(t)
  <2>1. /\ pc[t] \in {"Out", "Drop"} /\ ref[t] \in Layers /\ ref[t] # None
        /\ complete[ref[t]] \/ Abandonable(ref[t])
    BY <1>4 DEF PInv, IInv, TypeOK, KnowsOK, Progress, NoneDropped, Drop
  <2>2. /\ \E p \in {"Out", "WantDestroy"} : pc' = [pc EXCEPT ![t] = p]
        /\ ref' = [ref EXCEPT ![t] = None]
        /\ UNCHANGED <<complete, identifier, wanted>>
    BY <1>4 DEF Drop, initVars, callVars
  <2>3. ASSUME NEW m \in Layers, life'[m] = "Alive" PROVE life[m] = "Alive"
    BY <1>4, <2>1, <2>3 DEF PInv, IInv, TypeOK, Drop
  <2>4. ASSUME NEW u \in Threads, u # t PROVE pc'[u] = pc[u] /\ ref'[u] = ref[u]
    BY <2>2, <2>4 DEF PInv, IInv, TypeOK
  <2>5. ASSUME NEW m \in Layers PROVE InProgress(m)'
    <3>1. SUFFICES ASSUME life[m] = "Alive", ~complete[m], ~Abandonable(m)
                   PROVE  \E u \in Threads : Initializing(u)' /\ ref'[u] = m
      BY <2>2, <2>3 DEF InProgress, Abandonable
    <3>2. PICK u \in Threads : Initializing(u) /\ ref[u] = m
      BY <3>1 DEF PInv, Progress, InProgress
    <3>3. u # t
      BY <2>1, <3>2 DEF Initializing
    <3>4. QED
      BY <2>4, <3>2, <3>3 DEF Initializing
  <2>6. ASSUME NEW u \in Threads PROVE NoneDropped(u)' /\ AsWanted(u)'
    <3>1. CASE u = t
      BY <2>2, <3>1 DEF PInv, IInv, TypeOK, NoneDropped, AsWanted, Initializing
    <3>2. CASE u # t
      BY <2>2, <2>4, <3>2 DEF PInv, Progress, NoneDropped, AsWanted,
         Abandonable, Initializing
    <3>3. QED
      BY <3>1, <3>2
  <2>7. QED
    BY <2>5, <2>6 DEF Progress
<1>5. CASE Wait(t)
  BY <1>5 DEF PInv, IInv, TypeOK, Progress, InProgress, NoneDropped, AsWanted,
     Abandonable, Initializing, Wait, Goto, layerVars, initVars, callVars
<1>6. CASE Acquire(t) \/ UpgradeAtOnce(t) \/ UpgradeReleased(t) \/ NeedsWriter(t)
           \/ NotFound(t) \/ OpenFails(t) \/ CreateNewExists(t)
  BY <1>6 DEF PInv, IInv, TypeOK, Progress, InProgress, NoneDropped, AsWanted,
     Abandonable, Initializing, Goto, Acquire, AcquireRead, AcquireWrite,
     AcquireDestroy, UpgradeAtOnce, UpgradeReleased, NeedsWriter, NotFound,
     OpenFails, CreateNewExists, layerVars, initVars, callVars
<1>7. CASE Take(t)
  BY <1>7 DEF PInv, IInv, TypeOK, ThreadOK, Progress, InProgress, NoneDropped,
     AsWanted, Abandonable, Initializing, Take, Finding, layerVars, initVars,
     callVars
<1>8. CASE Evict(t) \/ Destroy(t)
  BY <1>8 DEF PInv, IInv, TypeOK, Progress, InProgress, NoneDropped, AsWanted,
     Abandonable, Initializing, Evict, Destroy, Goto, initVars, callVars
<1>9. ASSUME NEW c \in {"FindOrOpen", "Find", "CreateNew"}, NEW i \in Identifiers,
             Call(t, c, i)
      PROVE  Progress'
  <2>1. /\ pc[t] = "Out"
        /\ \E p \in {"WantRead", "WantWrite"} : pc' = [pc EXCEPT ![t] = p]
        /\ wanted' = [wanted EXCEPT ![t] = i]
        /\ UNCHANGED <<ref, life, identifier, complete>>
    BY <1>9 DEF Call, Goto, layerVars, initVars
  <2>2. ASSUME NEW u \in Threads
        PROVE  \/ pc'[u] \in {"WantRead", "WantWrite"} /\ pc[u] = "Out"
               \/ pc'[u] = pc[u] /\ wanted'[u] = wanted[u]
    BY <2>1 DEF PInv, IInv, TypeOK
  <2>3. ASSUME NEW m \in Layers PROVE InProgress(m)'
    BY <2>1, <2>2 DEF PInv, Progress, InProgress, Abandonable, Initializing
  <2>4. ASSUME NEW u \in Threads PROVE NoneDropped(u)' /\ AsWanted(u)'
    BY <2>1, <2>2 DEF PInv, Progress, NoneDropped, AsWanted, Abandonable,
       Initializing
  <2>5. QED
    BY <2>3, <2>4 DEF Progress
<1>10. CASE SaveFails(t) \/ ReadThrows(t)
  <2>1. /\ Initializing(t) /\ ref[t] \in Layers /\ Abandonable(ref[t])
    BY <1>10 DEF PInv, IInv, TypeOK, ThreadOK, Progress, AsWanted, Abandonable,
       Initializing, SaveFails, ReadThrows, Goto
  <2>2. /\ pc' = [pc EXCEPT ![t] = "Drop"]
        /\ UNCHANGED <<ref, wanted, life, identifier, complete>>
    BY <1>10 DEF SaveFails, ReadThrows, Goto, layerVars, initVars, callVars
  <2>3. ASSUME NEW m \in Layers PROVE InProgress(m)'
    <3>1. SUFFICES ASSUME life[m] = "Alive", ~complete[m], ~Abandonable(m)
                   PROVE  \E u \in Threads : Initializing(u)' /\ ref'[u] = m
      BY <2>2 DEF InProgress, Abandonable
    <3>2. PICK u \in Threads : Initializing(u) /\ ref[u] = m
      BY <3>1 DEF PInv, Progress, InProgress
    <3>3. QED
      BY <2>1, <2>2, <3>1, <3>2 DEF PInv, IInv, TypeOK, Initializing
  <2>4. ASSUME NEW u \in Threads PROVE NoneDropped(u)' /\ AsWanted(u)'
    BY <2>1, <2>2 DEF PInv, IInv, TypeOK, Progress, NoneDropped, AsWanted,
       Abandonable, Initializing
  <2>5. QED
    BY <2>3, <2>4 DEF Progress
<1>11. QED
  BY <1>1, <1>2, <1>3, <1>4, <1>5, <1>6, <1>7, <1>8, <1>9, <1>10 DEF Step, Calls

\* A thread that waits for a layer waits for one that is being initialized,
\* unless the layer is one whose first save may fail or whose reading may throw:
\* these two ways out are the only ones that leave waiting threads behind.
THEOREM WaitersServed == Spec => []OthersAreUnblocked
<1>1. Init => PInv
  BY InitEstablishes DEF Init, PInv, Progress, InProgress, NoneDropped, AsWanted,
     Initializing
<1>2. PInv /\ [Next]_vars => PInv'
  <2> SUFFICES ASSUME PInv, [Next]_vars PROVE PInv'
    OBVIOUS
  <2>1. IInv'
    BY NextPreserves DEF PInv
  <2>2. ASSUME NEW t \in Threads, Acquire(t) \/ Step(t) \/ Calls(t) PROVE PInv'
    BY <2>1, <2>2, ProgressPreserved DEF PInv
  <2>3. CASE Resting \/ UNCHANGED vars
    BY <2>1, <2>3 DEF PInv, Progress, InProgress, NoneDropped, AsWanted,
       Abandonable, Initializing, Resting, vars, layerVars, initVars, callVars
  <2>4. QED
    BY <2>2, <2>3 DEF Next
<1>3. PInv => OthersAreUnblocked
  BY DEF PInv, IInv, TypeOK, ThreadOK, Progress, InProgress, Abandonable,
     Holders, Stuck, OthersAreUnblocked
<1>4. QED
  BY <1>1, <1>2, <1>3, PTL DEF Spec
=============================================================================
