----------------------- MODULE ExecDefinitionRegistry -----------------------
(***************************************************************************)
(* The registry of computation definitions: how it is constructed once,    *)
(* filled by registry functions, closed to lookups by a barrier until      *)
(* then, filled further by a plugin that a lookup loads and by             *)
(* registrations from Swift, and read by concurrent lookups, which cache   *)
(* what they compose.                                                      *)
(*                                                                         *)
(* Singleton, registration barrier, the registry manager's worklist and    *)
(* the loading of the plugin are modelled step by step.  The builtin       *)
(* computations, the four tables for prim, attribute and dispatched        *)
(* computations and the definitions themselves are data: a computation is  *)
(* its schema and its name.                                                *)
(***************************************************************************)
EXTENDS Naturals, SequencesExt

CONSTANTS
  Threads,    \* threads that look up computations
  App,        \* the one of them that registers computations from Swift
  Others,     \* threads that enter the registry manager for another registry
  Schemas,    \* schema types
  Names,      \* names of computations
  Linked,     \* schemas with a registry function in a library that is loaded
  Plugin,     \* schemas with one in the library of a plugin, not yet loaded
  Registers,  \* per schema: the names its registry function registers, in order
  Keys,       \* schema config keys of prims
  Expanded,   \* per key: its schemas, the strongest one first
  Scripts,    \* what App may register from Swift: sequences of <<schema, name>>
  None        \* no thread, no key, nothing recorded

\* The functions of Linked and Plugin are sequences, in the order of their lists.
Functions == ToSet(Linked) \cup ToSet(Plugin)

ASSUME RegistryAssumption ==
  /\ App \in Threads /\ Threads \cap Others = {}
  /\ Linked \in Seq(Schemas) /\ Plugin \in Seq(Schemas)
  /\ Registers \in [Functions -> Seq(Names)]
  /\ Expanded \in [Keys -> Seq(Schemas)]
  /\ Scripts \subseteq Seq(Schemas \X Names)
  /\ None \notin Threads \cup Others \cup Keys \cup Schemas \cup BOOLEAN

VARIABLES
  instance,      \* TfSingleton::_instance is set
  initializing,  \* isInitializing
  built,         \* how often the constructor was called
  open,          \* _isFullyConstructed
  barrier,       \* who holds _isFullyConstructedMutex
  sleeping,      \* threads in the wait of the condition variable
  drowsy,        \* threads that may still wake without a notification
  mutex,         \* who holds the registry manager's _mutex
  functions,     \* _registrationFunctions: functions nobody subscribed to yet
  worklist,      \* _registrationWorklist
  loader,        \* who holds the mutex of PlugPlugin::Load
  loaded,        \* _isLoaded of the plugin
  definitions,   \* per schema: the names registered for it
  recorded,      \* _computationsRegisteredForSchema: None, TRUE or FALSE
  composed,      \* per key: None or the <<schema, name>> of its composed definition
  script,        \* what App has still to register
  rejected,      \* what it was told could not be registered
  stolen,        \* schemas whose function another registry's thread took
  pc,            \* where a thread is
  key, index,    \* the key a thread looks up, and how far it is
  found,         \* what it has composed
  running, left  \* the function it runs: its schema, the names still to register

singletonVars == <<instance, initializing, built>>
barrierVars == <<open, barrier, sleeping, drowsy>>
managerVars == <<mutex, functions, worklist, stolen>>
pluginVars == <<loader, loaded>>
tableVars == <<definitions, recorded>>
swiftVars == <<script, rejected>>
lookupVars == <<key, index, found>>
runVars == <<running, left>>
vars == <<singletonVars, barrierVars, managerVars, pluginVars, tableVars,
          composed, swiftVars, pc, lookupVars, runVars>>

All == Threads \cup Others

Init == /\ instance = FALSE
        /\ initializing = FALSE
        /\ built = 0
        /\ open = FALSE
        /\ barrier = None
        /\ sleeping = {}
        /\ drowsy = Threads
        /\ mutex = None
        /\ functions = Linked
        /\ worklist = <<>>
        /\ loader = None
        /\ loaded = FALSE
        /\ definitions = [s \in Schemas |-> {}]
        /\ recorded = [s \in Schemas |-> None]
        /\ composed = [k \in Keys |-> None]
        /\ script \in Scripts
        /\ rejected = {}
        /\ stolen = {}
        /\ pc = [t \in All |-> "Out"]
        /\ key = [t \in Threads |-> None]
        /\ index = [t \in Threads |-> 0]
        /\ found = [t \in Threads |-> {}]
        /\ running = [t \in All |-> None]
        /\ left = [t \in All |-> <<>>]

Goto(t, from, to) == pc[t] = from /\ pc' = [pc EXCEPT ![t] = to]

-----------------------------------------------------------------------------
(* TfSingleton::GetInstance.                                               *)

\* GetInstance goes on to the barrier, _GetInstanceForRegistration does not.
Entered(t) == IF t = App /\ script # <<>> THEN "Register" ELSE "Barrier"

\* Swift registers before the first lookup, as its documentation asks for.
Call(t, k) ==
  /\ Goto(t, "Out", IF instance THEN Entered(t) ELSE "Create")
  /\ t = App \/ script = <<>>
  /\ key' = [key EXCEPT ![t] = k]
  /\ UNCHANGED <<singletonVars, barrierVars, managerVars, pluginVars, tableVars,
                 composed, swiftVars, index, found, runVars>>

\* _CreateInstance: the first thread may construct, the others wait.
Exchange(t) ==
  /\ Goto(t, "Create", IF initializing THEN "Spin" ELSE "Check")
  /\ initializing' = TRUE
  /\ UNCHANGED <<instance, built, barrierVars, managerVars, pluginVars, tableVars,
                 composed, swiftVars, lookupVars, runVars>>

Spin(t) ==
  /\ Goto(t, "Spin", Entered(t))
  /\ instance
  /\ UNCHANGED <<singletonVars, barrierVars, managerVars, pluginVars, tableVars,
                 composed, swiftVars, lookupVars, runVars>>

\* As a bug would have it: the instance is not looked at again.
CheckNot(t) ==
  /\ Goto(t, "Check", "Construct")
  /\ built' = built + 1
  /\ UNCHANGED <<instance, initializing, barrierVars, managerVars, pluginVars,
                 tableVars, composed, swiftVars, lookupVars, runVars>>

\* A thread that comes late finds the instance another one constructed.
Check(t) ==
  /\ Goto(t, "Check", IF instance THEN "Built" ELSE "Construct")
  /\ built' = IF instance THEN built ELSE built + 1
  /\ UNCHANGED <<instance, initializing, barrierVars, managerVars, pluginVars,
                 tableVars, composed, swiftVars, lookupVars, runVars>>

\* As a bug would have it: the barrier is opened before the subscription.
ConstructOpen(t) ==
  /\ Goto(t, "Construct", "Subscribe")
  /\ instance' = TRUE
  /\ open' = TRUE
  /\ UNCHANGED <<initializing, built, barrier, sleeping, drowsy, managerVars, pluginVars,
                 tableVars, composed, swiftVars, lookupVars, runVars>>

\* The constructor: builtin computations, then SetInstanceConstructed.
Construct(t) ==
  /\ Goto(t, "Construct", "Subscribe")
  /\ instance' = TRUE
  /\ UNCHANGED <<initializing, built, barrierVars, managerVars, pluginVars,
                 tableVars, composed, swiftVars, lookupVars, runVars>>

Built(t) ==
  /\ Goto(t, "Built", Entered(t))
  /\ initializing' = FALSE
  /\ UNCHANGED <<instance, built, barrierVars, managerVars, pluginVars, tableVars,
                 composed, swiftVars, lookupVars, runVars>>

-----------------------------------------------------------------------------
(* TfRegistryManager.                                                      *)

\* SubscribeTo moves the functions to the front of the worklist ...
Subscribe(t) ==
  /\ Goto(t, "Subscribe", "Loop")
  /\ mutex = None
  /\ mutex' = t
  /\ worklist' = functions \o worklist
  /\ functions' = <<>>
  /\ UNCHANGED <<stolen, singletonVars, barrierVars, pluginVars, tableVars,
                 composed, swiftVars, lookupVars, runVars>>

\* ... as does the loading of the plugin's library, the type being subscribed to.
ProcessLibrary(t) ==
  /\ Goto(t, "Process", "Loop")
  /\ mutex = None
  /\ mutex' = t
  /\ worklist' = Plugin \o worklist
  /\ UNCHANGED <<functions, stolen, singletonVars, barrierVars, pluginVars,
                 tableVars, composed, swiftVars, lookupVars, runVars>>

\* A thread that has functions of another registry to run gets here too.
Enter(t) ==
  /\ t \in Others
  /\ Goto(t, "Out", "Loop")
  /\ mutex = None
  /\ mutex' = t
  /\ UNCHANGED <<functions, worklist, stolen, singletonVars, barrierVars,
                 pluginVars, tableVars, composed, swiftVars, lookupVars, runVars>>

\* _RunRegistrationFunctionsNoLock takes a function, whosever it is, and runs
\* it with the mutex released.
Pop(t) ==
  /\ Goto(t, "Loop", "Run")
  /\ worklist # <<>>
  /\ worklist' = Tail(worklist)
  /\ mutex' = None
  /\ stolen' = IF t \in Others THEN stolen \cup {Head(worklist)} ELSE stolen
  /\ running' = [running EXCEPT ![t] = Head(worklist)]
  /\ left' = [left EXCEPT ![t] = Registers[Head(worklist)]]
  /\ UNCHANGED <<functions, singletonVars, barrierVars, pluginVars, tableVars,
                 composed, swiftVars, lookupVars>>

\* _ValidateComputationRegistration: not once the schema is recorded.
Accepted(s) == recorded[s] = None

RegisterNext(t) ==
  LET s == running[t] n == Head(left[t]) IN
  /\ pc[t] = "Run" /\ left[t] # <<>>
  /\ left' = [left EXCEPT ![t] = Tail(@)]
  /\ definitions' = IF Accepted(s)
                    THEN [definitions EXCEPT ![s] = @ \cup {n}] ELSE definitions
  /\ UNCHANGED <<pc, running, recorded, singletonVars, barrierVars, managerVars,
                 pluginVars, composed, swiftVars, lookupVars>>

\* SetComputationRegistrationComplete; emplace keeps what is there.
Record(s, answer) ==
  recorded' = [recorded EXCEPT ![s] = IF @ = None THEN answer ELSE @]

\* The destructor of the function's builder: its schema is complete.
FunctionEnds(t) ==
  /\ Goto(t, "Run", "Relock")
  /\ left[t] = <<>>
  /\ Record(running[t], TRUE)
  /\ running' = [running EXCEPT ![t] = None]
  /\ UNCHANGED <<left, definitions, singletonVars, barrierVars, managerVars,
                 pluginVars, composed, swiftVars, lookupVars>>

\* As a bug would have it: the worklist is read without the mutex.
RelockNot(t) ==
  /\ Goto(t, "Relock", "Loop")
  /\ UNCHANGED <<managerVars, singletonVars, barrierVars, pluginVars, tableVars,
                 composed, swiftVars, lookupVars, runVars>>

Relock(t) ==
  /\ Goto(t, "Relock", "Loop")
  /\ mutex = None
  /\ mutex' = t
  /\ UNCHANGED <<functions, worklist, stolen, singletonVars, barrierVars,
                 pluginVars, tableVars, composed, swiftVars, lookupVars, runVars>>

\* The worklist is empty; what others took from it may still run.
LoopEnds(t) ==
  /\ Goto(t, "Loop", IF t \in Others THEN "Done"
                     ELSE IF loader = t THEN "Loaded" ELSE "SetConstructed")
  /\ worklist = <<>>
  /\ mutex' = None
  /\ UNCHANGED <<functions, worklist, stolen, singletonVars, barrierVars,
                 pluginVars, tableVars, composed, swiftVars, lookupVars, runVars>>

-----------------------------------------------------------------------------
(* Exec_RegistrationBarrier.                                               *)

\* As a bug would have it: the update is not protected by the mutex.
SetConstructedUnlocked(t) ==
  /\ Goto(t, "SetConstructed", "NotifyAll")
  /\ open' = TRUE
  /\ UNCHANGED <<barrier, sleeping, drowsy, singletonVars, managerVars, pluginVars,
                 tableVars, composed, swiftVars, lookupVars, runVars>>

\* SetFullyConstructed
SetConstructed(t) ==
  /\ Goto(t, "SetConstructed", "NotifyAll")
  /\ barrier = None
  /\ open' = TRUE
  /\ UNCHANGED <<barrier, sleeping, drowsy, singletonVars, managerVars, pluginVars,
                 tableVars, composed, swiftVars, lookupVars, runVars>>

NotifyAll(t) ==
  /\ Goto(t, "NotifyAll", "Built")
  /\ sleeping' = {}
  /\ UNCHANGED <<open, barrier, drowsy, singletonVars, managerVars, pluginVars,
                 tableVars, composed, swiftVars, lookupVars, runVars>>

\* WaitUntilFullyConstructed: the fast path, or the mutex.
PassBarrier(t) ==
  /\ Goto(t, "Barrier", IF open THEN "Find" ELSE "Lock")
  /\ UNCHANGED <<singletonVars, barrierVars, managerVars, pluginVars, tableVars,
                 composed, swiftVars, lookupVars, runVars>>

LockBarrier(t) ==
  /\ Goto(t, "Lock", "Test")
  /\ barrier = None
  /\ barrier' = t
  /\ UNCHANGED <<open, sleeping, drowsy, singletonVars, managerVars, pluginVars,
                 tableVars, composed, swiftVars, lookupVars, runVars>>

Test(t) ==
  /\ Goto(t, "Test", IF open THEN "Find" ELSE "Wait")
  /\ barrier' = IF open THEN None ELSE barrier
  /\ UNCHANGED <<open, sleeping, drowsy, singletonVars, managerVars, pluginVars,
                 tableVars, composed, swiftVars, lookupVars, runVars>>

\* The condition variable puts the thread to sleep and unlocks in one step.
Wait(t) ==
  /\ Goto(t, "Wait", "Sleep")
  /\ barrier' = None
  /\ sleeping' = sleeping \cup {t}
  /\ UNCHANGED <<open, drowsy, singletonVars, managerVars, pluginVars, tableVars,
                 composed, swiftVars, lookupVars, runVars>>

Wake(t) ==
  /\ Goto(t, "Sleep", "Lock")
  /\ t \notin sleeping
  /\ UNCHANGED <<singletonVars, barrierVars, managerVars, pluginVars, tableVars,
                 composed, swiftVars, lookupVars, runVars>>

\* A bound: once per thread.
SpuriousWake(t) ==
  /\ Goto(t, "Sleep", "Lock")
  /\ t \in sleeping /\ t \in drowsy
  /\ sleeping' = sleeping \ {t}
  /\ drowsy' = drowsy \ {t}
  /\ UNCHANGED <<open, barrier, singletonVars, managerVars, pluginVars, tableVars,
                 composed, swiftVars, lookupVars, runVars>>

-----------------------------------------------------------------------------
(* Lookups.                                                                *)

Schema(t) == Expanded[key[t]][index[t]]

\* The next schema, or the end of the composition.
Advance(t) ==
  /\ index' = [index EXCEPT ![t] = @ + 1]
  /\ pc' = [pc EXCEPT ![t] =
              IF index[t] = Len(Expanded[key[t]]) THEN "Emplace" ELSE "Ensure"]

\* _GetOrCreateComposedPrimDefinition
FindCached(t) ==
  /\ Goto(t, "Find", "Out")
  /\ composed[key[t]] # None
  /\ key' = [key EXCEPT ![t] = None]
  /\ UNCHANGED <<index, found, singletonVars, barrierVars, managerVars,
                 pluginVars, tableVars, composed, swiftVars, runVars>>

Find(t) ==
  /\ Goto(t, "Find", IF Expanded[key[t]] = <<>> THEN "Emplace" ELSE "Ensure")
  /\ composed[key[t]] = None
  /\ index' = [index EXCEPT ![t] = 1]
  /\ UNCHANGED <<key, found, singletonVars, barrierVars, managerVars, pluginVars,
                 tableVars, composed, swiftVars, runVars>>

\* _EnsurePluginComputationsLoaded: recorded as a schema with computations, or
\* not recorded and to be asked for; or recorded as one without any.
Ensure(t) ==
  /\ Goto(t, "Ensure", IF recorded[Schema(t)] = TRUE THEN "Collect"
                       ELSE IF Schema(t) \in ToSet(Plugin) THEN "Load"
                       ELSE "RecordNone")
  /\ recorded[Schema(t)] # FALSE
  /\ UNCHANGED <<singletonVars, barrierVars, managerVars, pluginVars, tableVars,
                 composed, swiftVars, lookupVars, runVars>>

Skip(t) ==
  /\ pc[t] = "Ensure"
  /\ recorded[Schema(t)] = FALSE
  /\ Advance(t)
  /\ UNCHANGED <<key, found, singletonVars, barrierVars, managerVars, pluginVars,
                 tableVars, composed, swiftVars, runVars>>

RecordNone(t) ==
  /\ pc[t] = "RecordNone"
  /\ Record(Schema(t), FALSE)
  /\ Advance(t)
  /\ UNCHANGED <<key, found, definitions, singletonVars, barrierVars, managerVars,
                 pluginVars, composed, swiftVars, runVars>>

\* PlugPlugin::Load, serialized; a second thread finds the plugin loaded.
Load(t) ==
  /\ Goto(t, "Load", IF loaded THEN "Loaded" ELSE "Process")
  /\ loader = None
  /\ loader' = t
  /\ UNCHANGED <<loaded, singletonVars, barrierVars, managerVars, tableVars,
                 composed, swiftVars, lookupVars, runVars>>

Loaded(t) ==
  /\ Goto(t, "Loaded", "Collect")
  /\ loaded' = TRUE
  /\ loader' = None
  /\ UNCHANGED <<singletonVars, barrierVars, managerVars, tableVars, composed,
                 swiftVars, lookupVars, runVars>>

\* _ComposePrimDefinition: the first schema to provide a name wins.
Collect(t) ==
  LET taken == {d[2] : d \in found[t]} IN
  /\ pc[t] = "Collect"
  /\ found' = [found EXCEPT ![t] = @ \cup
                 {<<Schema(t), n>> : n \in definitions[Schema(t)] \ taken}]
  /\ Advance(t)
  /\ UNCHANGED <<key, singletonVars, barrierVars, managerVars, pluginVars,
                 tableVars, composed, swiftVars, runVars>>

\* Of the threads that composed the same definition the first one stores it.
Emplace(t) ==
  /\ Goto(t, "Emplace", "Out")
  /\ composed' = [composed EXCEPT ![key[t]] = IF @ = None THEN found[t] ELSE @]
  /\ key' = [key EXCEPT ![t] = None]
  /\ index' = [index EXCEPT ![t] = 0]
  /\ found' = [found EXCEPT ![t] = {}]
  /\ UNCHANGED <<singletonVars, barrierVars, managerVars, pluginVars, tableVars,
                 swiftVars, runVars>>

-----------------------------------------------------------------------------
(* Exec_Swift_RegisterComputation.                                         *)

SwiftRegister(t) ==
  LET s == Head(script)[1] n == Head(script)[2] IN
  /\ Goto(t, "Register", "Complete")
  /\ IF Accepted(s) /\ n \notin definitions[s]
     THEN /\ definitions' = [definitions EXCEPT ![s] = @ \cup {n}]
          /\ UNCHANGED rejected
     ELSE /\ rejected' = rejected \cup {<<s, n>>}
          /\ UNCHANGED definitions
  /\ UNCHANGED <<recorded, script, singletonVars, barrierVars, managerVars,
                 pluginVars, composed, lookupVars, runVars>>

\* The bridge completes the schema, whatever App has still to register for it.
SwiftComplete(t) ==
  /\ Goto(t, "Complete", "Out")
  /\ Record(Head(script)[1], TRUE)
  /\ script' = Tail(script)
  /\ key' = [key EXCEPT ![t] = None]
  /\ UNCHANGED <<index, found, definitions, rejected, singletonVars, barrierVars,
                 managerVars, pluginVars, composed, runVars>>

-----------------------------------------------------------------------------
Getting(t) == Exchange(t) \/ Spin(t) \/ Check(t) \/ Construct(t) \/ Built(t)
Managing(t) == \/ Subscribe(t) \/ ProcessLibrary(t) \/ Enter(t) \/ Pop(t)
               \/ RegisterNext(t) \/ FunctionEnds(t) \/ Relock(t) \/ LoopEnds(t)
Waiting(t) == \/ SetConstructed(t) \/ NotifyAll(t) \/ PassBarrier(t)
              \/ LockBarrier(t) \/ Test(t) \/ Wait(t) \/ Wake(t)
Looking(t) == \/ FindCached(t) \/ Find(t) \/ Ensure(t) \/ Skip(t) \/ RecordNone(t) \/ Load(t)
              \/ Loaded(t) \/ Collect(t) \/ Emplace(t)
Registering(t) == SwiftRegister(t) \/ SwiftComplete(t)

Step(t) == \/ Managing(t)
           \/ t \in Threads /\ (Getting(t) \/ Waiting(t) \/ Looking(t) \/ Registering(t))

Next == \/ \E t \in All : Step(t)
        \/ \E t \in Threads : SpuriousWake(t) \/ \E k \in Keys : Call(t, k)

\* Threads run.  Neither calls nor spurious wake-ups are promised.
Fairness == \A t \in All : WF_vars(Step(t))

Spec == Init /\ [][Next]_vars
FairSpec == Spec /\ Fairness

-----------------------------------------------------------------------------
(* Properties.                                                             *)

Constructing == {"Construct", "Subscribe", "SetConstructed", "NotifyAll"}

TypeOK ==
  /\ instance \in BOOLEAN /\ initializing \in BOOLEAN /\ open \in BOOLEAN
  /\ loaded \in BOOLEAN
  /\ built \in Nat
  /\ barrier \in Threads \cup {None}
  /\ sleeping \subseteq Threads /\ drowsy \subseteq Threads
  /\ mutex \in All \cup {None}
  /\ functions \in Seq(Functions) /\ worklist \in Seq(Functions)
  /\ loader \in Threads \cup {None}
  /\ definitions \in [Schemas -> SUBSET Names]
  /\ recorded \in [Schemas -> BOOLEAN \cup {None}]
  /\ \A k \in Keys : composed[k] = None \/ composed[k] \subseteq Schemas \X Names
  /\ script \in Seq(Schemas \X Names) /\ rejected \subseteq Schemas \X Names
  /\ stolen \subseteq Functions
  /\ pc \in [All -> Constructing \cup
               {"Out", "Create", "Check", "Spin", "Built", "Loop", "Run", "Relock",
                "Done", "Barrier", "Lock", "Test", "Wait", "Sleep", "Find",
                "Ensure", "RecordNone", "Load", "Process", "Loaded", "Collect",
                "Emplace", "Register", "Complete"}]
  /\ running \in [All -> Functions \cup {None}]
  /\ \A t \in All : /\ pc[t] = "Loop" => mutex = t
                    /\ pc[t] = "Run" => running[t] # None
                    /\ pc[t] \in {"Process", "Loaded"} => loader = t
                    /\ pc[t] \in {"Test", "Wait"} => barrier = t

\* Threads that ask for the registry at once construct it once: the one that
\* comes as the constructing thread gives up isInitializing looks again.
BuiltOnce ==
  /\ built <= 1
  /\ \A t, u \in All : pc[t] \in Constructing /\ pc[u] \in Constructing => t = u

\* What a schema has to offer: what its registry function registers or, without
\* one, what was accepted from Swift.
Owed(s) == IF s \in Functions THEN ToSet(Registers[s]) ELSE definitions[s]

\* What the first m schemas of a key have to offer: the strongest one that has a
\* computation of a name provides it.
Offered(k, m) ==
  {d \in Schemas \X Names :
     \E j \in 1..m : /\ d[1] = Expanded[k][j] /\ d[2] \in Owed(d[1])
                     /\ \A i \in 1..(j - 1) : d[2] \notin Owed(Expanded[k][i])}

\* Another registry's thread runs the function of one of the key's schemas.
Stolen(k) == \E i \in DOMAIN Expanded[k] : Expanded[k][i] \in stolen

\* A composed definition is cached for good, and composed while other threads
\* load plugins: it has every computation its schemas offer, from the strongest
\* schema that offers it, unless another registry's thread ran their functions.
ComposedIsComplete ==
  \A k \in Keys : composed[k] # None /\ ~Stolen(k) =>
                    composed[k] = Offered(k, Len(Expanded[k]))

\* definitionRegistry.h: GetInstance provides access "first ensuring it is
\* constructed, and ensuring that all currently-loaded plugins have registered
\* their computations."
FullyConstructed ==
  (\E t \in Threads : pc[t] \in {"Find", "Ensure"}) =>
    \A s \in ToSet(Linked) : recorded[s] = TRUE

\* swiftBridge.h: the function "returns true on success, false on failure
\* (invalid schema type, etc.)": new computations of a schema that no library
\* registers computations for are accepted.
NewIsAccepted == \A c \in rejected : c[1] \in Functions \/ c[2] \in definitions[c[1]]

\* A call that has begun ends: whoever constructs, waits for the barrier, loads
\* the plugin or runs the functions of others, nobody waits for ever.
CallsReturn == \A t \in Threads : pc[t] # "Out" ~> pc[t] = "Out"
=============================================================================
