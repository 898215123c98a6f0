-------------------- MODULE ExecDefinitionRegistry_proofs --------------------
(***************************************************************************)
(* The registry is constructed once, whoever asks for it, whatever the     *)
(* registry functions are and however often threads come and go; and what  *)
(* a lookup caches has all that its schemas have to offer.                 *)
(***************************************************************************)
EXTENDS ExecDefinitionRegistry, SequenceTheorems, TLAPS

(***************************************************************************)
(* The inductive invariant.                                                *)
(***************************************************************************)

Places == Constructing \cup
  {"Out", "Create", "Check", "Spin", "Built", "Loop", "Run", "Relock", "Done",
   "Barrier", "Lock", "Test", "Wait", "Sleep", "Find", "Ensure", "RecordNone",
   "Load", "Process", "Loaded", "Collect", "Emplace", "Register", "Complete"}

\* The thread is between the exchange of isInitializing that it won and the store
\* that gives it up.  It runs registry functions in between; a thread that runs
\* functions with the plugin's lock held does so for the plugin.
Inside(t) ==
  \/ pc[t] \in Constructing \cup {"Check", "Built"}
  \/ pc[t] \in {"Loop", "Run", "Relock"} /\ t \in Threads /\ loader # t

Types == /\ pc \in [All -> Places]
         /\ instance \in BOOLEAN /\ initializing \in BOOLEAN
         /\ built \in Nat /\ built <= 1

\* isInitializing is a lock ...
InsideAlone == /\ \A t \in All : Inside(t) => initializing
               /\ \A t, u \in All : Inside(t) /\ Inside(u) => t = u

\* ... and what it protects: a constructor that was called is running or has set
\* the instance.
BuiltOK == /\ instance => built = 1
           /\ \A t \in All : pc[t] = "Construct" => ~instance /\ built = 1
           /\ built = 1 /\ ~instance => \E t \in All : pc[t] = "Construct"

\* The plugin's lock is held from its test to the end of the loading.
LoaderOK ==
  /\ loader \in Threads \cup {None}
  /\ \A t \in All : loader = t =>
                      pc[t] \in {"Process", "Loop", "Run", "Relock", "Loaded"}
  /\ \A t \in All : pc[t] \in {"Process", "Loaded"} => loader = t

IInv == Types /\ InsideAlone /\ BuiltOK /\ LoaderOK

-----------------------------------------------------------------------------
\* A step of a thread that leaves the singleton and the plugin's lock alone, and
\* enters neither the construction nor the loading, preserves the invariant.
LEMMA OtherStep ==
  ASSUME IInv, NEW t \in All, NEW to \in Places,
         pc' = [pc EXCEPT ![t] = to],
         UNCHANGED <<singletonVars, loader>>,
         pc[t] # "Construct", to # "Construct",
         to \in Constructing \cup {"Check", "Built"} => Inside(t),
         to \in {"Loop", "Run", "Relock"} => t \notin Threads \/ loader = t \/ Inside(t),
         to \in {"Process", "Loaded"} => loader = t,
         loader = t => to \in {"Process", "Loop", "Run", "Relock", "Loaded"}
  PROVE  IInv'
<1> USE DEF IInv, Types, singletonVars
<1>1. \A u \in All : u # t => pc'[u] = pc[u]  OBVIOUS
<1>2. pc'[t] = to  OBVIOUS
<1>3. Types'  OBVIOUS
<1>4. \A u \in All : Inside(u)' => Inside(u)
  BY <1>1, <1>2 DEF Inside
<1>5. InsideAlone'  BY <1>4 DEF InsideAlone
<1>6. BuiltOK'  BY <1>1, <1>2 DEF BuiltOK
<1>7. LoaderOK'  BY <1>1, <1>2 DEF LoaderOK
<1> QED  BY <1>3, <1>5, <1>6, <1>7

LEMMA InitInv == ASSUME Init PROVE IInv
<1>1. \A t \in All : pc[t] = "Out"  BY DEF Init
<1>2. loader = None /\ None \notin All  BY RegistryAssumption DEF Init, All
<1>3. pc \in [All -> Places]  BY DEF Init, Places
<1>4. Types
  <2>1. instance = FALSE /\ initializing = FALSE /\ built = 0  BY DEF Init
  <2>2. instance \in BOOLEAN /\ initializing \in BOOLEAN  BY <2>1
  <2>3. built \in Nat /\ built <= 1  BY <2>1
  <2> QED  BY <1>3, <2>2, <2>3 DEF Types
<1> QED
  BY <1>1, <1>2, <1>4 DEF Init, IInv, InsideAlone, Inside, Constructing, BuiltOK, LoaderOK

-----------------------------------------------------------------------------
(* TfSingleton::GetInstance.                                               *)

LEMMA CallInv == ASSUME IInv, NEW t \in Threads, NEW k \in Keys, Call(t, k) PROVE IInv'
  BY OtherStep DEF Call, Goto, Entered, Places, Constructing, All, Inside, IInv, LoaderOK,
     pluginVars

\* The thread that wins the exchange is inside alone: nobody was.
LEMMA ExchangeInv == ASSUME IInv, NEW t \in Threads, Exchange(t) PROVE IInv'
<1> USE DEF IInv, Types, singletonVars, Exchange, Goto, All, pluginVars
<1>1. CASE initializing
  BY <1>1, OtherStep DEF Places, Constructing, Inside, LoaderOK
<1>2. CASE ~initializing
  <2>1. \A u \in All : ~Inside(u)  BY <1>2 DEF InsideAlone
  <2>2. \A u \in All : Inside(u)' => u = t  BY <2>1 DEF Inside
  <2>3. InsideAlone'  BY <2>2 DEF InsideAlone
  <2>4. Types' /\ BuiltOK'  BY <1>2 DEF Places, BuiltOK
  <2>5. LoaderOK'  BY <1>2 DEF LoaderOK
  <2> QED  BY <2>3, <2>4, <2>5
<1> QED  BY <1>1, <1>2 DEF Types

\* No constructor was called if the instance is not there when Check looks.
LEMMA CheckInv == ASSUME IInv, NEW t \in Threads, Check(t) PROVE IInv'
<1> USE DEF IInv, Types, singletonVars, Check, Goto, All, pluginVars
<1>1. CASE instance
  BY <1>1, OtherStep DEF Places, Constructing, Inside, LoaderOK
<1>2. CASE ~instance
  <2>1. Inside(t)  BY DEF Inside
  <2>2. \A u \in All : pc[u] # "Construct"
    BY <2>1 DEF InsideAlone, Inside, Constructing
  <2>3. built = 0  BY <1>2, <2>2 DEF BuiltOK
  <2>4. \A u \in All : Inside(u)' => Inside(u)  BY DEF Inside, Constructing
  <2>5. InsideAlone'  BY <2>4 DEF InsideAlone
  <2>6. Types'  BY <1>2, <2>3 DEF Places, Constructing
  <2>7. BuiltOK'  BY <1>2, <2>2, <2>3 DEF BuiltOK
  <2>8. LoaderOK'  BY <1>2 DEF LoaderOK
  <2> QED  BY <2>5, <2>6, <2>7, <2>8
<1> QED  BY <1>1, <1>2

LEMMA ConstructInv == ASSUME IInv, NEW t \in Threads, Construct(t) PROVE IInv'
<1> USE DEF IInv, Types, singletonVars, Construct, Goto, All, pluginVars
<1>1. \A u \in All : pc[u] = "Construct" => u = t
  BY DEF InsideAlone, Inside, Constructing
<1>2. \A u \in All : Inside(u)' => Inside(u)  BY DEF Inside, Constructing
<1>3. InsideAlone'  BY <1>2 DEF InsideAlone
<1>4. Types'  BY DEF Places, Constructing
<1>5. BuiltOK'  BY <1>1 DEF BuiltOK
<1>6. LoaderOK'  BY DEF LoaderOK
<1> QED  BY <1>3, <1>4, <1>5, <1>6

\* The thread that gives isInitializing up is not inside, and nobody else was.
LEMMA BuiltInv == ASSUME IInv, NEW t \in Threads, Built(t) PROVE IInv'
<1> USE DEF IInv, Types, singletonVars, Built, Goto, All, pluginVars
<1>1. Inside(t)  BY DEF Inside
<1>2. \A u \in All : u # t => ~Inside(u)  BY <1>1 DEF InsideAlone
<1>3. \A u \in All : ~Inside(u)'  BY <1>2 DEF Inside, Entered, Constructing
<1>4. InsideAlone'  BY <1>3 DEF InsideAlone
<1>5. Types'  BY DEF Places, Entered
<1>6. BuiltOK'  BY DEF BuiltOK, Entered
<1>7. LoaderOK'  BY DEF LoaderOK, Entered
<1> QED  BY <1>4, <1>5, <1>6, <1>7

LEMMA SpinInv == ASSUME IInv, NEW t \in Threads, Spin(t) PROVE IInv'
  BY OtherStep DEF Spin, Goto, Entered, Places, Constructing, All, Inside, IInv, LoaderOK,
     pluginVars

-----------------------------------------------------------------------------
(* The registry manager, the barrier, the lookups and Swift.               *)

LEMMA ManagingInv == ASSUME IInv, NEW t \in All, Managing(t) PROVE IInv'
<1> USE DEF Goto, Places, Constructing, Inside, IInv, LoaderOK, pluginVars, All
<1>1. CASE Subscribe(t)       BY <1>1, OtherStep DEF Subscribe
<1>2. CASE ProcessLibrary(t)  BY <1>2, OtherStep DEF ProcessLibrary
<1>3. CASE Enter(t)           BY <1>3, OtherStep, RegistryAssumption DEF Enter
<1>4. CASE Pop(t)             BY <1>4, OtherStep DEF Pop
<1>5. CASE RegisterNext(t)
  BY <1>5, OtherStep DEF RegisterNext, Types
<1>6. CASE FunctionEnds(t)    BY <1>6, OtherStep DEF FunctionEnds
<1>7. CASE Relock(t)          BY <1>7, OtherStep DEF Relock
<1>8. CASE LoopEnds(t)        BY <1>8, OtherStep, RegistryAssumption DEF LoopEnds
<1> QED  BY <1>1, <1>2, <1>3, <1>4, <1>5, <1>6, <1>7, <1>8 DEF Managing

LEMMA WaitingInv == ASSUME IInv, NEW t \in Threads, Waiting(t) \/ SpuriousWake(t) PROVE IInv'
<1> USE DEF Goto, Places, Constructing, Inside, IInv, LoaderOK, pluginVars, All
<1>1. CASE SetConstructed(t)  BY <1>1, OtherStep DEF SetConstructed
<1>2. CASE NotifyAll(t)       BY <1>2, OtherStep DEF NotifyAll
<1>3. CASE PassBarrier(t)     BY <1>3, OtherStep DEF PassBarrier
<1>4. CASE LockBarrier(t)     BY <1>4, OtherStep DEF LockBarrier
<1>5. CASE Test(t)            BY <1>5, OtherStep DEF Test
<1>6. CASE Wait(t)            BY <1>6, OtherStep DEF Wait
<1>7. CASE Wake(t)            BY <1>7, OtherStep DEF Wake
<1>8. CASE SpuriousWake(t)    BY <1>8, OtherStep DEF SpuriousWake
<1> QED  BY <1>1, <1>2, <1>3, <1>4, <1>5, <1>6, <1>7, <1>8 DEF Waiting

\* The thread that takes the plugin's lock was not constructing, nor does it then.
LEMMA LoadInv == ASSUME IInv, NEW t \in Threads, Load(t) PROVE IInv'
<1> USE DEF IInv, Types, singletonVars, Load, Goto, All
<1>1. \A u \in All : Inside(u)' => Inside(u)
  BY RegistryAssumption DEF Inside, Constructing
<1>2. InsideAlone'  BY <1>1 DEF InsideAlone
<1>3. Types'  BY DEF Places
<1>4. BuiltOK'  BY DEF BuiltOK
<1>5. LoaderOK'  BY RegistryAssumption DEF LoaderOK
<1> QED  BY <1>2, <1>3, <1>4, <1>5

LEMMA LoadedInv == ASSUME IInv, NEW t \in Threads, Loaded(t) PROVE IInv'
<1> USE DEF IInv, Types, singletonVars, Loaded, Goto, All
<1>1. loader = t  BY DEF LoaderOK
<1>2. \A u \in All : Inside(u)' => Inside(u)
  BY <1>1 DEF Inside, Constructing
<1>3. InsideAlone'  BY <1>2 DEF InsideAlone
<1>4. Types'  BY DEF Places
<1>5. BuiltOK'  BY DEF BuiltOK
<1>6. LoaderOK'  BY <1>1, RegistryAssumption DEF LoaderOK
<1> QED  BY <1>3, <1>4, <1>5, <1>6

LEMMA LookingInv == ASSUME IInv, NEW t \in Threads, Looking(t) PROVE IInv'
<1> USE DEF Goto, Places, Constructing, Inside, IInv, LoaderOK, pluginVars, All
<1>1. CASE FindCached(t)  BY <1>1, OtherStep DEF FindCached
<1>2. CASE Find(t)        BY <1>2, OtherStep DEF Find
<1>3. CASE Ensure(t)      BY <1>3, OtherStep DEF Ensure
<1>4. CASE Skip(t)        BY <1>4, OtherStep DEF Skip, Advance
<1>5. CASE RecordNone(t)  BY <1>5, OtherStep DEF RecordNone, Advance
<1>6. CASE Collect(t)     BY <1>6, OtherStep DEF Collect, Advance
<1>7. CASE Emplace(t)     BY <1>7, OtherStep DEF Emplace
<1> QED  BY <1>1, <1>2, <1>3, <1>4, <1>5, <1>6, <1>7, LoadInv, LoadedInv DEF Looking

LEMMA RegisteringInv == ASSUME IInv, NEW t \in Threads, Registering(t) PROVE IInv'
<1> USE DEF Goto, Places, Constructing, Inside, IInv, LoaderOK, pluginVars, All
<1>1. CASE SwiftRegister(t)  BY <1>1, OtherStep DEF SwiftRegister
<1>2. CASE SwiftComplete(t)  BY <1>2, OtherStep DEF SwiftComplete
<1> QED  BY <1>1, <1>2 DEF Registering

\* Every step preserves the invariant.
LEMMA StepInv == ASSUME IInv, [Next]_vars PROVE IInv'
<1>1. ASSUME NEW t \in All, Step(t) PROVE IInv'
  BY <1>1, ManagingInv, ExchangeInv, SpinInv, CheckInv, ConstructInv, BuiltInv, WaitingInv,
     LookingInv, RegisteringInv DEF Step, Getting
<1>2. ASSUME NEW t \in Threads, SpuriousWake(t) \/ \E k \in Keys : Call(t, k) PROVE IInv'
  BY <1>2, WaitingInv, CallInv
<1>3. CASE UNCHANGED vars
  BY <1>3 DEF vars, singletonVars, pluginVars, IInv, Types, InsideAlone, Inside, BuiltOK,
              LoaderOK
<1> QED  BY <1>1, <1>2, <1>3 DEF Next

\* However many threads ask for the registry, and whenever, its constructor is
\* called once, and one thread at a time is in it.
THEOREM ConstructedOnce == Spec => []BuiltOnce
<1>1. Init => IInv  BY InitInv
<1>2. IInv /\ [Next]_vars => IInv'  BY StepInv
<1>3. IInv => BuiltOnce
  BY DEF IInv, Types, InsideAlone, Inside, BuiltOnce
<1> QED  BY <1>1, <1>2, <1>3, PTL DEF Spec

(***************************************************************************)
(* Types, and who owns what.                                               *)
(***************************************************************************)

Values ==
  /\ open \in BOOLEAN /\ loaded \in BOOLEAN
  /\ barrier \in Threads \cup {None} /\ mutex \in All \cup {None}
  /\ sleeping \subseteq Threads /\ drowsy \subseteq Threads
  /\ functions \in Seq(Functions) /\ worklist \in Seq(Functions)
  /\ stolen \subseteq Functions
  /\ definitions \in [Schemas -> SUBSET Names]
  /\ recorded \in [Schemas -> BOOLEAN \cup {None}]
  /\ composed \in [Keys -> {None} \cup (SUBSET (Schemas \X Names))]
  /\ script \in Seq(Schemas \X Names) /\ rejected \subseteq Schemas \X Names
  /\ running \in [All -> Functions \cup {None}] /\ left \in [All -> Seq(Names)]
  /\ key \in [Threads -> Keys \cup {None}] /\ index \in [Threads -> Nat]
  /\ found \in [Threads -> SUBSET (Schemas \X Names)]

\* The thread is past the barrier ...
Looks(t) == \/ pc[t] \in {"Find", "Ensure", "RecordNone", "Load", "Process", "Loaded",
                          "Collect", "Emplace"}
            \/ loader = t

\* ... and at one of the schemas of its key.
Reads(t) == Looks(t) /\ pc[t] \notin {"Find", "Emplace"}

\* What a thread of the registry manager holds.
Manages(t) == /\ pc[t] = "Loop" => mutex = t
              /\ pc[t] = "Run" => running[t] # None
              /\ t \in Others => pc[t] \in {"Out", "Loop", "Run", "Relock", "Done"}

\* What a thread that asks for the registry holds; that it comes to a lookup only
\* when there is nothing left to register from Swift.
Asks(t) ==
  /\ pc[t] \in {"Test", "Wait"} => barrier = t
  /\ pc[t] # "Out" => key[t] \in Keys
  /\ Reads(t) => index[t] \in 1..Len(Expanded[key[t]])
  /\ pc[t] = "Emplace" => index[t] = Len(Expanded[key[t]]) + 1
  /\ pc[t] # "Out" /\ t # App => script = <<>>
  /\ pc[t] \in {"Register", "Complete"} => t = App /\ script # <<>>
  /\ Looks(t) \/ pc[t] \in {"Barrier", "Lock", "Test", "Wait", "Sleep"} => script = <<>>

TInv == /\ IInv /\ Values
        /\ \A t \in All : Manages(t)
        /\ \A t \in Threads : Asks(t)

\* A step of one thread leaves the others where they are, with what they hold.
Frame(t) ==
  /\ \A u \in All \ {t} : /\ pc'[u] = pc[u] /\ running'[u] = running[u]
                          /\ left'[u] = left[u] /\ (mutex = u => mutex' = u)
  /\ \A u \in Threads \ {t} : /\ key'[u] = key[u] /\ index'[u] = index[u]
                              /\ found'[u] = found[u]
                              /\ (loader' = u <=> loader = u)
                              /\ (barrier = u => barrier' = u)
  /\ script = <<>> \/ t # App => script' = script

-----------------------------------------------------------------------------
(* Facts about the constants.                                              *)

LEMMA Constants ==
  /\ None \notin All /\ None \notin Keys /\ None \notin Schemas /\ None \notin BOOLEAN
  /\ Functions \subseteq Schemas /\ None \notin Functions
  /\ ToSet(Plugin) \subseteq Functions /\ ToSet(Linked) \subseteq Functions
<1>1. Functions \subseteq Schemas
  BY RegistryAssumption, ElementOfSeq DEF Functions, ToSet
<1> QED  BY <1>1, RegistryAssumption DEF All, Functions

\* A sequence is one of its elements.
LEMMA SeqOfItsElements ==
  ASSUME NEW S, NEW T, NEW q \in Seq(S), ToSet(q) \subseteq T
  PROVE  q \in Seq(T)
<1>1. q \in [1..Len(q) -> S] /\ Len(q) \in Nat  BY LenProperties
<1>2. \A i \in 1..Len(q) : q[i] \in T  BY <1>1 DEF ToSet
<1> QED  BY <1>1, <1>2, IsASeq

LEMMA Lists == Linked \in Seq(Functions) /\ Plugin \in Seq(Functions)
  BY SeqOfItsElements, RegistryAssumption, Constants

LEMMA HeadAndTail ==
  ASSUME NEW S, NEW q \in Seq(S), q # <<>>
  PROVE  /\ Head(q) \in S /\ Head(q) = q[1] /\ Tail(q) \in Seq(S)
         /\ ToSet(q) = {Head(q)} \cup ToSet(Tail(q))
         /\ \A i \in DOMAIN Tail(q) : i + 1 \in DOMAIN q /\ Tail(q)[i] = q[i + 1]
<1>1. /\ Head(q) = q[1] /\ Tail(q) \in Seq(S) /\ Len(Tail(q)) = Len(q) - 1
      /\ \A i \in 1..Len(Tail(q)) : Tail(q)[i] = q[i + 1]
  BY HeadTailProperties
<1>2. /\ DOMAIN q = 1..Len(q) /\ Len(q) \in Nat /\ Len(q) # 0
      /\ DOMAIN Tail(q) = 1..Len(Tail(q)) /\ Len(Tail(q)) \in Nat
  BY <1>1, LenProperties, EmptySeq
<1>3. Head(q) \in S  BY <1>1, <1>2, ElementOfSeq
<1>4. ToSet(q) \subseteq {Head(q)} \cup ToSet(Tail(q))
  <2> SUFFICES ASSUME NEW i \in 1..Len(q), i # 1 PROVE q[i] \in ToSet(Tail(q))
    BY <1>1, <1>2 DEF ToSet
  <2>1. i - 1 \in 1..Len(Tail(q)) /\ (i - 1) + 1 = i  BY <1>1, <1>2
  <2>2. Tail(q)[i - 1] = q[i]  BY <1>1, <2>1
  <2> QED  BY <1>2, <2>1, <2>2 DEF ToSet
<1>5. {Head(q)} \cup ToSet(Tail(q)) \subseteq ToSet(q)
  <2>1. 1 \in DOMAIN q  BY <1>2
  <2>2. \A i \in 1..Len(Tail(q)) : i + 1 \in DOMAIN q  BY <1>1, <1>2
  <2> QED  BY <1>1, <1>2, <2>1, <2>2 DEF ToSet
<1>6. \A i \in DOMAIN Tail(q) : i + 1 \in DOMAIN q /\ Tail(q)[i] = q[i + 1]
  BY <1>1, <1>2
<1> QED  BY <1>1, <1>3, <1>4, <1>5, <1>6

LEMMA Joined ==
  ASSUME NEW S, NEW p \in Seq(S), NEW q \in Seq(S)
  PROVE  p \o q \in Seq(S) /\ ToSet(p) \subseteq ToSet(p \o q) /\ ToSet(q) \subseteq ToSet(p \o q)
<1>1. /\ p \o q \in Seq(S) /\ Len(p \o q) = Len(p) + Len(q)
      /\ Len(p) \in Nat /\ Len(q) \in Nat
      /\ DOMAIN p = 1..Len(p) /\ DOMAIN q = 1..Len(q) /\ DOMAIN (p \o q) = 1..Len(p \o q)
  BY ConcatProperties, LenProperties
<1>2. \A i \in 1..Len(p) : i \in 1..Len(p \o q) /\ (p \o q)[i] = p[i]
  BY <1>1, ConcatProperties
<1>3. \A i \in 1..Len(q) : i + Len(p) \in 1..Len(p \o q) /\ (p \o q)[i + Len(p)] = q[i]
  BY <1>1, ConcatProperties
<1>4. ToSet(p) \subseteq ToSet(p \o q)  BY <1>1, <1>2 DEF ToSet
<1>5. ToSet(q) \subseteq ToSet(p \o q)  BY <1>1, <1>3 DEF ToSet
<1> QED  BY <1>1, <1>4, <1>5

-----------------------------------------------------------------------------
LEMMA InitTypes == ASSUME Init PROVE TInv
<1> USE DEF Init
<1>1. Values
  <2>1. <<>> \in Seq(Functions) /\ <<>> \in Seq(Names)  BY EmptySeq
  <2>2. script \in Seq(Schemas \X Names)  BY RegistryAssumption
  <2>3. open \in BOOLEAN /\ loaded \in BOOLEAN  OBVIOUS
  <2>4. index \in [Threads -> Nat]
    <3>1. 0 \in Nat  OBVIOUS
    <3> QED  BY <3>1
  <2>5. /\ definitions \in [Schemas -> SUBSET Names]
        /\ found \in [Threads -> SUBSET (Schemas \X Names)]
    OBVIOUS
  <2>6. recorded \in [Schemas -> BOOLEAN \cup {None}]  OBVIOUS
  <2>7. composed \in [Keys -> {None} \cup (SUBSET (Schemas \X Names))]
    <3> DEFINE A == SUBSET (Schemas \X Names)
    <3> HIDE DEF A
    <3>1. composed \in [Keys -> {None} \cup A]  OBVIOUS
    <3> QED  BY <3>1 DEF A
  <2>8. functions \in Seq(Functions) /\ worklist \in Seq(Functions) /\ stolen \subseteq Functions
    BY <2>1, Lists
  <2>9. running \in [All -> Functions \cup {None}] /\ left \in [All -> Seq(Names)]
    BY <2>1
  <2>10. key \in [Threads -> Keys \cup {None}] /\ rejected \subseteq Schemas \X Names
    OBVIOUS
  <2>11. /\ barrier \in Threads \cup {None} /\ mutex \in All \cup {None}
         /\ sleeping \subseteq Threads /\ drowsy \subseteq Threads
    OBVIOUS
  <2> QED  BY <2>2, <2>3, <2>4, <2>5, <2>6, <2>7, <2>8, <2>9, <2>10, <2>11 DEF Values
<1>2. \A t \in All : Manages(t)  BY DEF Manages
<1>3. \A t \in Threads : Asks(t)
  BY Constants DEF Asks, Looks, Reads, All
<1> QED  BY <1>1, <1>2, <1>3, InitInv DEF TInv

\* The mutexes are given up by those who hold them.
LEMMA FrameHolds ==
  ASSUME TInv, NEW t \in All,
         Step(t) \/ (t \in Threads /\ (SpuriousWake(t) \/ \E k \in Keys : Call(t, k)))
  PROVE  Frame(t)
<1> USE DEF Frame, Goto, runVars, lookupVars, managerVars, pluginVars, barrierVars, swiftVars
<1>0. /\ Threads \subseteq All /\ None \notin All /\ Manages(t) /\ Values
      /\ pc \in [All -> Places] /\ (t \in Threads => Asks(t)) /\ LoaderOK
  BY Constants DEF TInv, All, IInv, Types
<1>1. CASE Managing(t)
  <2> USE <1>0 DEF Manages, Values
  <2>1. CASE Subscribe(t)       BY <2>1 DEF Subscribe
  <2>2. CASE ProcessLibrary(t)  BY <2>2 DEF ProcessLibrary
  <2>3. CASE Enter(t)           BY <2>3 DEF Enter
  <2>4. CASE Pop(t)             BY <2>4 DEF Pop
  <2>5. CASE RegisterNext(t)    BY <2>5 DEF RegisterNext
  <2>6. CASE FunctionEnds(t)    BY <2>6 DEF FunctionEnds
  <2>7. CASE Relock(t)          BY <2>7 DEF Relock
  <2>8. CASE LoopEnds(t)        BY <2>8 DEF LoopEnds
  <2> QED  BY <1>1, <2>1, <2>2, <2>3, <2>4, <2>5, <2>6, <2>7, <2>8 DEF Managing
<1>2. CASE t \in Threads /\ Getting(t)
  BY <1>0, <1>2 DEF Getting, Exchange, Spin, Check, Construct, Built
<1>3. CASE t \in Threads /\ (Waiting(t) \/ SpuriousWake(t))
  <2> USE <1>0 DEF Asks
  <2>1. CASE SetConstructed(t) \/ NotifyAll(t)  BY <2>1 DEF SetConstructed, NotifyAll
  <2>2. CASE PassBarrier(t) \/ LockBarrier(t)   BY <2>2 DEF PassBarrier, LockBarrier
  <2>3. CASE Test(t)                            BY <1>3, <2>3 DEF Test
  <2>4. CASE Wait(t)                            BY <1>3, <2>4 DEF Wait
  <2>5. CASE Wake(t) \/ SpuriousWake(t)         BY <2>5 DEF Wake, SpuriousWake
  <2> QED  BY <1>3, <2>1, <2>2, <2>3, <2>4, <2>5 DEF Waiting
<1>4. CASE t \in Threads /\ Looking(t)
  <2> USE <1>0 DEF Values
  <2>1. CASE FindCached(t) \/ Find(t)      BY <1>4, <2>1 DEF FindCached, Find
  <2>2. CASE Ensure(t) \/ Skip(t)          BY <1>4, <2>2 DEF Ensure, Skip, Advance
  <2>3. CASE RecordNone(t) \/ Collect(t)   BY <1>4, <2>3 DEF RecordNone, Collect, Advance
  <2>4. CASE Load(t)                       BY <1>4, <2>4 DEF Load
  <2>5. CASE Loaded(t)                     BY <1>4, <2>5 DEF Loaded, LoaderOK
  <2>6. CASE Emplace(t)                    BY <1>4, <2>6 DEF Emplace
  <2> QED  BY <1>4, <2>1, <2>2, <2>3, <2>4, <2>5, <2>6 DEF Looking
<1>5. CASE t \in Threads /\ Registering(t)
  <2> USE <1>0 DEF Asks, Values
  <2>1. CASE SwiftRegister(t)  BY <1>5, <2>1 DEF SwiftRegister
  <2>2. CASE SwiftComplete(t)  BY <1>5, <2>2 DEF SwiftComplete
  <2> QED  BY <1>5, <2>1, <2>2 DEF Registering
<1>6. CASE t \in Threads /\ \E k \in Keys : Call(t, k)
  BY <1>0, <1>6 DEF Call, Values
<1> QED  BY <1>1, <1>2, <1>3, <1>4, <1>5, <1>6 DEF Step

\* Of the others all that has to be known stays as it was.
LEMMA OthersKeep ==
  ASSUME TInv, NEW t \in All, Frame(t)
  PROVE  /\ \A u \in All \ {t} : Manages(u)'
         /\ \A u \in Threads \ {t} : Asks(u)'
<1>1. \A u \in All \ {t} : Manages(u) => Manages(u)'  BY DEF Frame, Manages
<1>2. ASSUME NEW u \in Threads \ {t}, Asks(u) PROVE Asks(u)'
  <2>1. u \in All /\ u # t  BY DEF All
  <2>2. (Looks(u)' <=> Looks(u)) /\ (Reads(u)' <=> Reads(u))
    BY <2>1 DEF Frame, Looks, Reads
  <2>3. script = <<>> => script' = <<>>  BY DEF Frame
  <2>4. u = App => script' = script  BY <2>1 DEF Frame
  <2>5. /\ pc'[u] = pc[u] /\ key'[u] = key[u] /\ index'[u] = index[u]
        /\ (barrier = u => barrier' = u)
    BY <2>1 DEF Frame
  <2> QED  BY <1>2, <2>2, <2>3, <2>4, <2>5 DEF Asks
<1> QED  BY <1>1, <1>2 DEF TInv

-----------------------------------------------------------------------------
(* One step, and the thread that takes it.                                 *)

LEMMA ManagingTypes ==
  ASSUME TInv, NEW t \in All, Managing(t)
  PROVE  Values' /\ Manages(t)' /\ (t \in Threads => Asks(t)')
<1> USE DEF Goto, managerVars, pluginVars, barrierVars, tableVars, swiftVars, lookupVars, runVars
<1>0. /\ None \notin All /\ Threads \cap Others = {} /\ Manages(t) /\ Values
      /\ pc \in [All -> Places] /\ (t \in Threads => Asks(t)) /\ LoaderOK
  BY Constants, RegistryAssumption DEF TInv, All, IInv, Types
<1>1. CASE Subscribe(t)
  <2>1. functions \o worklist \in Seq(Functions) /\ <<>> \in Seq(Functions)
    BY <1>0, Joined, EmptySeq DEF Values
  <2>2. Values'  BY <1>0, <1>1, <2>1 DEF Subscribe, Values
  <2> QED  BY <1>0, <1>1, <2>2 DEF Subscribe, Manages, Asks, Looks, Reads
<1>2. CASE ProcessLibrary(t)
  <2>1. Plugin \o worklist \in Seq(Functions)
    BY <1>0, Joined, Lists DEF Values
  <2>2. Values'  BY <1>0, <1>2, <2>1 DEF ProcessLibrary, Values
  <2> QED  BY <1>0, <1>2, <2>2 DEF ProcessLibrary, Manages, Asks, Looks, Reads
<1>3. CASE Enter(t)
  <2>1. Values'  BY <1>0, <1>3 DEF Enter, Values
  <2> QED  BY <1>0, <1>3, <2>1 DEF Enter, Manages
<1>4. CASE Pop(t)
  <2>1. Head(worklist) \in Functions /\ Tail(worklist) \in Seq(Functions)
    BY <1>0, <1>4, HeadAndTail DEF Pop, Values
  <2>2. Registers[Head(worklist)] \in Seq(Names) /\ Head(worklist) # None
    BY <2>1, RegistryAssumption, Constants
  <2>3. Values'
    <3>1. running' \in [All -> Functions \cup {None}] /\ left' \in [All -> Seq(Names)]
      BY <1>0, <1>4, <2>1, <2>2 DEF Pop, Values
    <3>2. stolen' \subseteq Functions  BY <1>0, <1>4, <2>1 DEF Pop, Values
    <3> QED  BY <1>0, <1>4, <2>1, <3>1, <3>2 DEF Pop, Values
  <2>4. Manages(t)'  BY <1>0, <1>4, <2>2 DEF Pop, Manages, Values
  <2> QED  BY <1>0, <1>4, <2>3, <2>4 DEF Pop, Asks, Looks, Reads
<1>5. CASE RegisterNext(t)
  <2>1. running[t] \in Functions /\ running[t] \in Schemas
    BY <1>0, <1>5, Constants DEF RegisterNext, Manages, Values
  <2>2. left[t] \in Seq(Names) /\ left[t] # <<>>  BY <1>0, <1>5 DEF RegisterNext, Values
  <2>3. Head(left[t]) \in Names /\ Tail(left[t]) \in Seq(Names)  BY <2>2, HeadAndTail
  <2>4. left' \in [All -> Seq(Names)]  BY <1>0, <1>5, <2>3 DEF RegisterNext, Values
  <2>5. definitions' \in [Schemas -> SUBSET Names]
    BY <1>0, <1>5, <2>1, <2>3 DEF RegisterNext, Values
  <2>6. Values'  BY <1>0, <1>5, <2>4, <2>5 DEF RegisterNext, Values
  <2> QED  BY <1>0, <1>5, <2>6 DEF RegisterNext, Manages, Asks, Looks, Reads
<1>6. CASE FunctionEnds(t)
  <2>1. running[t] \in Schemas
    BY <1>0, <1>6, Constants DEF FunctionEnds, Manages, Values
  <2>2. recorded' \in [Schemas -> BOOLEAN \cup {None}]
    BY <1>0, <1>6, <2>1 DEF FunctionEnds, Record, Values
  <2>3. Values'  BY <1>0, <1>6, <2>2 DEF FunctionEnds, Values
  <2> QED  BY <1>0, <1>6, <2>3 DEF FunctionEnds, Manages, Asks, Looks, Reads
<1>7. CASE Relock(t)
  <2>1. Values'  BY <1>0, <1>7 DEF Relock, Values
  <2> QED  BY <1>0, <1>7, <2>1 DEF Relock, Manages, Asks, Looks, Reads
<1>8. CASE LoopEnds(t)
  <2>1. Values'  BY <1>0, <1>8 DEF LoopEnds, Values
  <2> QED  BY <1>0, <1>8, <2>1 DEF LoopEnds, Manages, Asks, Looks, Reads, LoaderOK
<1> QED  BY <1>1, <1>2, <1>3, <1>4, <1>5, <1>6, <1>7, <1>8 DEF Managing

LEMMA GettingTypes ==
  ASSUME TInv, NEW t \in Threads, Getting(t) \/ \E k \in Keys : Call(t, k)
  PROVE  Values' /\ Manages(t)' /\ Asks(t)'
<1> USE DEF Goto, managerVars, pluginVars, barrierVars, tableVars, swiftVars, lookupVars, runVars
<1>0. /\ None \notin All /\ t \in All /\ t \notin Others /\ Manages(t) /\ Asks(t) /\ Values
      /\ pc \in [All -> Places] /\ LoaderOK
  BY Constants, RegistryAssumption DEF TInv, All, IInv, Types
<1>1. CASE Getting(t)
  <2>1. Values'  BY <1>1 DEF TInv, Values, Getting, Exchange, Spin, Check, Construct, Built
  <2>2. Manages(t)'
    BY <1>0, <1>1 DEF Manages, Getting, Exchange, Spin, Check, Construct, Built, Entered
  <2>3. Asks(t)'
    BY <1>0, <1>1 DEF Asks, Looks, Reads, LoaderOK, Getting, Exchange, Spin, Check, Construct,
                      Built, Entered
  <2> QED  BY <2>1, <2>2, <2>3
<1>2. ASSUME NEW k \in Keys, Call(t, k) PROVE Values' /\ Manages(t)' /\ Asks(t)'
  <2>1. Values'  BY <1>0, <1>2 DEF Values, Call
  <2>2. Manages(t)'  BY <1>0, <1>2 DEF Manages, Call, Entered
  <2>3. key'[t] \in Keys  BY <1>0, <1>2 DEF Call, Values
  <2>4. Asks(t)'  BY <1>0, <1>2, <2>3 DEF Asks, Looks, Reads, LoaderOK, Call, Entered
  <2> QED  BY <2>1, <2>2, <2>4
<1> QED  BY <1>1, <1>2

LEMMA WaitingTypes ==
  ASSUME TInv, NEW t \in Threads, Waiting(t) \/ SpuriousWake(t)
  PROVE  Values' /\ Manages(t)' /\ Asks(t)'
<1> USE DEF Goto, managerVars, pluginVars, barrierVars, tableVars, swiftVars, lookupVars, runVars
<1>0. /\ None \notin All /\ t \in All /\ t \notin Others /\ Manages(t) /\ Asks(t) /\ Values
      /\ pc \in [All -> Places] /\ LoaderOK
  BY Constants, RegistryAssumption DEF TInv, All, IInv, Types
<1>1. Values'
  <2> USE DEF Values
  <2>1. CASE SetConstructed(t) \/ NotifyAll(t)  BY <1>0, <2>1 DEF SetConstructed, NotifyAll
  <2>2. CASE PassBarrier(t) \/ LockBarrier(t)   BY <1>0, <2>2 DEF PassBarrier, LockBarrier
  <2>3. CASE Test(t) \/ Wait(t)                 BY <1>0, <2>3 DEF Test, Wait
  <2>4. CASE Wake(t) \/ SpuriousWake(t)         BY <1>0, <2>4 DEF Wake, SpuriousWake
  <2> QED  BY <2>1, <2>2, <2>3, <2>4 DEF Waiting
<1>2. Manages(t)'
  BY <1>0 DEF Manages, Waiting, SetConstructed, NotifyAll, PassBarrier, LockBarrier, Test, Wait,
              Wake, SpuriousWake
<1>3. Asks(t)'
  <2> USE <1>0 DEF Asks, Looks, Reads, LoaderOK
  <2>1. CASE SetConstructed(t) \/ NotifyAll(t)  BY <2>1 DEF SetConstructed, NotifyAll
  <2>2. CASE PassBarrier(t) \/ LockBarrier(t)   BY <2>2 DEF PassBarrier, LockBarrier
  <2>3. CASE Test(t) \/ Wait(t)                 BY <2>3 DEF Test, Wait
  <2>4. CASE Wake(t) \/ SpuriousWake(t)         BY <2>4 DEF Wake, SpuriousWake
  <2> QED  BY <2>1, <2>2, <2>3, <2>4 DEF Waiting
<1> QED  BY <1>1, <1>2, <1>3

\* The index of the next schema, or the one past the last.
LEMMA NextIndex ==
  ASSUME NEW k \in Keys, NEW i \in 1..Len(Expanded[k])
  PROVE  /\ i + 1 \in Nat /\ Expanded[k][i] \in Schemas
         /\ i # Len(Expanded[k]) => i + 1 \in 1..Len(Expanded[k])
<1>1. Expanded[k] \in Seq(Schemas)  BY RegistryAssumption
<1>2. Len(Expanded[k]) \in Nat  BY <1>1, LenProperties
<1>3. Expanded[k][i] \in Schemas  BY <1>1, ElementOfSeq
<1> QED  BY <1>2, <1>3

LEMMA LookingTypes ==
  ASSUME TInv, NEW t \in Threads, Looking(t)
  PROVE  Values' /\ Manages(t)' /\ Asks(t)'
<1> USE DEF Goto, managerVars, pluginVars, barrierVars, tableVars, swiftVars, lookupVars, runVars
<1>0. /\ None \notin All /\ t \in All /\ t \notin Others /\ Manages(t) /\ Asks(t) /\ Values
      /\ pc \in [All -> Places] /\ LoaderOK
  BY Constants, RegistryAssumption DEF TInv, All, IInv, Types
<1>1. Manages(t)'
  BY <1>0 DEF Manages, Looking, FindCached, Find, Ensure, Skip, RecordNone, Load, Loaded,
              Collect, Emplace, Advance
<1>2. key[t] \in Keys  BY <1>0 DEF Asks, Looking, FindCached, Find, Ensure, Skip, RecordNone,
                                   Load, Loaded, Collect, Emplace
<1>3. Reads(t) => /\ index[t] \in 1..Len(Expanded[key[t]]) /\ index[t] + 1 \in Nat
                  /\ Schema(t) \in Schemas
                  /\ index[t] # Len(Expanded[key[t]]) => index[t] + 1 \in 1..Len(Expanded[key[t]])
  BY <1>0, <1>2, NextIndex DEF Asks, Schema
<1>4. ASSUME Reads(t), Advance(t), UNCHANGED <<key, script, barrier, loader>>,
             pc[t] \notin {"Process", "Loop", "Run", "Relock", "Loaded"}
      PROVE  Asks(t)' /\ index' \in [Threads -> Nat]
  <2>1. index'[t] = index[t] + 1 /\ index' \in [Threads -> Nat]
    BY <1>0, <1>3, <1>4 DEF Advance, Values
  <2>2. loader # t /\ script = <<>>  BY <1>0, <1>4 DEF Asks, Reads, LoaderOK
  <2>3. CASE index[t] = Len(Expanded[key[t]])
    <3>1. pc'[t] = "Emplace"  BY <1>0, <1>4, <2>3 DEF Advance
    <3> QED  BY <1>0, <1>2, <1>4, <2>1, <2>2, <2>3, <3>1 DEF Asks, Looks, Reads
  <2>4. CASE index[t] # Len(Expanded[key[t]])
    <3>1. pc'[t] = "Ensure"  BY <1>0, <1>4, <2>4 DEF Advance
    <3>2. index'[t] \in 1..Len(Expanded[key[t]])  BY <1>3, <1>4, <2>1, <2>4
    <3> QED  BY <1>0, <1>2, <1>4, <2>1, <2>2, <3>1, <3>2 DEF Asks, Looks, Reads
  <2> QED  BY <2>1, <2>3, <2>4
<1>5. CASE FindCached(t)
  BY <1>0, <1>1, <1>5 DEF FindCached, Values, Asks, Looks, Reads, LoaderOK
<1>6. CASE Find(t)
  <2>1. index' \in [Threads -> Nat] /\ index'[t] = 1  BY <1>0, <1>6 DEF Find, Values
  <2>2. Values'  BY <1>0, <1>6, <2>1 DEF Find, Values
  <2>3. Expanded[key[t]] \in Seq(Schemas)  BY <1>2, RegistryAssumption
  <2>4. /\ Expanded[key[t]] = <<>> => Len(Expanded[key[t]]) = 0
        /\ Expanded[key[t]] # <<>> => 1 \in 1..Len(Expanded[key[t]])
    BY <2>3, LenProperties, EmptySeq
  <2>5. Asks(t)'  BY <1>0, <1>2, <1>6, <2>1, <2>4 DEF Find, Asks, Looks, Reads, LoaderOK
  <2> QED  BY <1>1, <2>2, <2>5
<1>7. CASE Ensure(t)
  BY <1>0, <1>1, <1>7 DEF Ensure, Values, Asks, Looks, Reads, LoaderOK
<1>8. CASE Skip(t)
  <2>1. Reads(t)  BY <1>8 DEF Skip, Reads, Looks
  <2>2. Asks(t)' /\ index' \in [Threads -> Nat]  BY <1>4, <1>8, <2>1 DEF Skip
  <2>3. Values'  BY <1>0, <1>8, <2>2 DEF Skip, Values
  <2> QED  BY <1>1, <2>2, <2>3
<1>9. CASE RecordNone(t)
  <2>1. Reads(t)  BY <1>9 DEF RecordNone, Reads, Looks
  <2>2. Asks(t)' /\ index' \in [Threads -> Nat]  BY <1>4, <1>9, <2>1 DEF RecordNone
  <2>3. recorded' \in [Schemas -> BOOLEAN \cup {None}]
    BY <1>0, <1>3, <1>9, <2>1 DEF RecordNone, Record, Values
  <2>4. Values'  BY <1>0, <1>9, <2>2, <2>3 DEF RecordNone, Values
  <2> QED  BY <1>1, <2>2, <2>4
<1>10. CASE Load(t)
  <2>1. Values'  BY <1>0, <1>10 DEF Load, Values
  <2> QED  BY <1>0, <1>1, <1>10, <2>1 DEF Load, Asks, Looks, Reads
<1>11. CASE Loaded(t)
  <2>1. Values'  BY <1>0, <1>11 DEF Loaded, Values
  <2> QED  BY <1>0, <1>1, <1>11, <2>1 DEF Loaded, Asks, Looks, Reads
<1>12. CASE Collect(t)
  <2>1. Reads(t)  BY <1>12 DEF Collect, Reads, Looks
  <2>2. Asks(t)' /\ index' \in [Threads -> Nat]  BY <1>4, <1>12, <2>1 DEF Collect
  <2>3. \A n \in definitions[Schema(t)] : <<Schema(t), n>> \in Schemas \X Names
    BY <1>0, <1>3, <2>1 DEF Values
  <2>4. found' \in [Threads -> SUBSET (Schemas \X Names)]
    BY <1>0, <1>12, <2>3 DEF Collect, Values
  <2>5. Values'  BY <1>0, <1>12, <2>2, <2>4 DEF Collect, Values
  <2> QED  BY <1>1, <2>2, <2>5
<1>13. CASE Emplace(t)
  <2>1. index' \in [Threads -> Nat] /\ found' \in [Threads -> SUBSET (Schemas \X Names)]
    BY <1>0, <1>13 DEF Emplace, Values
  <2>2. composed' \in [Keys -> {None} \cup (SUBSET (Schemas \X Names))]
    BY <1>0, <1>2, <1>13 DEF Emplace, Values
  <2>3. Values'  BY <1>0, <1>13, <2>1, <2>2 DEF Emplace, Values
  <2> QED  BY <1>0, <1>1, <1>13, <2>3 DEF Emplace, Asks, Looks, Reads, LoaderOK
<1> QED
  BY <1>5, <1>6, <1>7, <1>8, <1>9, <1>10, <1>11, <1>12, <1>13 DEF Looking

LEMMA RegisteringTypes ==
  ASSUME TInv, NEW t \in Threads, Registering(t)
  PROVE  Values' /\ Manages(t)' /\ Asks(t)'
<1> USE DEF Goto, managerVars, pluginVars, barrierVars, tableVars, swiftVars, lookupVars, runVars
<1>0. /\ None \notin All /\ t \in All /\ t \notin Others /\ Manages(t) /\ Asks(t) /\ Values
      /\ pc \in [All -> Places] /\ LoaderOK
  BY Constants, RegistryAssumption DEF TInv, All, IInv, Types
<1>1. script # <<>>  BY <1>0 DEF Registering, SwiftRegister, SwiftComplete, Asks
<1>2. Head(script) \in Schemas \X Names /\ Tail(script) \in Seq(Schemas \X Names)
  BY <1>0, <1>1, HeadAndTail DEF Values
<1>3. /\ Head(script)[1] \in Schemas /\ Head(script)[2] \in Names
      /\ <<Head(script)[1], Head(script)[2]>> \in Schemas \X Names
  BY <1>2
<1>4. CASE SwiftRegister(t)
  <2>1. definitions' \in [Schemas -> SUBSET Names] /\ rejected' \subseteq Schemas \X Names
    <3>1. CASE Accepted(Head(script)[1]) /\ Head(script)[2] \notin definitions[Head(script)[1]]
      <4>1. /\ definitions' = [definitions EXCEPT ![Head(script)[1]] = @ \cup {Head(script)[2]}]
            /\ rejected' = rejected
        BY <1>4, <3>1 DEF SwiftRegister
      <4>2. definitions[Head(script)[1]] \cup {Head(script)[2]} \in SUBSET Names
        BY <1>0, <1>3 DEF Values
      <4> QED  BY <1>0, <1>3, <4>1, <4>2 DEF Values
    <3>2. CASE ~(Accepted(Head(script)[1]) /\ Head(script)[2] \notin definitions[Head(script)[1]])
      BY <1>0, <1>3, <1>4, <3>2 DEF SwiftRegister, Values
    <3> QED  BY <3>1, <3>2
  <2>2. Values'  BY <1>0, <1>4, <2>1 DEF SwiftRegister, Values
  <2> QED  BY <1>0, <1>1, <1>4, <2>2 DEF SwiftRegister, Manages, Asks, Looks, Reads, LoaderOK
<1>5. CASE SwiftComplete(t)
  <2>1. recorded' \in [Schemas -> BOOLEAN \cup {None}]
    BY <1>0, <1>3, <1>5 DEF SwiftComplete, Record, Values
  <2>2. Values'  BY <1>0, <1>2, <1>5, <2>1 DEF SwiftComplete, Values
  <2> QED  BY <1>0, <1>5, <2>2 DEF SwiftComplete, Manages, Asks, Looks, Reads, LoaderOK
<1> QED  BY <1>4, <1>5 DEF Registering

LEMMA StepTypes == ASSUME TInv, [Next]_vars PROVE TInv'
<1>1. IInv'  BY StepInv DEF TInv
<1>2. ASSUME NEW t \in All,
             Step(t) \/ (t \in Threads /\ (SpuriousWake(t) \/ \E k \in Keys : Call(t, k)))
      PROVE  TInv'
  <2>1. Frame(t)  BY <1>2, FrameHolds
  <2>2. (\A u \in All \ {t} : Manages(u)') /\ (\A u \in Threads \ {t} : Asks(u)')
    BY <2>1, OthersKeep
  <2>3. Values' /\ Manages(t)' /\ (t \in Threads => Asks(t)')
    BY <1>2, ManagingTypes, GettingTypes, WaitingTypes, LookingTypes, RegisteringTypes DEF Step
  <2>4. Values'  BY <2>3
  <2>5. \A u \in All : Manages(u)'  BY <2>2, <2>3
  <2>6. \A u \in Threads : Asks(u)'  BY <2>2, <2>3
  <2> QED  BY <1>1, <2>4, <2>5, <2>6 DEF TInv
<1>3. CASE UNCHANGED vars
  BY <1>1, <1>3 DEF vars, singletonVars, barrierVars, managerVars, pluginVars, tableVars, swiftVars,
     lookupVars, runVars, TInv, Values, Manages, Asks, Looks, Reads
<1>4. CASE Next
  <2>1. CASE \E t \in All : Step(t)
    <3>1. PICK t \in All : Step(t)  BY <2>1
    <3> QED  BY <1>2, <3>1
  <2>2. CASE \E t \in Threads : SpuriousWake(t) \/ \E k \in Keys : Call(t, k)
    <3>1. PICK t \in Threads : SpuriousWake(t) \/ \E k \in Keys : Call(t, k)  BY <2>2
    <3>2. t \in All  BY DEF All
    <3> QED  BY <1>2, <3>1, <3>2
  <2> QED  BY <1>4, <2>1, <2>2 DEF Next
<1> QED  BY <1>3, <1>4

\* Every variable keeps its type; a thread of the registry manager's loop holds its
\* mutex, one that loads the plugin the plugin's, one that tests the barrier's flag
\* the barrier's.
THEOREM TypeCorrect == Spec => []TypeOK
<1>1. Init => TInv  BY InitTypes
<1>2. TInv /\ [Next]_vars => TInv'  BY StepTypes
<1>3. ASSUME TInv PROVE TypeOK
  <2>1. \A k \in Keys : composed[k] = None \/ composed[k] \subseteq Schemas \X Names
    <3> DEFINE A == SUBSET (Schemas \X Names)
    <3>1. composed \in [Keys -> {None} \cup A]  BY <1>3 DEF TInv, Values
    <3> HIDE DEF A
    <3>2. \A k \in Keys : composed[k] = None \/ composed[k] \in A  BY <3>1
    <3> QED  BY <3>2 DEF A
  <2>2. pc \in [All -> Places]  BY <1>3 DEF TInv, IInv, Types
  <2>3. \A t \in All : /\ pc[t] = "Loop" => mutex = t
                       /\ pc[t] = "Run" => running[t] # None
    BY <1>3 DEF TInv, Manages
  <2>4. \A t \in All : pc[t] \in {"Process", "Loaded"} => loader = t
    BY <1>3 DEF TInv, IInv, LoaderOK
  <2>5. \A t \in All : pc[t] \in {"Test", "Wait"} => barrier = t
    BY <1>3, <2>2 DEF TInv, Asks, Manages, All
  <2>6. /\ instance \in BOOLEAN /\ initializing \in BOOLEAN /\ built \in Nat
        /\ loader \in Threads \cup {None}
    BY <1>3 DEF TInv, IInv, Types, LoaderOK
  <2>7. Values  BY <1>3 DEF TInv
  <2> QED  BY <2>1, <2>2, <2>3, <2>4, <2>5, <2>6, <2>7 DEF Places, Values, TypeOK
<1> QED  BY <1>1, <1>2, <1>3, PTL DEF Spec

(***************************************************************************)
(* What is registered.                                                     *)
(***************************************************************************)

\* A registration from Swift completes its schema; for a schema of the plugin it
\* would take the place of the plugin's.
SwiftElsewhere == \A p \in Scripts : \A i \in DOMAIN p : p[i][1] \notin ToSet(Plugin)

\* Of a schema with a registry function: it has run, or another registry's thread
\* took it.
Provided(s) == s \in stolen \/ recorded[s] = TRUE

\* Registry functions complete what they register, Swift does it before anything
\* is composed, and nothing but the lack of a function is recorded as such.
Tables ==
  /\ \A i \in DOMAIN script : script[i][1] \notin ToSet(Plugin)
  /\ \A k \in Keys : composed[k] # None => script = <<>>
  /\ \A s \in Schemas : recorded[s] = FALSE =>
                          script = <<>> /\ (s \in Functions => s \in stolen)
  /\ \A s \in Functions \ stolen :
       /\ definitions[s] \subseteq ToSet(Registers[s])
       /\ recorded[s] = TRUE => definitions[s] = ToSet(Registers[s])
  /\ \A s \in Schemas \ Functions :
       definitions[s] # {} => \/ recorded[s] = TRUE
                              \/ pc[App] = "Complete" /\ Head(script)[1] = s

\* As long as other threads keep out of it, a function has registered what it has
\* not left to register.
Runs(t) ==
  pc[t] = "Run" =>
    /\ recorded[running[t]] = None /\ running[t] \notin stolen =>
         ToSet(Registers[running[t]]) = definitions[running[t]] \cup ToSet(left[t])
    /\ t \in Others => running[t] \in stolen

\* Every function of the loaded libraries has run when the barrier opens, and every
\* one of the plugin when it is loaded ...
Opened ==
  /\ built = 0 => ~open /\ functions = Linked
  /\ open => \A s \in ToSet(Linked) : Provided(s)
  /\ loaded => \A s \in ToSet(Plugin) : Provided(s)

\* ... because what the thread that subscribed put on the worklist stays there,
\* or is what this thread runs, until it has run.
Pending(t, s) == s \in ToSet(worklist) \/ (pc[t] = "Run" /\ running[t] = s) \/ Provided(s)

Working == {"Loop", "Run", "Relock"}

\* The thread that constructed the registry has it filled ...
Subscribing(t) == \/ pc[t] \in {"Subscribe", "SetConstructed"}
                  \/ pc[t] \in Working /\ loader # t

\* ... and a thread that finds it constructed without being filled finds this one.
InstanceOpens == instance => open \/ \E t \in Threads : Subscribing(t)

Opens(t) ==
  /\ Inside(t) /\ pc[t] # "Check" => built = 1
  /\ pc[t] \in {"Construct", "Subscribe"} => functions = Linked
  /\ Inside(t) /\ pc[t] \notin {"Check", "Built", "NotifyAll"} => ~open
  /\ pc[t] \in Working /\ loader # t => \A s \in ToSet(Linked) : Pending(t, s)
  /\ pc[t] = "SetConstructed" => \A s \in ToSet(Linked) : Provided(s)
  /\ pc[t] \in {"NotifyAll", "Built", "Register", "Complete"} => open

Loads(t) ==
  /\ Looks(t) => open
  /\ pc[t] = "Load" \/ loader = t => Schema(t) \in ToSet(Plugin)
  /\ pc[t] \in Working /\ loader = t => \A s \in ToSet(Plugin) : Pending(t, s)
  /\ pc[t] = "Loaded" => \A s \in ToSet(Plugin) : Provided(s)
  /\ pc[t] = "Collect" => Provided(Schema(t))
  /\ pc[t] = "RecordNone" => \/ Schema(t) \in stolen
                             \/ Schema(t) \notin Functions /\ recorded[Schema(t)] # TRUE

RInv == /\ TInv /\ Tables /\ Opened /\ InstanceOpens
        /\ \A t \in All : Runs(t)
        /\ \A t \in Threads : Opens(t) /\ Loads(t)

-----------------------------------------------------------------------------
\* What is recorded stays so, and what Swift registered is all there is to it when
\* a lookup comes.
Grows ==
  /\ stolen \subseteq stolen'
  /\ \A s \in Schemas : /\ recorded[s] # None => recorded'[s] = recorded[s]
                        /\ definitions[s] \subseteq definitions'[s]
  /\ script = <<>> =>
       /\ script' = <<>>
       /\ \A s \in Schemas \ Functions : /\ definitions'[s] = definitions[s]
                                         /\ recorded'[s] = TRUE => recorded[s] = TRUE

LEMMA GrowsHolds ==
  ASSUME TInv, NEW t \in All,
         Step(t) \/ (t \in Threads /\ (SpuriousWake(t) \/ \E k \in Keys : Call(t, k)))
  PROVE  Grows
<1> USE DEF Grows, tableVars, swiftVars, managerVars, Goto
<1>0. /\ Values /\ Manages(t) /\ (t \in Threads => Asks(t)) /\ None \notin BOOLEAN
      /\ Functions \subseteq Schemas
  BY Constants DEF TInv
<1>1. CASE Managing(t)
  <2>1. CASE RegisterNext(t)
    <3>1. running[t] \in Functions  BY <1>0, <2>1 DEF Manages, Values, RegisterNext
    <3> QED  BY <1>0, <2>1, <3>1 DEF RegisterNext, Values
  <2>2. CASE FunctionEnds(t)
    <3>1. running[t] \in Functions  BY <1>0, <2>2 DEF Manages, Values, FunctionEnds
    <3> QED  BY <1>0, <2>2, <3>1 DEF FunctionEnds, Record, Values
  <2>3. CASE Pop(t)  BY <2>3 DEF Pop
  <2>4. CASE Subscribe(t) \/ ProcessLibrary(t) \/ Enter(t) \/ Relock(t) \/ LoopEnds(t)
    BY <2>4 DEF Subscribe, ProcessLibrary, Enter, Relock, LoopEnds
  <2> QED  BY <1>1, <2>1, <2>2, <2>3, <2>4 DEF Managing
<1>2. CASE t \in Threads /\ Looking(t)
  <2>1. CASE RecordNone(t)  BY <1>0, <2>1 DEF RecordNone, Record, Values
  <2>2. CASE FindCached(t) \/ Find(t) \/ Ensure(t) \/ Skip(t) \/ Load(t) \/ Loaded(t)
             \/ Collect(t) \/ Emplace(t)
    BY <2>2 DEF FindCached, Find, Ensure, Skip, Load, Loaded, Collect, Emplace
  <2> QED  BY <1>2, <2>1, <2>2 DEF Looking
<1>3. CASE t \in Threads /\ Registering(t)
  <2>1. script # <<>>  BY <1>0, <1>3 DEF Asks, Registering, SwiftRegister, SwiftComplete
  <2>2. CASE SwiftRegister(t)  BY <1>0, <2>1, <2>2 DEF SwiftRegister, Values
  <2>3. CASE SwiftComplete(t)
    BY <1>0, <2>1, <2>3 DEF SwiftComplete, Record, Values
  <2> QED  BY <1>3, <2>2, <2>3 DEF Registering
<1>4. CASE /\ t \in Threads
           /\ Getting(t) \/ Waiting(t) \/ SpuriousWake(t) \/ \E k \in Keys : Call(t, k)
  BY <1>4 DEF Getting, Exchange, Spin, Check, Construct, Built, Waiting, SetConstructed, NotifyAll,
     PassBarrier, LockBarrier, Test, Wait, Wake, SpuriousWake, Call
<1> QED  BY <1>1, <1>2, <1>3, <1>4 DEF Step

\* Only a thread inside constructs and opens; a function leaves the worklist for
\* the thread that runs it.
Quiet(t) ==
  /\ ~Inside(t) => UNCHANGED <<built, functions, open>>
  /\ open => open'
  /\ \A s \in Functions :
       s \in ToSet(worklist) => \/ s \in ToSet(worklist') \/ s \in stolen'
                                \/ /\ t \in Threads /\ pc[t] = "Loop"
                                   /\ pc'[t] = "Run" /\ running'[t] = s
  /\ ~loaded => ~loaded' \/ pc[t] = "Loaded"

LEMMA QuietHolds ==
  ASSUME TInv, NEW t \in All,
         Step(t) \/ (t \in Threads /\ (SpuriousWake(t) \/ \E k \in Keys : Call(t, k)))
  PROVE  Quiet(t)
<1> USE DEF Quiet, singletonVars, barrierVars, managerVars, pluginVars, Goto
<1>0. Values /\ pc \in [All -> Places]  BY DEF TInv, IInv, Types
<1>1. CASE Managing(t)
  <2>1. CASE Pop(t)
    <3>1. ToSet(worklist) = {Head(worklist)} \cup ToSet(Tail(worklist))
      BY <1>0, <2>1, HeadAndTail DEF Pop, Values
    <3>2. pc'[t] = "Run" /\ running'[t] = Head(worklist)
      BY <1>0, <2>1 DEF Pop, Values
    <3>3. t \in Others \/ t \in Threads  BY DEF All
    <3> QED  BY <2>1, <3>1, <3>2, <3>3 DEF Pop
  <2>2. CASE Subscribe(t)
    <3>1. ToSet(worklist) \subseteq ToSet(functions \o worklist)
      BY <1>0, Joined DEF Values
    <3>2. Inside(t)  BY <2>2 DEF Subscribe, Inside, Constructing
    <3> QED  BY <2>2, <3>1, <3>2 DEF Subscribe
  <2>3. CASE ProcessLibrary(t)
    <3>1. ToSet(worklist) \subseteq ToSet(Plugin \o worklist)
      BY <1>0, Joined, Lists DEF Values
    <3> QED  BY <2>3, <3>1 DEF ProcessLibrary
  <2>4. CASE RegisterNext(t) \/ FunctionEnds(t) \/ Enter(t) \/ Relock(t) \/ LoopEnds(t)
    <3>1. UNCHANGED <<built, functions, open, worklist, loaded>>
      BY <2>4 DEF RegisterNext, FunctionEnds, Enter, Relock, LoopEnds
    <3> QED  BY <3>1
  <2> QED  BY <1>1, <2>1, <2>2, <2>3, <2>4 DEF Managing
<1>2. CASE t \in Threads /\ Looking(t)
  <2>1. UNCHANGED <<built, functions, open, worklist>> /\ (loaded' = loaded \/ pc[t] = "Loaded")
    BY <1>2 DEF Looking, FindCached, Find, Ensure, Skip, RecordNone, Load, Loaded, Collect, Emplace
  <2> QED  BY <2>1
<1>3. CASE t \in Threads /\ Registering(t)
  <2>1. UNCHANGED <<built, functions, open, worklist, loaded>>
    BY <1>3 DEF Registering, SwiftRegister, SwiftComplete
  <2> QED  BY <2>1
<1>4. CASE /\ t \in Threads
           /\ Getting(t) \/ Waiting(t) \/ SpuriousWake(t) \/ \E k \in Keys : Call(t, k)
  BY <1>4 DEF Getting, Exchange, Spin, Check, Construct, Built, Waiting, SetConstructed, NotifyAll,
     PassBarrier, LockBarrier, Test, Wait, Wake, SpuriousWake, Call, Inside, Constructing
<1> QED  BY <1>1, <1>2, <1>3, <1>4 DEF Step

-----------------------------------------------------------------------------
(* The threads that take no step.                                          *)

LEMMA ProvidedForGood ==
  ASSUME TInv, Grows
  PROVE  \A s \in Schemas : Provided(s) => Provided(s)'
<1>1. None # TRUE  BY Constants
<1> QED  BY <1>1 DEF Grows, Provided

\* One thread at a time runs functions to construct or to load.
LEMMA WorksAlone ==
  ASSUME RInv, NEW t \in Threads, NEW u \in Threads, pc[t] \in Working, pc[u] \in Working
  PROVE  t = u
<1>1. t \in All /\ u \in All /\ Opens(t) /\ Opens(u) /\ Loads(t) /\ Loads(u)
  BY DEF RInv, All
<1>2. CASE loader # t /\ loader # u
  BY <1>1, <1>2 DEF RInv, TInv, IInv, InsideAlone, Inside, Working
<1>3. CASE loader = t /\ loader # u
  <2>1. open  BY <1>1, <1>3 DEF Loads, Looks
  <2> QED  BY <1>1, <1>3, <2>1 DEF Opens, Inside, Working
<1>4. CASE loader = u /\ loader # t
  <2>1. open  BY <1>1, <1>4 DEF Loads, Looks
  <2> QED  BY <1>1, <1>4, <2>1 DEF Opens, Inside, Working
<1> QED  BY <1>2, <1>3, <1>4

LEMMA RunsOn ==
  ASSUME RInv, NEW t \in All, Frame(t), Grows, Tables'
  PROVE  \A u \in All \ {t} : Runs(u)'
<1> SUFFICES ASSUME NEW u \in All \ {t}, pc[u] = "Run"
             PROVE  Runs(u)'
  BY DEF Runs, Frame
<1>1. pc'[u] = pc[u] /\ running'[u] = running[u] /\ left'[u] = left[u]  BY DEF Frame
<1>2. running[u] \in Functions /\ running[u] \in Schemas /\ Runs(u)
  BY Constants DEF RInv, TInv, Manages, Values
<1> DEFINE s == running[u]
<1>4. s \in stolen => s \in stolen'  BY DEF Grows
<1>5. recorded'[s] = None => recorded[s] = None  BY <1>2 DEF Grows
<1>6. definitions[s] \subseteq definitions'[s]  BY <1>2 DEF Grows
<1>7. s \notin stolen' => definitions'[s] \subseteq ToSet(Registers[s])  BY <1>2 DEF Tables
<1> QED  BY <1>1, <1>2, <1>4, <1>5, <1>6, <1>7 DEF Runs

LEMMA OpensOn ==
  ASSUME RInv, NEW t \in All, Frame(t), Grows, Quiet(t)
  PROVE  \A u \in Threads \ {t} : Opens(u)'
<1> SUFFICES ASSUME NEW u \in Threads \ {t}
             PROVE  Opens(u)'
  OBVIOUS
<1>1. /\ u \in All /\ u # t /\ pc'[u] = pc[u] /\ running'[u] = running[u]
      /\ (loader' = u <=> loader = u)
  BY DEF All, Frame
<1>2. Inside(u)' <=> Inside(u)  BY <1>1 DEF Inside
<1>3. Inside(u) => UNCHANGED <<built, functions, open>>
  <2>1. Inside(u) => ~Inside(t)  BY <1>1 DEF RInv, TInv, IInv, InsideAlone
  <2> QED  BY <2>1 DEF Quiet
<1>4. \A s \in Functions : Provided(s) => Provided(s)'  BY ProvidedForGood, Constants DEF RInv
<1>5. ASSUME pc[u] \in Working, NEW s \in Functions, Pending(u, s)
      PROVE  Pending(u, s)'
  <2>1. CASE s \in ToSet(worklist)
    <3>1. ~(t \in Threads /\ pc[t] = "Loop")  BY <1>1, <1>5, WorksAlone DEF Working
    <3>2. s \in ToSet(worklist') \/ s \in stolen'  BY <2>1, <3>1 DEF Quiet
    <3> QED  BY <3>2 DEF Pending, Provided
  <2>2. CASE pc[u] = "Run" /\ running[u] = s  BY <1>1, <2>2 DEF Pending
  <2>3. CASE Provided(s)  BY <1>4, <2>3 DEF Pending
  <2> QED  BY <1>5, <2>1, <2>2, <2>3 DEF Pending
<1>6. Opens(u) /\ ToSet(Linked) \subseteq Functions  BY Constants DEF RInv
<1>7. pc[u] \in {"Construct", "Subscribe", "SetConstructed"} => Inside(u)
  BY DEF Inside, Constructing
<1>8. open => open'  BY DEF Quiet
<1> QED  BY <1>1, <1>2, <1>3, <1>4, <1>5, <1>6, <1>7, <1>8 DEF Opens

LEMMA LoadsOn ==
  ASSUME RInv, NEW t \in All, Frame(t), Grows, Quiet(t)
  PROVE  \A u \in Threads \ {t} : Loads(u)'
<1> SUFFICES ASSUME NEW u \in Threads \ {t}
             PROVE  Loads(u)'
  OBVIOUS
<1>1. /\ u \in All /\ u # t /\ pc'[u] = pc[u] /\ running'[u] = running[u]
      /\ (loader' = u <=> loader = u) /\ key'[u] = key[u] /\ index'[u] = index[u]
  BY DEF All, Frame
<1>2. (Looks(u)' <=> Looks(u)) /\ Schema(u)' = Schema(u)  BY <1>1 DEF Looks, Schema
<1>3. open => open'  BY DEF Quiet
<1>4. \A s \in Schemas : Provided(s) => Provided(s)'  BY ProvidedForGood DEF RInv
<1>5. ASSUME pc[u] \in Working, NEW s \in Functions, Pending(u, s)
      PROVE  Pending(u, s)'
  <2>1. CASE s \in ToSet(worklist)
    <3>1. ~(t \in Threads /\ pc[t] = "Loop")  BY <1>1, <1>5, WorksAlone DEF Working
    <3>2. s \in ToSet(worklist') \/ s \in stolen'  BY <2>1, <3>1 DEF Quiet
    <3> QED  BY <3>2 DEF Pending, Provided
  <2>2. CASE pc[u] = "Run" /\ running[u] = s  BY <1>1, <2>2 DEF Pending
  <2>3. CASE Provided(s)  BY <1>4, <2>3, Constants DEF Pending
  <2> QED  BY <1>5, <2>1, <2>2, <2>3 DEF Pending
<1>6. Loads(u) /\ ToSet(Plugin) \subseteq Functions /\ Functions \subseteq Schemas
  BY Constants DEF RInv
<1>7. Looks(u) => script = <<>>  BY DEF RInv, TInv, Asks
<1>8. Reads(u) => Schema(u) \in Schemas
  <2>1. Reads(u) => key[u] \in Keys /\ index[u] \in 1..Len(Expanded[key[u]])
    <3>1. Asks(u) /\ LoaderOK  BY DEF RInv, TInv, IInv
    <3> QED  BY <1>1, <3>1 DEF Asks, Reads, Looks, LoaderOK
  <2> QED  BY <2>1, NextIndex DEF Schema
<1>9. CASE pc[u] = "RecordNone"
  <2>1. Reads(u) /\ script = <<>>  BY <1>7, <1>9 DEF Reads, Looks
  <2>2. \/ Schema(u) \in stolen'
        \/ Schema(u) \notin Functions /\ recorded'[Schema(u)] # TRUE
    BY <1>6, <1>8, <1>9, <2>1 DEF Loads, Grows
  <2> QED  BY <1>1, <1>2, <1>3, <1>4, <1>5, <1>6, <1>9, <2>2 DEF Loads, Working
<1>10. CASE pc[u] = "Collect"
  <2>1. Schema(u) \in Schemas  BY <1>8, <1>10 DEF Reads, Looks
  <2>2. Provided(Schema(u))  BY <1>6, <1>10 DEF Loads
  <2>3. (Provided(Schema(u)))'
    <3>1. PICK s \in Schemas : s = Schema(u)  BY <2>1
    <3>2. Provided(s)'  BY <1>4, <2>2, <3>1
    <3> QED  BY <1>2, <3>1, <3>2 DEF Provided
  <2> QED  BY <1>1, <1>2, <1>3, <1>4, <1>5, <1>6, <1>10, <2>3 DEF Loads, Working
<1>11. CASE pc[u] \notin {"RecordNone", "Collect"}
  BY <1>1, <1>2, <1>3, <1>4, <1>5, <1>6, <1>11 DEF Loads
<1> QED  BY <1>9, <1>10, <1>11

-----------------------------------------------------------------------------
(* The thread that takes a step.                                           *)

LEMMA TablesKeep ==
  ASSUME RInv, NEW t \in All, Frame(t), stolen \subseteq stolen',
         UNCHANGED <<script, composed, recorded, definitions>>,
         t = App => pc[t] # "Complete"
  PROVE  Tables'
<1>1. App \in All  BY RegistryAssumption DEF All
<1>2. pc[App] = "Complete" => pc'[App] = "Complete"  BY <1>1 DEF Frame
<1> QED  BY <1>2 DEF RInv, Tables

LEMMA OpenedKeep ==
  ASSUME RInv, Grows, UNCHANGED <<built, open, loaded>>, functions' = functions \/ built = 1
  PROVE  Opened'
<1>1. \A s \in Functions : Provided(s) => Provided(s)'  BY ProvidedForGood, Constants DEF RInv
<1>2. Opened /\ ToSet(Linked) \subseteq Functions /\ ToSet(Plugin) \subseteq Functions
  BY Constants DEF RInv
<1> QED  BY <1>1, <1>2 DEF Opened

\* What a function of a thread of the registry manager is.
LEMMA RunningFunction ==
  ASSUME TInv, NEW t \in All, pc[t] = "Run"
  PROVE  running[t] \in Functions /\ running[t] \in Schemas
BY Constants DEF TInv, Manages, Values

LEMMA PopRuns ==
  ASSUME RInv, NEW t \in All, Pop(t), Frame(t), Grows, Quiet(t)
  PROVE  Tables' /\ Opened' /\ Runs(t)' /\ (t \in Threads => Opens(t)' /\ Loads(t)')
<1> USE DEF Pop, Goto, tableVars, swiftVars, singletonVars, barrierVars, pluginVars, lookupVars
<1>0. /\ Values /\ pc \in [All -> Places] /\ t \in All /\ Tables
      /\ (t \in Threads => Opens(t) /\ Loads(t))
  BY DEF RInv, TInv, IInv, Types
<1>1. Tables'  BY TablesKeep DEF Grows
<1>2. Opened'  BY OpenedKeep
<1>3. /\ Head(worklist) \in Functions
      /\ ToSet(worklist) = {Head(worklist)} \cup ToSet(Tail(worklist))
  BY <1>0, HeadAndTail DEF Values
<1>4. /\ pc'[t] = "Run" /\ running'[t] = Head(worklist)
      /\ left'[t] = Registers[Head(worklist)]
  BY <1>0 DEF Values
<1>5. Runs(t)'
  <2>1. Head(worklist) \notin stolen =>
          definitions[Head(worklist)] \subseteq ToSet(Registers[Head(worklist)])
    BY <1>0, <1>3 DEF Tables
  <2>2. stolen \subseteq stolen' /\ (t \in Others => Head(worklist) \in stolen')  OBVIOUS
  <2> QED  BY <1>4, <2>1, <2>2 DEF Runs
<1>6. ASSUME t \in Threads PROVE Opens(t)' /\ Loads(t)'
  <2>1. pc[t] = "Loop" /\ t \notin Others  BY <1>6, RegistryAssumption
  <2>2. \A s \in Functions : Pending(t, s) => Pending(t, s)'
    <3>1. \A s \in Functions : Provided(s) => Provided(s)'
      BY ProvidedForGood, Constants DEF RInv
    <3> QED  BY <1>3, <1>4, <2>1, <3>1 DEF Pending
  <2>3. Inside(t)' <=> Inside(t)  BY <1>4, <2>1 DEF Inside, Constructing
  <2>4. (Looks(t)' <=> Looks(t)) /\ Schema(t)' = Schema(t)
    BY <1>4, <2>1 DEF Looks, Schema
  <2>5. ToSet(Linked) \subseteq Functions /\ ToSet(Plugin) \subseteq Functions  BY Constants
  <2>6. Opens(t)'  BY <1>0, <1>4, <1>6, <2>1, <2>2, <2>3, <2>5 DEF Opens, Working
  <2>7. Loads(t)'  BY <1>0, <1>4, <1>6, <2>1, <2>2, <2>4, <2>5 DEF Loads, Working
  <2> QED  BY <2>6, <2>7
<1> QED  BY <1>1, <1>2, <1>5, <1>6

LEMMA RegisterNextRuns ==
  ASSUME RInv, NEW t \in All, RegisterNext(t), Frame(t), Grows, Quiet(t)
  PROVE  Tables' /\ Opened' /\ Runs(t)' /\ (t \in Threads => Opens(t)' /\ Loads(t)')
<1> USE DEF RegisterNext, Goto, swiftVars, singletonVars, barrierVars, pluginVars, lookupVars,
            managerVars
<1>0. /\ Values /\ pc \in [All -> Places] /\ t \in All /\ Tables /\ Runs(t)
      /\ (t \in Threads => Opens(t) /\ Loads(t))
  BY DEF RInv, TInv, IInv, Types
<1> DEFINE s == running[t]
           n == Head(left[t])
<1>1. s \in Functions /\ s \in Schemas  BY RunningFunction DEF RInv
<1>2. ToSet(left[t]) = {n} \cup ToSet(Tail(left[t])) /\ left'[t] = Tail(left[t])
  BY <1>0, HeadAndTail DEF Values
<1>3. Tables' /\ Runs(t)'
  <2>1. CASE recorded[s] = None
    <3>1. s \notin stolen => ToSet(Registers[s]) = definitions[s] \cup ToSet(left[t])
      BY <1>0, <2>1 DEF Runs
    <3>2. definitions' = [definitions EXCEPT ![s] = @ \cup {n}]  BY <2>1 DEF Accepted
    <3>3. definitions'[s] = definitions[s] \cup {n}  BY <1>0, <1>1, <3>2 DEF Values
    <3>4. \A r \in Schemas : r # s => definitions'[r] = definitions[r]
      BY <1>0, <3>2 DEF Values
    <3>5. s \notin stolen => definitions'[s] \subseteq ToSet(Registers[s])  BY <1>2, <3>1, <3>3
    <3>6. recorded[s] # TRUE /\ Functions \subseteq Schemas  BY <2>1, Constants
    <3>7. Tables'
      <4>1. \A r \in Functions \ stolen :
              /\ definitions'[r] \subseteq ToSet(Registers[r])
              /\ recorded[r] = TRUE => definitions'[r] = ToSet(Registers[r])
        BY <1>0, <3>4, <3>5, <3>6 DEF Tables
      <4>2. \A r \in Schemas \ Functions : definitions'[r] = definitions[r]
        BY <1>1, <3>4
      <4> QED  BY <1>0, <4>1, <4>2 DEF Tables
    <3>8. s \notin stolen => ToSet(Registers[s]) = definitions'[s] \cup ToSet(left'[t])
      BY <1>2, <3>1, <3>3
    <3> QED  BY <1>0, <3>7, <3>8 DEF Runs
  <2>2. CASE recorded[s] # None
    <3>1. definitions' = definitions  BY <2>2 DEF Accepted
    <3> QED  BY <1>0, <2>2, <3>1 DEF Tables, Runs
  <2> QED  BY <2>1, <2>2
<1>4. Opened'  BY OpenedKeep
<1>5. ASSUME t \in Threads PROVE Opens(t)' /\ Loads(t)'
  <2>1. /\ (Inside(t)' <=> Inside(t)) /\ (Looks(t)' <=> Looks(t)) /\ Schema(t)' = Schema(t)
        /\ \A r \in Functions : Pending(t, r)' <=> Pending(t, r)
        /\ \A r \in Functions : Provided(r)' <=> Provided(r)
    BY DEF Inside, Looks, Schema, Pending, Provided
  <2>2. ToSet(Linked) \subseteq Functions /\ ToSet(Plugin) \subseteq Functions  BY Constants
  <2>3. Opens(t)'  BY <1>0, <1>5, <2>1, <2>2 DEF Opens
  <2>4. Loads(t)'  BY <1>0, <1>5, <2>1, <2>2 DEF Loads
  <2> QED  BY <2>3, <2>4
<1> QED  BY <1>3, <1>4, <1>5

\* A function whose names were all accepted is recorded, and its schema complete.
LEMMA FunctionEndsRuns ==
  ASSUME RInv, NEW t \in All, FunctionEnds(t), Frame(t), Grows, Quiet(t)
  PROVE  Tables' /\ Opened' /\ Runs(t)' /\ (t \in Threads => Opens(t)' /\ Loads(t)')
<1> USE DEF FunctionEnds, Goto, swiftVars, singletonVars, barrierVars, pluginVars, lookupVars,
            managerVars
<1>0. /\ Values /\ pc \in [All -> Places] /\ t \in All /\ Tables /\ Runs(t)
      /\ (t \in Threads => Opens(t) /\ Loads(t))
  BY DEF RInv, TInv, IInv, Types
<1> DEFINE s == running[t]
<1>1. s \in Functions /\ s \in Schemas  BY RunningFunction DEF RInv
<1>2. /\ \A r \in Schemas : r # s => recorded'[r] = recorded[r]
      /\ recorded'[s] = IF recorded[s] = None THEN TRUE ELSE recorded[s]
      /\ recorded[s] \in BOOLEAN \cup {None} /\ None # FALSE
  BY <1>0, <1>1, Constants DEF Record, Values
<1>3. Tables'
  <2>1. recorded[s] = None /\ s \notin stolen => definitions[s] = ToSet(Registers[s])
    <3>1. ToSet(<<>>) = {}  BY DEF ToSet
    <3> QED  BY <1>0, <3>1 DEF Runs
  <2>2. Functions \subseteq Schemas  BY Constants
  <2>3. \A r \in Functions \ stolen :
          recorded'[r] = TRUE => definitions[r] = ToSet(Registers[r])
    BY <1>0, <1>2, <2>1, <2>2 DEF Tables
  <2>4. \A r \in Schemas : recorded'[r] = FALSE => recorded[r] = FALSE
    BY <1>2
  <2>5. \A r \in Schemas \ Functions : recorded'[r] = recorded[r]
    BY <1>1, <1>2
  <2>6. pc[App] = "Complete" => pc'[App] = "Complete"
    BY <1>0, RegistryAssumption DEF Frame, All
  <2> QED  BY <1>0, <2>3, <2>4, <2>5, <2>6 DEF Tables
<1>4. pc'[t] = "Relock" /\ pc[t] = "Run"  BY <1>0
<1>5. Runs(t)'  BY <1>4 DEF Runs
<1>6. Opened'  BY OpenedKeep
<1>7. ASSUME t \in Threads PROVE Opens(t)' /\ Loads(t)'
  <2>1. \A r \in Functions : Pending(t, r) => Pending(t, r)'
    <3>1. \A r \in Functions : Provided(r) => Provided(r)'
      BY ProvidedForGood, Constants DEF RInv
    <3>2. ASSUME NEW r \in Functions, r = running[t] PROVE Provided(r)'
      <4>1. recorded[r] = FALSE => r \in stolen  BY <1>0, <1>1, <3>2 DEF Tables
      <4>2. recorded'[r] = IF recorded[r] = None THEN TRUE ELSE recorded[r]  BY <1>2, <3>2
      <4>3. recorded[r] \in BOOLEAN \cup {None}  BY <1>2, <3>2
      <4>4. recorded'[r] = TRUE \/ r \in stolen'  BY <4>1, <4>2, <4>3
      <4> QED  BY <4>4 DEF Provided
    <3> QED  BY <3>1, <3>2 DEF Pending
  <2>2. /\ (Inside(t)' <=> Inside(t)) /\ (Looks(t)' <=> Looks(t)) /\ Schema(t)' = Schema(t)
    BY <1>4 DEF Inside, Looks, Schema, Constructing
  <2>3. ToSet(Linked) \subseteq Functions /\ ToSet(Plugin) \subseteq Functions  BY Constants
  <2>4. Opens(t)'  BY <1>0, <1>4, <1>7, <2>1, <2>2, <2>3 DEF Opens, Working
  <2>5. Loads(t)'  BY <1>0, <1>4, <1>7, <2>1, <2>2, <2>3 DEF Loads, Working
  <2> QED  BY <2>4, <2>5
<1> QED  BY <1>3, <1>5, <1>6, <1>7

LEMMA ManagingRuns ==
  ASSUME RInv, NEW t \in All, Managing(t), Frame(t), Grows, Quiet(t)
  PROVE  Tables' /\ Opened' /\ Runs(t)' /\ (t \in Threads => Opens(t)' /\ Loads(t)')
<1> USE DEF Goto, tableVars, swiftVars, singletonVars, barrierVars, pluginVars, lookupVars,
            managerVars, runVars
<1>0. /\ Values /\ pc \in [All -> Places] /\ t \in All /\ LoaderOK
      /\ (t \in Threads => Opens(t) /\ Loads(t)) /\ None \notin All
      /\ Threads \cap Others = {}
  BY Constants, RegistryAssumption DEF RInv, TInv, IInv, Types
<1>1. \A s \in Functions : Provided(s) => Provided(s)'
  BY ProvidedForGood, Constants DEF RInv
<1>2. /\ ToSet(Linked) \subseteq Functions /\ ToSet(Plugin) \subseteq Functions
  BY Constants
<1>3. CASE Subscribe(t)
  <2>1. /\ t \in Threads
    BY <1>0, <1>3 DEF Subscribe, RInv, TInv, Manages, All
  <2>2. Inside(t) /\ loader # t  BY <1>0, <1>3 DEF Subscribe, Inside, Constructing, LoaderOK
  <2>3. built = 1 /\ functions = Linked /\ ~open
    BY <1>0, <1>3, <2>1, <2>2 DEF Opens, Subscribe
  <2>4. pc'[t] = "Loop" /\ loader' = loader /\ built' = built /\ open' = open
    BY <1>0, <1>3 DEF Subscribe
  <2>5. Tables'  BY <1>3, TablesKeep DEF Subscribe, Grows
  <2>6. Opened'  BY <1>3, <2>3, OpenedKeep DEF Subscribe
  <2>7. Runs(t)'  BY <2>4 DEF Runs
  <2>8. ToSet(Linked) \subseteq ToSet(worklist')
    BY <1>0, <1>3, <2>3, Joined DEF Subscribe, Values
  <2>9. Opens(t)'  BY <2>2, <2>3, <2>4, <2>8 DEF Opens, Pending
  <2>10. Loads(t)'  BY <2>2, <2>4 DEF Loads, Looks
  <2> QED  BY <2>5, <2>6, <2>7, <2>9, <2>10
<1>4. CASE ProcessLibrary(t)
  <2>1. loader = t  BY <1>0, <1>4 DEF ProcessLibrary, LoaderOK
  <2>2. t \in Threads  BY <1>0, <2>1 DEF LoaderOK
  <2>3. pc'[t] = "Loop" /\ loader' = t /\ open' = open  BY <1>0, <1>4, <2>1 DEF ProcessLibrary
  <2>4. Tables'  BY <1>4, TablesKeep DEF ProcessLibrary, Grows
  <2>5. Opened'  BY <1>4, OpenedKeep DEF ProcessLibrary
  <2>6. Runs(t)'  BY <2>3 DEF Runs
  <2>7. ToSet(Plugin) \subseteq ToSet(worklist')
    BY <1>0, <1>4, Joined, Lists DEF ProcessLibrary, Values
  <2>8. Opens(t)'  BY <2>3 DEF Opens, Inside, Constructing
  <2>9. Schema(t)' = Schema(t)  BY <1>4 DEF ProcessLibrary, Schema
  <2>10. Loads(t)'  BY <1>0, <2>1, <2>2, <2>3, <2>7, <2>9 DEF Loads, Looks, Pending
  <2> QED  BY <2>4, <2>5, <2>6, <2>8, <2>10
<1>5. CASE Enter(t)
  <2>1. t \notin Threads /\ pc'[t] = "Loop"  BY <1>0, <1>5 DEF Enter
  <2>2. Tables'  BY <1>5, TablesKeep DEF Enter, Grows
  <2>3. Opened'  BY <1>5, OpenedKeep DEF Enter
  <2>4. Runs(t)'  BY <2>1 DEF Runs
  <2> QED  BY <2>1, <2>2, <2>3, <2>4
<1>6. CASE Relock(t)
  <2>1. pc[t] = "Relock" /\ pc'[t] = "Loop"  BY <1>0, <1>6 DEF Relock
  <2>2. Tables'  BY <1>6, TablesKeep DEF Relock, Grows
  <2>3. Opened'  BY <1>6, OpenedKeep DEF Relock
  <2>4. Runs(t)'  BY <2>1 DEF Runs
  <2>5. /\ UNCHANGED <<loader, built, functions, open, key, index>>
        /\ \A s \in Functions : Pending(t, s) => Pending(t, s)'
    BY <1>1, <1>6, <2>1 DEF Relock, Pending
  <2>6. (Inside(t)' <=> Inside(t)) /\ (Looks(t)' <=> Looks(t)) /\ Schema(t)' = Schema(t)
    BY <2>1, <2>5 DEF Inside, Constructing, Looks, Schema
  <2>7. t \in Threads => Opens(t)'
    BY <1>0, <1>2, <2>1, <2>5, <2>6 DEF Opens, Working
  <2>8. t \in Threads => Loads(t)'
    BY <1>0, <1>2, <2>1, <2>5, <2>6 DEF Loads, Working
  <2> QED  BY <2>2, <2>3, <2>4, <2>7, <2>8
<1>7. CASE LoopEnds(t)
  <2>1. /\ pc[t] = "Loop"
        /\ pc'[t] = IF t \in Others THEN "Done"
                    ELSE IF loader = t THEN "Loaded" ELSE "SetConstructed"
    BY <1>0, <1>7 DEF LoopEnds
  <2>2. Tables'  BY <1>7, TablesKeep DEF LoopEnds, Grows
  <2>3. Opened'  BY <1>7, OpenedKeep DEF LoopEnds
  <2>4. Runs(t)'  BY <2>1 DEF Runs
  <2>5. UNCHANGED <<loader, built, functions, open, key, index>>  BY <1>7 DEF LoopEnds
  <2>6. \A s \in Functions : Pending(t, s) => Provided(s)'
    <3>1. ToSet(worklist) = {}  BY <1>7 DEF LoopEnds, ToSet
    <3> QED  BY <1>1, <2>1, <3>1 DEF Pending
  <2>7. ASSUME t \in Threads, loader = t PROVE Opens(t)' /\ Loads(t)'
    <3>1. pc'[t] = "Loaded" /\ loader' = t  BY <1>0, <2>1, <2>5, <2>7
    <3>2. Looks(t) /\ Schema(t)' = Schema(t)  BY <2>5, <2>7 DEF Looks, Schema
    <3>3. Opens(t)'  BY <3>1 DEF Opens, Inside, Constructing, Working
    <3>4. Loads(t)'  BY <1>0, <1>2, <2>1, <2>5, <2>6, <2>7, <3>1, <3>2 DEF Loads, Working
    <3> QED  BY <3>3, <3>4
  <2>8. ASSUME t \in Threads, loader # t PROVE Opens(t)' /\ Loads(t)'
    <3>1. pc'[t] = "SetConstructed" /\ loader' # t  BY <1>0, <2>1, <2>5, <2>8
    <3>2. Inside(t)  BY <2>1, <2>8 DEF Inside
    <3>3. Opens(t)'
      BY <1>0, <1>2, <2>1, <2>5, <2>6, <2>8, <3>1, <3>2 DEF Opens, Working
    <3>4. Loads(t)'  BY <3>1 DEF Loads, Looks
    <3> QED  BY <3>3, <3>4
  <2> QED  BY <2>2, <2>3, <2>4, <2>7, <2>8
<1> QED
  BY <1>3, <1>4, <1>5, <1>6, <1>7, PopRuns, RegisterNextRuns, FunctionEndsRuns DEF Managing

LEMMA GettingRuns ==
  ASSUME RInv, NEW t \in Threads, Getting(t) \/ \E k \in Keys : Call(t, k),
         Frame(t), Grows, Quiet(t), IInv'
  PROVE  Tables' /\ Opened' /\ Runs(t)' /\ Opens(t)' /\ Loads(t)'
<1> USE DEF Goto, tableVars, swiftVars, singletonVars, barrierVars, pluginVars, managerVars
<1>0. /\ t \in All /\ pc \in [All -> Places] /\ LoaderOK /\ BuiltOK /\ Opens(t) /\ Loads(t)
      /\ Opened /\ built \in Nat /\ built' \in Nat /\ built' <= 1 /\ Asks(t)
  BY DEF RInv, TInv, IInv, Types, All
<1>1. /\ UNCHANGED <<definitions, recorded, composed, script, stolen, open, functions, loaded,
                     loader, worklist>>
      /\ pc'[t] \notin {"Run", "Loop", "Relock", "SetConstructed"} /\ pc[t] # "Complete"
      /\ pc[t] \notin {"Run", "Loop", "Relock", "Process", "Loaded"}
  BY <1>0 DEF Getting, Exchange, Spin, Check, Construct, Built, Call, Entered
<1>2. Tables'  BY <1>0, <1>1, TablesKeep DEF Grows
<1>3. Runs(t)'  BY <1>1 DEF Runs
<1>4. Opened'
  <2>1. built' = 0 => built = 0
    BY <1>0 DEF Getting, Exchange, Spin, Check, Construct, Built, Call
  <2>2. \A s \in Functions : Provided(s) => Provided(s)'
    BY ProvidedForGood, Constants DEF RInv
  <2>3. ToSet(Linked) \subseteq Functions /\ ToSet(Plugin) \subseteq Functions  BY Constants
  <2> QED  BY <1>0, <1>1, <2>1, <2>2, <2>3 DEF Opened
<1>5. loader # t  BY <1>0, <1>1 DEF LoaderOK
<1>6. Loads(t)'
  <2>1. ~Looks(t)'
    BY <1>0, <1>1, <1>5 DEF Looks, Getting, Exchange, Spin, Check, Construct, Built, Call, Entered
  <2> QED  BY <2>1 DEF Loads, Looks
<1>7. ASSUME instance, ~Subscribing(t), Inside(t) \/ (t = App /\ script # <<>>)
      PROVE  open
  <2>1. ASSUME NEW u \in Threads, Subscribing(u) PROVE FALSE
    <3>1. u # t /\ u \in All  BY <1>7, <2>1 DEF All
    <3>2. Inside(u) /\ pc[u] # "Out"
      <4>1. LoaderOK  BY <1>0
      <4> QED  BY <2>1, <3>1, <4>1 DEF Subscribing, Inside, Constructing, Working, LoaderOK
    <3>3. ~Inside(t)  BY <1>0, <3>1, <3>2 DEF RInv, TInv, IInv, InsideAlone
    <3>4. t = App /\ script # <<>>  BY <1>7, <3>3
    <3>5. Asks(u)  BY DEF RInv, TInv
    <3> QED  BY <3>1, <3>2, <3>4, <3>5 DEF Asks
  <2> QED  BY <1>7, <2>1 DEF RInv, InstanceOpens
<1>8. ~Subscribing(t) \/ pc[t] = "Subscribe"
  BY <1>0, <1>1 DEF Subscribing, Working, Getting, Exchange, Spin, Check, Construct, Built, Call
<1>9. Opens(t)'
  <2>1. CASE Check(t) /\ ~instance
    <3>1. built' = 1  BY <1>0, <2>1 DEF Check
    <3>2. built = 0  BY <1>0, <2>1, <3>1 DEF Check
    <3> QED  BY <1>0, <1>1, <2>1, <3>1, <3>2 DEF Opens, Opened, Check, Working
  <2>2. CASE Check(t) /\ instance
    <3>1. built = 1 /\ built' = 1 /\ pc'[t] = "Built"  BY <1>0, <2>2 DEF BuiltOK, Check
    <3>2. Inside(t) /\ pc[t] = "Check"  BY <2>2 DEF Check, Inside
    <3>3. ~Subscribing(t)  BY <1>8, <3>2
    <3>4. instance  BY <2>2
    <3>5. open  BY <1>7, <3>2, <3>3, <3>4
    <3> QED  BY <1>1, <3>1, <3>5 DEF Opens, Working
  <2>3. CASE Construct(t)
    <3>1. Inside(t) /\ built' = built /\ pc'[t] = "Subscribe" /\ pc[t] = "Construct"
      BY <1>0, <2>3 DEF Construct, Inside, Constructing
    <3> QED  BY <1>0, <1>1, <3>1 DEF Opens, Working
  <2>4. CASE Exchange(t) \/ Spin(t) \/ Built(t) \/ \E k \in Keys : Call(t, k)
    <3>1. pc'[t] \notin Constructing \cup {"Built"} \cup Working
      BY <1>0, <2>4 DEF Exchange, Spin, Built, Call, Entered, Constructing, Working
    <3>2. Inside(t)' => pc'[t] = "Check"  BY <3>1 DEF Inside, Working
    <3>3. ASSUME pc'[t] \in {"Register", "Complete"} PROVE open
      <4>1. CASE Built(t)  BY <1>0, <4>1 DEF Built, Opens
      <4>2. CASE Exchange(t)  BY <1>0, <3>3, <4>2 DEF Exchange
      <4>3. CASE Spin(t) \/ \E k \in Keys : Call(t, k)
        <5>1. instance /\ t = App /\ script # <<>> /\ pc[t] # "Subscribe"
          BY <1>0, <3>3, <4>3 DEF Spin, Call, Entered
        <5> QED  BY <1>7, <1>8, <5>1
      <4> QED  BY <2>4, <4>1, <4>2, <4>3
    <3> QED  BY <1>1, <3>1, <3>2, <3>3 DEF Opens, Constructing
  <2> QED  BY <2>1, <2>2, <2>3, <2>4 DEF Getting
<1> QED  BY <1>2, <1>3, <1>4, <1>6, <1>9

LEMMA WaitingRuns ==
  ASSUME RInv, NEW t \in Threads, Waiting(t) \/ SpuriousWake(t), Frame(t), Grows, Quiet(t)
  PROVE  Tables' /\ Opened' /\ Runs(t)' /\ Opens(t)' /\ Loads(t)'
<1> USE DEF Goto, tableVars, swiftVars, singletonVars, barrierVars, pluginVars, managerVars,
            lookupVars
<1>0. t \in All /\ pc \in [All -> Places] /\ LoaderOK /\ Opens(t) /\ Loads(t) /\ Opened
  BY DEF RInv, TInv, IInv, Types, All
<1>1. /\ UNCHANGED <<definitions, recorded, composed, script, stolen, built, functions, loaded,
                     loader, worklist>>
      /\ pc'[t] \notin {"Run", "Loop", "Relock", "SetConstructed", "Check", "Construct",
                        "Subscribe"}
      /\ pc[t] \notin {"Run", "Loop", "Relock", "Process", "Loaded", "Complete"}
  BY <1>0 DEF Waiting, SetConstructed, NotifyAll, PassBarrier, LockBarrier, Test, Wait, Wake,
              SpuriousWake
<1>2. Tables'  BY <1>0, <1>1, TablesKeep DEF Grows
<1>3. Runs(t)'  BY <1>1 DEF Runs
<1>4. loader # t  BY <1>0, <1>1 DEF LoaderOK
<1>5. \A s \in Functions : Provided(s) => Provided(s)'
  BY ProvidedForGood, Constants DEF RInv
<1>6. ToSet(Linked) \subseteq Functions /\ ToSet(Plugin) \subseteq Functions  BY Constants
<1>7. Inside(t)' => Inside(t)
  BY <1>0, <1>1 DEF Inside, Constructing, Waiting, SetConstructed, NotifyAll, PassBarrier,
                    LockBarrier, Test, Wait, Wake, SpuriousWake
<1>8. Inside(t)' => pc'[t] \in {"Built", "NotifyAll"}
  BY <1>0, <1>1 DEF Inside, Constructing
<1>9. Opens(t)'
  <2>1. pc[t] = "Check" => ~Inside(t)'
    BY <1>0, <1>1 DEF Waiting, SetConstructed, NotifyAll, PassBarrier,
                    LockBarrier, Test, Wait, Wake, SpuriousWake
  <2>2. pc'[t] \in {"NotifyAll", "Built", "Register", "Complete"} => open'
    BY <1>0 DEF Opens, Waiting, SetConstructed, NotifyAll, PassBarrier, LockBarrier, Test, Wait,
                Wake, SpuriousWake
  <2> QED  BY <1>0, <1>1, <1>7, <1>8, <2>1, <2>2 DEF Opens, Working
<1>10. Looks(t)' => pc'[t] = "Find" /\ open /\ open'
  BY <1>0, <1>1, <1>4 DEF Looks, Waiting, SetConstructed, NotifyAll, PassBarrier, LockBarrier, Test,
                    Wait, Wake, SpuriousWake
<1>11. Loads(t)'  BY <1>1, <1>4, <1>10 DEF Loads, Looks
<1>12. Opened'
  <2>1. CASE SetConstructed(t)
    <3>1. Inside(t) /\ pc[t] = "SetConstructed"  BY <2>1 DEF SetConstructed, Inside, Constructing
    <3>2. built = 1 /\ \A s \in ToSet(Linked) : Provided(s)  BY <1>0, <3>1 DEF Opens
    <3> QED  BY <1>0, <1>1, <1>5, <1>6, <3>2 DEF Opened
  <2>2. CASE ~SetConstructed(t)
    <3>1. open' = open
      BY <2>2 DEF Waiting, NotifyAll, PassBarrier, LockBarrier, Test, Wait, Wake, SpuriousWake
    <3> QED  BY <1>1, <3>1, OpenedKeep
  <2> QED  BY <2>1, <2>2
<1> QED  BY <1>2, <1>3, <1>9, <1>11, <1>12

\* A lookup asks whether a schema is recorded, loads the plugin if it is the one
\* that registers for it, and records the lack of a function.
LEMMA LookingRuns ==
  ASSUME RInv, NEW t \in Threads, Looking(t), Frame(t), Grows, Quiet(t)
  PROVE  Tables' /\ Opened' /\ Runs(t)' /\ Opens(t)' /\ Loads(t)'
<1> USE DEF Goto, swiftVars, singletonVars, barrierVars, managerVars, runVars
<1>0. /\ t \in All /\ pc \in [All -> Places] /\ LoaderOK /\ Opens(t) /\ Loads(t) /\ Opened
      /\ Values /\ Asks(t) /\ None \notin All /\ Tables
  BY Constants DEF RInv, TInv, IInv, Types, All
<1>1. /\ UNCHANGED <<definitions, script, stolen, built, functions, open, worklist, running, left>>
      /\ Looks(t)
      /\ pc'[t] \notin {"Run", "Loop", "Relock", "SetConstructed", "Check", "Construct",
                        "Subscribe", "NotifyAll", "Built", "Register", "Complete"}
      /\ pc[t] \notin {"Run", "Loop", "Relock", "Complete"}
  BY <1>0 DEF Looks, Looking, FindCached, Find, Ensure, Skip, RecordNone, Load, Loaded, Collect,
              Emplace, Advance, tableVars
<1>2. script = <<>> /\ open  BY <1>0, <1>1 DEF Asks, Loads
<1>3. Runs(t)'  BY <1>1 DEF Runs
<1>4. Opens(t)'  BY <1>1 DEF Opens, Inside, Constructing, Working
<1>5. \A s \in Functions : Provided(s) => Provided(s)'
  BY ProvidedForGood, Constants DEF RInv
<1>6. ToSet(Linked) \subseteq Functions /\ ToSet(Plugin) \subseteq Functions  BY Constants
<1>7. Reads(t) => Schema(t) \in Schemas
  <2>1. Reads(t) => key[t] \in Keys /\ index[t] \in 1..Len(Expanded[key[t]])
    BY <1>0, <1>1 DEF Asks, Reads, Looks, LoaderOK
  <2> QED  BY <2>1, NextIndex DEF Schema
<1>8. CASE RecordNone(t)
  <2>1. Schema(t) \in Schemas  BY <1>7, <1>8 DEF RecordNone, Reads, Looks
  <2>2. PICK s \in Schemas : s = Schema(t)  BY <2>1
  <2>3. /\ \A r \in Schemas : r # s => recorded'[r] = recorded[r]
        /\ recorded'[s] = IF recorded[s] = None THEN FALSE ELSE recorded[s]
    BY <1>0, <1>8, <2>2 DEF RecordNone, Record, Values
  <2>4. s \in stolen \/ (s \notin Functions /\ recorded[s] # TRUE)
    BY <1>0, <1>8, <2>2 DEF RecordNone, Loads
  <2>5. Tables'
    <3>1. \A r \in Functions : recorded'[r] = TRUE => recorded[r] = TRUE
      BY <2>3, Constants
    <3>2. \A r \in Schemas : recorded'[r] = FALSE => (r \in Functions => r \in stolen')
      <4>1. \A r \in Schemas : recorded[r] = FALSE => (r \in Functions => r \in stolen)
        BY <1>0 DEF Tables
      <4> QED  BY <1>1, <2>3, <2>4, <4>1
    <3>3. \A r \in Schemas \ Functions : recorded[r] = TRUE => recorded'[r] = TRUE
      BY <2>3, Constants
    <3>4. UNCHANGED <<composed, definitions>> /\ pc[App] # "Complete"
      <4>1. pc[App] = "Complete" => script # <<>>
        BY RegistryAssumption DEF RInv, TInv, Asks
      <4> QED  BY <1>1, <1>2, <1>8, <4>1 DEF RecordNone
    <3>5. /\ \A i \in DOMAIN script' : script'[i][1] \notin ToSet(Plugin)
          /\ \A k \in Keys : composed'[k] # None => script' = <<>>
      BY <1>0, <1>1, <3>4 DEF Tables
    <3>6. \A r \in Functions \ stolen :
            /\ definitions'[r] \subseteq ToSet(Registers[r])
            /\ recorded'[r] = TRUE => definitions'[r] = ToSet(Registers[r])
      BY <1>0, <3>1, <3>4 DEF Tables
    <3>7. \A r \in Schemas \ Functions : definitions'[r] # {} => recorded'[r] = TRUE
      BY <1>0, <3>3, <3>4 DEF Tables
    <3> QED  BY <1>1, <1>2, <3>2, <3>5, <3>6, <3>7 DEF Tables
  <2>6. Opened'  BY <1>8, OpenedKeep DEF RecordNone, pluginVars
  <2>7. Loads(t)'
    <3>1. loader' = loader /\ loader # t  BY <1>0, <1>8 DEF RecordNone, pluginVars, LoaderOK
    <3>2. pc'[t] \in {"Emplace", "Ensure"}  BY <1>0, <1>8 DEF RecordNone, Advance
    <3> QED  BY <1>1, <1>2, <3>1, <3>2 DEF Loads
  <2> QED  BY <1>3, <1>4, <2>5, <2>6, <2>7
<1>9. CASE Emplace(t)
  <2>1. Tables'
    <3>1. pc[App] = "Complete" => pc'[App] = "Complete"
      BY <1>0, <1>1, RegistryAssumption DEF Frame, All
    <3>2. UNCHANGED <<definitions, recorded, script, stolen>>
      BY <1>9 DEF Emplace, tableVars
    <3> QED  BY <1>0, <1>2, <3>1, <3>2 DEF Tables
  <2>2. Opened'  BY <1>9, OpenedKeep DEF Emplace, pluginVars
  <2>3. Loads(t)'
    <3>1. loader' = loader /\ loader # t /\ pc'[t] = "Out"
      BY <1>0, <1>9 DEF Emplace, pluginVars, LoaderOK
    <3> QED  BY <3>1 DEF Loads, Looks
  <2> QED  BY <1>3, <1>4, <2>1, <2>2, <2>3
<1>10. ASSUME ~RecordNone(t), ~Emplace(t) PROVE Tables'
  <2>1. UNCHANGED <<script, composed, recorded, definitions>>
    BY <1>10 DEF Looking, FindCached, Find, Ensure, Skip, Load, Loaded, Collect, tableVars
  <2> QED  BY <1>0, <1>1, <2>1, TablesKeep DEF Grows
<1>11. CASE Load(t)
  <2>1. loader' = t /\ pc'[t] = (IF loaded THEN "Loaded" ELSE "Process") /\ pc[t] = "Load"
    BY <1>0, <1>11 DEF Load
  <2>2. Opened'  BY <1>11, OpenedKeep DEF Load
  <2>3. Schema(t)' = Schema(t)  BY <1>11 DEF Load, lookupVars, Schema
  <2>4. Schema(t) \in ToSet(Plugin)  BY <1>0, <2>1 DEF Loads
  <2>5. loaded => \A s \in ToSet(Plugin) : Provided(s)'  BY <1>0, <1>5, <1>6 DEF Opened
  <2>6. Loads(t)'  BY <1>1, <1>2, <2>1, <2>3, <2>4, <2>5 DEF Loads, Working
  <2> QED  BY <1>3, <1>4, <1>10, <1>11, <2>1, <2>2, <2>6 DEF RecordNone, Emplace
<1>12. CASE Loaded(t)
  <2>1. pc[t] = "Loaded" /\ loader' = None /\ pc'[t] = "Collect" /\ loader = t
    BY <1>0, <1>12 DEF Loaded, LoaderOK
  <2>2. \A s \in ToSet(Plugin) : Provided(s)'  BY <1>0, <1>5, <1>6, <2>1 DEF Loads
  <2>3. Opened'
    <3>1. \A s \in ToSet(Linked) : Provided(s)'  BY <1>0, <1>2, <1>5, <1>6 DEF Opened
    <3> QED  BY <1>0, <1>1, <1>12, <2>2, <3>1 DEF Opened, Loaded
  <2>4. Schema(t)' = Schema(t) /\ Schema(t) \in ToSet(Plugin)
    BY <1>0, <1>12, <2>1 DEF Loaded, lookupVars, Schema, Loads
  <2>5. (Provided(Schema(t)))'
    <3>1. PICK s \in ToSet(Plugin) : s = Schema(t)  BY <2>4
    <3>2. Provided(s)'  BY <2>2
    <3> QED  BY <2>4, <3>1, <3>2 DEF Provided
  <2>6. Loads(t)'  BY <1>0, <1>1, <1>2, <2>1, <2>5 DEF Loads, Working
  <2> QED  BY <1>3, <1>4, <1>10, <2>1, <2>3, <2>6 DEF RecordNone, Emplace
<1>13. CASE Ensure(t)
  <2>1. /\ pc[t] = "Ensure" /\ recorded[Schema(t)] # FALSE
        /\ pc'[t] = IF recorded[Schema(t)] = TRUE THEN "Collect"
                    ELSE IF Schema(t) \in ToSet(Plugin) THEN "Load" ELSE "RecordNone"
    BY <1>0, <1>13 DEF Ensure
  <2>2. UNCHANGED <<recorded, stolen, loader>> /\ Schema(t)' = Schema(t)
    BY <1>13 DEF Ensure, tableVars, pluginVars, lookupVars, Schema
  <2>3. loader # t  BY <1>0, <2>1 DEF LoaderOK
  <2>4. Opened'  BY <1>13, OpenedKeep DEF Ensure, pluginVars
  <2>5. Schema(t) \in ToSet(Linked) => Provided(Schema(t))  BY <1>0, <1>2 DEF Opened
  <2>6. Loads(t)'
    <3>1. CASE recorded[Schema(t)] = TRUE
      <4>1. (Provided(Schema(t)))'  BY <2>2, <3>1 DEF Provided
      <4>2. pc'[t] = "Collect"  BY <2>1, <3>1
      <4> QED  BY <1>1, <1>2, <2>2, <2>3, <4>1, <4>2 DEF Loads
    <3>2. CASE recorded[Schema(t)] # TRUE /\ Schema(t) \in ToSet(Plugin)
      <4>1. pc'[t] = "Load"  BY <2>1, <3>2
      <4> QED  BY <1>1, <1>2, <2>2, <2>3, <3>2, <4>1 DEF Loads
    <3>3. CASE recorded[Schema(t)] # TRUE /\ Schema(t) \notin ToSet(Plugin)
      <4>1. pc'[t] = "RecordNone"  BY <2>1, <3>3
      <4>2. \/ Schema(t) \in stolen
            \/ Schema(t) \notin Functions /\ recorded[Schema(t)] # TRUE
        BY <2>5, <3>3 DEF Functions, Provided
      <4> QED  BY <1>1, <1>2, <2>2, <2>3, <4>1, <4>2 DEF Loads
    <3> QED  BY <3>1, <3>2, <3>3
  <2> QED  BY <1>3, <1>4, <1>10, <2>1, <2>4, <2>6 DEF RecordNone, Emplace
<1>14. CASE FindCached(t) \/ Find(t) \/ Skip(t) \/ Collect(t)
  <2>1. /\ pc'[t] \in {"Out", "Ensure", "Emplace"} /\ UNCHANGED <<loader, loaded>>
        /\ pc[t] \notin {"RecordNone", "Emplace", "Process", "Loaded", "Loop", "Run", "Relock"}
    BY <1>0, <1>14 DEF FindCached, Find, Skip, Collect, Advance, pluginVars
  <2>2. loader # t  BY <1>0, <2>1 DEF LoaderOK
  <2>3. Opened'  BY <1>1, <2>1, OpenedKeep
  <2>4. Loads(t)'  BY <1>1, <1>2, <2>1, <2>2 DEF Loads, Working
  <2> QED  BY <1>3, <1>4, <1>10, <2>1, <2>3, <2>4 DEF RecordNone, Emplace
<1> QED  BY <1>8, <1>9, <1>11, <1>12, <1>13, <1>14 DEF Looking

LEMMA RegisteringRuns ==
  ASSUME RInv, NEW t \in Threads, Registering(t), Frame(t), Grows, Quiet(t)
  PROVE  Tables' /\ Opened' /\ Runs(t)' /\ Opens(t)' /\ Loads(t)'
<1> USE DEF Goto, singletonVars, barrierVars, managerVars, pluginVars, runVars
<1>0. /\ t \in All /\ pc \in [All -> Places] /\ LoaderOK /\ Values /\ Asks(t) /\ Tables
      /\ None \notin BOOLEAN /\ Functions \subseteq Schemas /\ Opens(t) /\ Opened
  BY Constants DEF RInv, TInv, IInv, Types, All
<1>1. /\ t = App /\ script # <<>> /\ UNCHANGED <<composed, stolen>>
      /\ pc'[t] \in {"Complete", "Out"} /\ pc[t] \in {"Register", "Complete"}
      /\ UNCHANGED <<built, open, functions, loaded, loader>>
  BY <1>0 DEF Asks, Registering, SwiftRegister, SwiftComplete
<1>2. loader # t  BY <1>0, <1>1 DEF LoaderOK
<1>3. Opened'  BY <1>1, OpenedKeep
<1>4. Runs(t)'  BY <1>1 DEF Runs
<1>5. Opens(t)'
  <2>1. open  BY <1>0, <1>1 DEF Opens
  <2> QED  BY <1>1, <2>1 DEF Opens, Inside, Constructing, Working
<1>6. Loads(t)'  BY <1>1, <1>2 DEF Loads, Looks, Working
<1>7. PICK s, n : s = Head(script)[1] /\ n = Head(script)[2]  OBVIOUS
<1>8. Head(script) \in Schemas \X Names /\ Head(script) = script[1] /\ 1 \in DOMAIN script
      /\ \A i \in DOMAIN Tail(script) :
           i + 1 \in DOMAIN script /\ Tail(script)[i] = script[i + 1]
  <2>1. Len(script) \in Nat /\ DOMAIN script = 1..Len(script) /\ Len(script) # 0
    BY <1>0, <1>1, LenProperties, EmptySeq DEF Values
  <2>2. 1 \in DOMAIN script  BY <2>1
  <2> QED  BY <1>0, <1>1, <2>2, HeadAndTail DEF Values
<1>9. s \in Schemas /\ (s \in Functions \ stolen => recorded[s] = TRUE)
  <2>1. s \in Schemas /\ s \notin ToSet(Plugin)  BY <1>0, <1>7, <1>8 DEF Tables
  <2>2. open  BY <1>0, <1>1 DEF Opens
  <2> QED  BY <1>0, <2>1, <2>2 DEF Opened, Provided, Functions
<1>10. \A r \in Schemas : recorded[r] # FALSE  BY <1>0, <1>1 DEF Tables
<1>11. \A k \in Keys : composed'[k] = None  BY <1>0, <1>1 DEF Tables
<1>12. CASE SwiftRegister(t)
  <2>1. recorded' = recorded /\ script' = script /\ pc'[App] = "Complete"
    BY <1>0, <1>1, <1>12 DEF SwiftRegister
  <2>2. \A r \in Schemas : r # s => definitions'[r] = definitions[r]
    BY <1>0, <1>7, <1>12 DEF SwiftRegister, Values
  <2>3. \A r \in Schemas \ Functions :
          definitions'[r] # {} => recorded'[r] = TRUE \/ Head(script')[1] = r
    <3>1. pc[App] # "Complete"  BY <1>1, <1>12 DEF SwiftRegister
    <3>2. \A r \in Schemas \ Functions : definitions[r] # {} => recorded[r] = TRUE
      BY <1>0, <3>1 DEF Tables
    <3> QED  BY <1>7, <2>1, <2>2, <3>2
  <2>4. s \in Functions \ stolen => definitions' = definitions
    BY <1>0, <1>7, <1>9, <1>12 DEF SwiftRegister, Accepted
  <2>5. \A r \in Functions \ stolen :
          /\ definitions'[r] \subseteq ToSet(Registers[r])
          /\ recorded'[r] = TRUE => definitions'[r] = ToSet(Registers[r])
    BY <1>0, <2>1, <2>2, <2>4 DEF Tables
  <2>6. Tables'  BY <1>0, <1>1, <1>10, <1>11, <2>1, <2>3, <2>5 DEF Tables
  <2> QED  BY <1>3, <1>4, <1>5, <1>6, <2>6
<1>13. CASE SwiftComplete(t)
  <2>1. definitions' = definitions /\ script' = Tail(script)  BY <1>13 DEF SwiftComplete
  <2>2. /\ \A r \in Schemas : r # s => recorded'[r] = recorded[r]
        /\ recorded'[s] = IF recorded[s] = None THEN TRUE ELSE recorded[s]
    BY <1>0, <1>7, <1>9, <1>13 DEF SwiftComplete, Record, Values
  <2>3. recorded[s] \in BOOLEAN \cup {None}  BY <1>0, <1>9 DEF Values
  <2>4. recorded'[s] = TRUE  BY <1>9, <1>10, <2>2, <2>3
  <2>5. \A r \in Schemas \ Functions : definitions'[r] # {} => recorded'[r] = TRUE
    BY <1>0, <1>7, <2>1, <2>2, <2>4 DEF Tables
  <2>6. \A r \in Functions \ stolen : recorded'[r] = recorded[r]
    BY <1>0, <1>9, <2>2
  <2>7. \A r \in Schemas : recorded'[r] # FALSE  BY <1>10, <2>2, <2>4
  <2>8. \A i \in DOMAIN script' : script'[i][1] \notin ToSet(Plugin)
    BY <1>0, <1>8, <2>1 DEF Tables
  <2>9. \A r \in Functions \ stolen :
          /\ definitions'[r] \subseteq ToSet(Registers[r])
          /\ recorded'[r] = TRUE => definitions'[r] = ToSet(Registers[r])
    BY <1>0, <2>1, <2>6 DEF Tables
  <2>10. Tables'  BY <1>1, <1>11, <2>5, <2>7, <2>8, <2>9 DEF Tables
  <2> QED  BY <1>3, <1>4, <1>5, <1>6, <2>10
<1> QED  BY <1>12, <1>13 DEF Registering

\* Only the thread that subscribes gives that up, when it opens the barrier.
LEMMA InstanceOpensOn ==
  ASSUME RInv, NEW t \in All, Frame(t), Quiet(t),
         Step(t) \/ (t \in Threads /\ (SpuriousWake(t) \/ \E k \in Keys : Call(t, k)))
  PROVE  InstanceOpens'
<1> USE DEF Goto, singletonVars, barrierVars, pluginVars
<1>0. /\ pc \in [All -> Places] /\ LoaderOK /\ Threads \cap Others = {}
      /\ InstanceOpens /\ (open => open')
  BY RegistryAssumption DEF RInv, TInv, IInv, Types, Quiet
<1>1. ASSUME NEW u \in Threads, u # t, Subscribing(u) PROVE Subscribing(u)'
  BY <1>1 DEF Frame, Subscribing, All
<1>2. ASSUME t \in Threads, Subscribing(t) PROVE instance' = instance /\ (Subscribing(t)' \/ open')
  <2>1. pc[t] \in {"Subscribe", "SetConstructed", "Loop", "Run", "Relock"} /\ loader # t
    BY <1>0, <1>2 DEF Subscribing, Working, LoaderOK
  <2>2. CASE Managing(t)
    BY <1>0, <1>2, <2>1, <2>2 DEF Managing, Subscribe, ProcessLibrary, Enter, Pop, RegisterNext,
       FunctionEnds, Relock, LoopEnds, Subscribing, Working
  <2>3. CASE Waiting(t) \/ SpuriousWake(t)
    BY <1>0, <1>2, <2>1, <2>3 DEF Waiting, SetConstructed, NotifyAll, PassBarrier, LockBarrier,
       Test, Wait, Wake, SpuriousWake
  <2>4. ~Getting(t) /\ ~Looking(t) /\ ~Registering(t) /\ ~\E k \in Keys : Call(t, k)
    BY <2>1 DEF Getting, Exchange, Spin, Check, Construct, Built, Looking, FindCached, Find, Ensure,
       Skip, RecordNone, Load, Loaded, Collect, Emplace, Registering, SwiftRegister, SwiftComplete,
       Call
  <2> QED  BY <2>2, <2>3, <2>4 DEF Step
<1>3. CASE \E u \in Threads : Subscribing(u)
  <2>1. PICK u \in Threads : Subscribing(u)  BY <1>3
  <2>2. CASE u = t  BY <1>2, <2>1, <2>2 DEF InstanceOpens
  <2>3. CASE u # t  BY <1>1, <2>1, <2>3 DEF InstanceOpens
  <2> QED  BY <2>2, <2>3
<1>4. CASE open  BY <1>0, <1>4 DEF InstanceOpens
<1>5. CASE ~instance
  <2>1. CASE t \in Threads /\ Construct(t)
    <3>1. pc'[t] = "Subscribe"  BY <1>0, <2>1 DEF Construct, All
    <3> QED  BY <2>1, <3>1 DEF InstanceOpens, Subscribing
  <2>2. CASE ~(t \in Threads /\ Construct(t))
    <3>1. instance' = instance
      BY <2>2 DEF Step, Managing, Subscribe, ProcessLibrary, Enter, Pop, RegisterNext,
         FunctionEnds, Relock, LoopEnds, Getting, Exchange, Spin, Check, Built, Waiting,
         SetConstructed, NotifyAll, PassBarrier, LockBarrier, Test, Wait, Wake, SpuriousWake,
         Looking, FindCached, Find, Ensure, Skip, RecordNone, Load, Loaded, Collect, Emplace,
         Registering, SwiftRegister, SwiftComplete, Call
    <3> QED  BY <1>5, <3>1 DEF InstanceOpens
  <2> QED  BY <2>1, <2>2
<1> QED  BY <1>0, <1>3, <1>4, <1>5 DEF InstanceOpens

LEMMA InitRuns == ASSUME Init, SwiftElsewhere PROVE RInv
<1> USE DEF Init
<1>1. TInv  BY InitTypes
<1>2. None # TRUE /\ None # FALSE /\ Functions \subseteq Schemas  BY Constants
<1>3. Tables
  <2>1. \A i \in DOMAIN script : script[i][1] \notin ToSet(Plugin)  BY DEF SwiftElsewhere
  <2> QED  BY <1>2, <2>1 DEF Tables
<1>4. Opened /\ InstanceOpens  BY DEF Opened, InstanceOpens
<1>5. \A t \in All : Runs(t)  BY DEF Runs
<1>6. \A t \in Threads : t \in All /\ pc[t] = "Out" /\ loader # t  BY Constants DEF All
<1>7. \A t \in Threads : Opens(t)  BY <1>6 DEF Opens, Inside, Constructing, Working
<1>8. \A t \in Threads : Loads(t)  BY <1>6 DEF Loads, Looks, Working
<1> QED  BY <1>1, <1>3, <1>4, <1>5, <1>7, <1>8 DEF RInv

LEMMA StepRuns ==
  ASSUME RInv, NEW t \in All,
         Step(t) \/ (t \in Threads /\ (SpuriousWake(t) \/ \E k \in Keys : Call(t, k)))
  PROVE  RInv' /\ Frame(t) /\ Grows
<1>1. Next
  <2>1. CASE Step(t)  BY <2>1 DEF Next
  <2>2. CASE t \in Threads /\ (SpuriousWake(t) \/ \E k \in Keys : Call(t, k))
    BY <2>2 DEF Next
  <2> QED  BY <2>1, <2>2
<1>2. TInv /\ [Next]_vars  BY <1>1 DEF RInv
<1>3. TInv' /\ IInv'
  <2>1. TInv'  BY <1>2, StepTypes
  <2> QED  BY <2>1 DEF TInv
<1>4. Frame(t) /\ Grows /\ Quiet(t)  BY <1>2, FrameHolds, GrowsHolds, QuietHolds
<1>5. Tables' /\ Opened' /\ Runs(t)' /\ (t \in Threads => Opens(t)' /\ Loads(t)')
  <2>1. CASE Managing(t)  BY <1>4, <2>1, ManagingRuns
  <2>2. CASE t \in Threads /\ (Getting(t) \/ \E k \in Keys : Call(t, k))
    BY <1>3, <1>4, <2>2, GettingRuns
  <2>3. CASE t \in Threads /\ (Waiting(t) \/ SpuriousWake(t))  BY <1>4, <2>3, WaitingRuns
  <2>4. CASE t \in Threads /\ Looking(t)  BY <1>4, <2>4, LookingRuns
  <2>5. CASE t \in Threads /\ Registering(t)  BY <1>4, <2>5, RegisteringRuns
  <2> QED  BY <2>1, <2>2, <2>3, <2>4, <2>5 DEF Step
<1>6. /\ \A u \in All \ {t} : Runs(u)'
      /\ \A u \in Threads \ {t} : Opens(u)' /\ Loads(u)'
  <2>1. Tables'  BY <1>5
  <2>2. \A u \in All \ {t} : Runs(u)'  BY <1>4, <2>1, RunsOn
  <2>3. \A u \in Threads \ {t} : Opens(u)'  BY <1>4, OpensOn
  <2>4. \A u \in Threads \ {t} : Loads(u)'  BY <1>4, LoadsOn
  <2> QED  BY <2>2, <2>3, <2>4
<1>7. \A u \in All : Runs(u)'  BY <1>5, <1>6
<1>8. \A u \in Threads : Opens(u)' /\ Loads(u)'  BY <1>5, <1>6
<1>9. Tables' /\ Opened' /\ InstanceOpens'  BY <1>4, <1>5, InstanceOpensOn
<1> QED  BY <1>3, <1>4, <1>7, <1>8, <1>9 DEF RInv

(***************************************************************************)
(* What is composed.                                                       *)
(***************************************************************************)

\* A lookup that is at the schema m + 1 of its key has composed what the first m
\* schemas offer, and knows every name that they offer.
Composes(t) ==
  /\ pc[t] = "Find" \/ ~Looks(t) => found[t] = {}
  /\ \A k \in Keys, m \in Nat :
       Looks(t) /\ pc[t] # "Find" /\ key[t] = k /\ index[t] = m + 1 /\ ~Stolen(k) =>
         /\ found[t] = Offered(k, m)
         /\ \A i \in 1..m : \A n \in Owed(Expanded[k][i]) : \E d \in found[t] : d[2] = n

CInv == RInv /\ ComposedIsComplete /\ \A t \in Threads : Composes(t)

-----------------------------------------------------------------------------
(* What schemas offer.                                                     *)

LEMMA SchemaOfKey ==
  ASSUME NEW k \in Keys
  PROVE  /\ Len(Expanded[k]) \in Nat /\ DOMAIN Expanded[k] = 1..Len(Expanded[k])
         /\ \A i \in 1..Len(Expanded[k]) : Expanded[k][i] \in Schemas
<1>1. Expanded[k] \in Seq(Schemas)  BY RegistryAssumption
<1> QED  BY <1>1, LenProperties, ElementOfSeq

LEMMA OwedNames ==
  ASSUME Values, NEW s \in Schemas
  PROVE  Owed(s) \subseteq Names
<1>1. CASE s \in Functions
  <2>1. Registers[s] \in Seq(Names)  BY <1>1, RegistryAssumption
  <2>2. ToSet(Registers[s]) \subseteq Names  BY <2>1, LenProperties, ElementOfSeq DEF ToSet
  <2> QED  BY <1>1, <2>2 DEF Owed
<1>2. CASE s \notin Functions  BY <1>2 DEF Owed, Values
<1> QED  BY <1>1, <1>2

LEMMA OwedForGood ==
  ASSUME Grows, script = <<>>
  PROVE  \A s \in Schemas : Owed(s)' = Owed(s)
BY DEF Grows, Owed

LEMMA OfferedForGood ==
  ASSUME Grows, script = <<>>, NEW k \in Keys, NEW m \in 0..Len(Expanded[k])
  PROVE  Offered(k, m)' = Offered(k, m)
<1>1. \A i \in 1..m : Expanded[k][i] \in Schemas  BY SchemaOfKey
<1>2. \A i \in 1..m : Owed(Expanded[k][i])' = Owed(Expanded[k][i])  BY <1>1, OwedForGood
<1>3. \A j \in 1..m : \A i \in 1..(j - 1) : i \in 1..m  BY SchemaOfKey
<1>4. ASSUME NEW d \in Schemas \X Names, NEW j \in 1..m
      PROVE  (/\ d[1] = Expanded[k][j] /\ d[2] \in Owed(d[1])
              /\ \A i \in 1..(j - 1) : d[2] \notin Owed(Expanded[k][i]))'
             <=> /\ d[1] = Expanded[k][j] /\ d[2] \in Owed(d[1])
                 /\ \A i \in 1..(j - 1) : d[2] \notin Owed(Expanded[k][i])
  <2>1. d[1] = Expanded[k][j] => Owed(d[1])' = Owed(d[1])
    <3>1. \A s \in Schemas : Owed(s)' = Owed(s)  BY OwedForGood
    <3> QED  BY <3>1
  <2> QED  BY <1>2, <1>3, <2>1
<1> QED  BY <1>4 DEF Offered

LEMMA NothingOffered == ASSUME NEW k PROVE Offered(k, 0) = {}
BY DEF Offered

\* The next schema adds the names that no stronger schema offers.
LEMMA OffersMore ==
  ASSUME Values, NEW k \in Keys, NEW m \in Nat, m + 1 \in 1..Len(Expanded[k]),
         NEW s, s = Expanded[k][m + 1]
  PROVE  Offered(k, m + 1) =
           Offered(k, m) \cup
             {<<s, n>> : n \in {n \in Owed(s) : \A i \in 1..m : n \notin Owed(Expanded[k][i])}}
<1> DEFINE New == {n \in Owed(s) : \A i \in 1..m : n \notin Owed(Expanded[k][i])}
<1>1. s \in Schemas /\ Owed(s) \subseteq Names  BY SchemaOfKey, OwedNames
<1>2. 1..(m + 1) = (1..m) \cup {m + 1} /\ (m + 1) - 1 = m  OBVIOUS
<1>3. ASSUME NEW d \in Offered(k, m + 1)
      PROVE  d \in Offered(k, m) \cup {<<s, n>> : n \in New}
  <2>1. PICK j \in 1..(m + 1) :
          /\ d[1] = Expanded[k][j] /\ d[2] \in Owed(d[1])
          /\ \A i \in 1..(j - 1) : d[2] \notin Owed(Expanded[k][i])
    BY <1>3 DEF Offered
  <2>2. d \in Schemas \X Names  BY <1>3 DEF Offered
  <2>3. CASE j \in 1..m  BY <2>1, <2>2, <2>3 DEF Offered
  <2>4. CASE j = m + 1
    <3>1. d[1] = s /\ d[2] \in New  BY <1>2, <2>1, <2>4
    <3>2. d = <<d[1], d[2]>>  BY <2>2
    <3> QED  BY <3>1, <3>2
  <2> QED  BY <1>2, <2>3, <2>4
<1>4. ASSUME NEW d \in Offered(k, m) PROVE d \in Offered(k, m + 1)
  BY <1>2, <1>4 DEF Offered
<1>5. ASSUME NEW n \in New PROVE <<s, n>> \in Offered(k, m + 1)
  <2>1. n \in Names /\ <<s, n>> \in Schemas \X Names  BY <1>1, <1>5
  <2>2. m + 1 \in 1..(m + 1)  OBVIOUS
  <2>3. /\ s = Expanded[k][m + 1] /\ n \in Owed(s)
        /\ \A i \in 1..((m + 1) - 1) : n \notin Owed(Expanded[k][i])
    BY <1>2, <1>5
  <2> QED  BY <2>1, <2>2, <2>3 DEF Offered
<1> QED  BY <1>3, <1>4, <1>5

-----------------------------------------------------------------------------
(* The steps.                                                              *)

\* A thread composes on where it was, whatever others register meanwhile.
LEMMA ComposesKeep ==
  ASSUME RInv, Grows, NEW u \in Threads, Composes(u),
         Looks(u)' <=> Looks(u), pc'[u] = "Find" <=> pc[u] = "Find",
         key'[u] = key[u], index'[u] = index[u], found'[u] = found[u]
  PROVE  Composes(u)'
<1>1. pc'[u] = "Find" \/ ~Looks(u)' => found'[u] = {}  BY DEF Composes
<1>2. ASSUME NEW k \in Keys, NEW m \in Nat,
             Looks(u), pc[u] # "Find", key[u] = k, index[u] = m + 1, ~Stolen(k)'
      PROVE  /\ found'[u] = Offered(k, m)'
             /\ \A i \in 1..m : \A n \in Owed(Expanded[k][i])' : \E d \in found'[u] : d[2] = n
  <2>1. ~Stolen(k)  BY <1>2 DEF Grows, Stolen
  <2>2. script = <<>> /\ Asks(u)  BY <1>2 DEF RInv, TInv, Asks
  <2>3. m \in 0..Len(Expanded[k])
    BY <1>2, <2>2, SchemaOfKey DEF Asks, Reads
  <2>4. Offered(k, m)' = Offered(k, m)  BY <2>2, <2>3, OfferedForGood
  <2>5. \A i \in 1..m : Owed(Expanded[k][i])' = Owed(Expanded[k][i])
    BY <2>2, <2>3, SchemaOfKey, OwedForGood
  <2>6. /\ found[u] = Offered(k, m)
        /\ \A i \in 1..m : \A n \in Owed(Expanded[k][i]) : \E d \in found[u] : d[2] = n
    BY <1>2, <2>1 DEF Composes
  <2> QED  BY <2>4, <2>5, <2>6
<1> QED  BY <1>1, <1>2 DEF Composes

LEMMA ComposesNothing ==
  ASSUME NEW t \in Threads, found'[t] = {}, pc'[t] = "Find" \/ ~Looks(t)'
  PROVE  Composes(t)'
BY DEF Composes

LEMMA CompleteKeep ==
  ASSUME RInv, Grows, ComposedIsComplete, UNCHANGED composed
  PROVE  ComposedIsComplete'
<1> SUFFICES ASSUME NEW k \in Keys, composed[k] # None, ~Stolen(k)'
             PROVE  composed[k] = Offered(k, Len(Expanded[k]))'
  BY DEF ComposedIsComplete
<1>1. ~Stolen(k)  BY DEF Grows, Stolen
<1>2. script = <<>>  BY DEF RInv, Tables
<1>3. Len(Expanded[k]) \in 0..Len(Expanded[k])  BY SchemaOfKey
<1>4. PICK m \in 0..Len(Expanded[k]) : m = Len(Expanded[k])  BY <1>3
<1>5. Offered(k, m)' = Offered(k, m)  BY <1>2, OfferedForGood
<1> QED  BY <1>1, <1>4, <1>5 DEF ComposedIsComplete

\* One schema more: a thread adds what it offers under names not taken yet.
LEMMA ComposesNext ==
  ASSUME RInv, Grows, NEW t \in Threads, Composes(t), Reads(t), loader' # t, Advance(t),
         key' = key,
         ~Stolen(key[t]) =>
           found'[t] = found[t] \cup {<<Schema(t), n>> :
                                        n \in Owed(Schema(t)) \ {d[2] : d \in found[t]}}
  PROVE  Composes(t)'
<1>1. /\ Values /\ Asks(t) /\ pc \in [All -> Places] /\ t \in All /\ LoaderOK
  BY DEF RInv, TInv, IInv, Types, All
<1>2. /\ key[t] \in Keys /\ script = <<>> /\ index[t] \in 1..Len(Expanded[key[t]])
      /\ pc[t] # "Find" /\ Looks(t)
  BY <1>1 DEF Asks, Reads, Looks, LoaderOK
<1>3. PICK k \in Keys : k = key[t]  BY <1>2
<1>4. PICK m \in Nat : index[t] = m + 1 /\ m + 1 \in 1..Len(Expanded[k])
  <2>1. index[t] - 1 \in Nat /\ index[t] = (index[t] - 1) + 1  BY <1>2, <1>3, SchemaOfKey
  <2> QED  BY <1>2, <1>3, <2>1
<1>5. PICK s \in Schemas : s = Schema(t) /\ s = Expanded[k][m + 1]
  BY <1>3, <1>4, SchemaOfKey DEF Schema
<1>6. index'[t] = m + 2  BY <1>1, <1>4 DEF Advance, Values
<1>7. pc'[t] \in {"Emplace", "Ensure"}  BY <1>1 DEF Advance
<1>8. ASSUME ~Stolen(k)'
      PROVE  /\ found'[t] = Offered(k, m + 1)'
             /\ \A i \in 1..(m + 1) : \A n \in Owed(Expanded[k][i])' : \E d \in found'[t] : d[2] = n
  <2>1. ~Stolen(k)  BY <1>8 DEF Grows, Stolen
  <2>2. /\ found[t] = Offered(k, m)
        /\ \A i \in 1..m : \A n \in Owed(Expanded[k][i]) : \E d \in found[t] : d[2] = n
    BY <1>2, <1>3, <1>4, <2>1 DEF Composes
  <2> DEFINE Names1 == {d[2] : d \in found[t]}
             New == {n \in Owed(s) : \A i \in 1..m : n \notin Owed(Expanded[k][i])}
  <2>3. \A n \in Owed(s) : n \in Names1 <=> \E i \in 1..m : n \in Owed(Expanded[k][i])
    <3>1. ASSUME NEW d \in found[t] PROVE \E i \in 1..m : d[2] \in Owed(Expanded[k][i])
      BY <2>2, <3>1 DEF Offered
    <3>2. ASSUME NEW i \in 1..m, NEW n \in Owed(Expanded[k][i]) PROVE n \in Names1
      BY <2>2, <3>2
    <3> QED  BY <3>1, <3>2
  <2>4. Owed(s) \ Names1 = New  BY <2>3
  <2>5. found'[t] = found[t] \cup {<<s, n>> : n \in New}
    BY <1>3, <1>5, <2>1, <2>4
  <2>6. Offered(k, m + 1) = Offered(k, m) \cup {<<s, n>> : n \in New}
    BY <1>1, <1>4, <1>5, OffersMore
  <2>7. m + 1 \in 0..Len(Expanded[k])  BY <1>4, SchemaOfKey
  <2>8. PICK l \in 0..Len(Expanded[k]) : l = m + 1  BY <2>7
  <2>9. Offered(k, l)' = Offered(k, l)  BY <1>2, <2>8, OfferedForGood
  <2>10. found'[t] = Offered(k, m + 1)'  BY <2>2, <2>5, <2>6, <2>8, <2>9
  <2>11. \A i \in 1..(m + 1) : i \in 1..Len(Expanded[k]) /\ (i \in 1..m \/ i = m + 1)
    BY <1>4, SchemaOfKey
  <2>12. ASSUME NEW i \in 1..(m + 1), NEW n \in Owed(Expanded[k][i])'
         PROVE  \E d \in found'[t] : d[2] = n
    <3>1. Expanded[k][i] \in Schemas  BY <2>11, SchemaOfKey
    <3>2. n \in Owed(Expanded[k][i])  BY <1>2, <2>12, <3>1, OwedForGood
    <3>3. CASE i \in 1..m  BY <2>2, <2>5, <3>2, <3>3
    <3>4. CASE i = m + 1
      <4>1. n \in Owed(s)  BY <1>5, <3>2, <3>4
      <4>2. CASE n \in Names1  BY <2>5, <4>2
      <4>3. CASE n \notin Names1
        <5>1. <<s, n>> \in found'[t] /\ <<s, n>>[2] = n  BY <2>4, <2>5, <4>1, <4>3
        <5> QED  BY <5>1
      <4> QED  BY <4>2, <4>3
    <3> QED  BY <2>11, <3>3, <3>4
  <2> QED  BY <2>10, <2>12
<1>9. ASSUME NEW k1 \in Keys, NEW m1 \in Nat, key'[t] = k1, index'[t] = m1 + 1
      PROVE  k1 = k /\ m1 = m + 1
  BY <1>3, <1>6, <1>9
<1>10. Looks(t)' /\ pc'[t] # "Find"  BY <1>7 DEF Looks
<1> QED  BY <1>8, <1>9, <1>10 DEF Composes

\* The thread that looks up.
LEMMA LookingComposes ==
  ASSUME CInv, NEW t \in Threads, Looking(t), Grows
  PROVE  Composes(t)' /\ ComposedIsComplete'
<1> USE DEF Goto
<1>0. /\ t \in All /\ pc \in [All -> Places] /\ LoaderOK /\ Values /\ Asks(t) /\ Composes(t)
      /\ Loads(t) /\ Tables /\ RInv /\ None \notin Threads
  BY Constants DEF CInv, RInv, TInv, IInv, Types, All
<1>1. ~Emplace(t) => ComposedIsComplete'
  <2>1. ~Emplace(t) => UNCHANGED composed
    BY DEF Looking, FindCached, Find, Ensure, Skip, RecordNone, Load, Loaded, Collect
  <2> QED  BY <2>1, CompleteKeep DEF CInv
<1>2. ASSUME Reads(t), script = <<>>, Schema(t) \notin Functions, recorded[Schema(t)] # TRUE
      PROVE  Owed(Schema(t)) = {}
  <2>1. pc[App] # "Complete"  BY <1>0, <1>2, RegistryAssumption DEF RInv, TInv, Asks
  <2>2. Schema(t) \in Schemas
    <3>1. key[t] \in Keys /\ index[t] \in 1..Len(Expanded[key[t]])
      BY <1>0, <1>2 DEF Asks, Reads, Looks, LoaderOK
    <3> QED  BY <3>1, SchemaOfKey DEF Schema
  <2>3. definitions[Schema(t)] = {}  BY <1>0, <1>2, <2>1, <2>2 DEF Tables
  <2> QED  BY <1>2, <2>3 DEF Owed
<1>3. ASSUME Reads(t), loader # t
      PROVE  /\ key[t] \in Keys /\ Schema(t) \in Schemas /\ script = <<>>
             /\ Schema(t) \in stolen => Stolen(key[t])
  <2>1. key[t] \in Keys /\ index[t] \in 1..Len(Expanded[key[t]]) /\ script = <<>>
    BY <1>0, <1>3 DEF Asks, Reads, Looks
  <2>2. DOMAIN Expanded[key[t]] = 1..Len(Expanded[key[t]])  BY <2>1, SchemaOfKey
  <2> QED  BY <2>1, <2>2, SchemaOfKey DEF Schema, Stolen
<1>4. CASE FindCached(t)
  <2>1. /\ pc[t] = "Find" /\ pc'[t] = "Out" /\ found' = found /\ loader' = loader
        /\ loader # t
    BY <1>0, <1>4 DEF FindCached, pluginVars, LoaderOK
  <2>2. found'[t] = {} /\ ~Looks(t)'  BY <1>0, <2>1 DEF Composes, Looks
  <2> QED  BY <1>1, <1>4, <2>1, <2>2, ComposesNothing DEF Emplace
<1>5. CASE Find(t)
  <2>1. /\ pc[t] = "Find" /\ pc'[t] \in {"Emplace", "Ensure"} /\ found' = found
        /\ index'[t] = 1
    BY <1>0, <1>5 DEF Find, Values
  <2>2. found'[t] = {}  BY <1>0, <2>1 DEF Composes
  <2>3. Looks(t)'  BY <2>1 DEF Looks
  <2>4. ASSUME NEW k \in Keys, NEW m \in Nat, index'[t] = m + 1
        PROVE  found'[t] = Offered(k, m)' /\ 1..m = {}
    <3>1. m = 0  BY <2>1, <2>4
    <3>2. Offered(k, 0)' = {}  BY DEF Offered
    <3> QED  BY <2>2, <3>1, <3>2
  <2>5. Composes(t)'  BY <2>1, <2>3, <2>4 DEF Composes
  <2> QED  BY <1>1, <1>5, <2>1, <2>5 DEF Emplace
<1>6. CASE Ensure(t) \/ Load(t) \/ Loaded(t)
  <2>1. /\ pc[t] \in {"Ensure", "Load", "Loaded"}
        /\ pc'[t] \in {"Collect", "Load", "RecordNone", "Loaded", "Process"}
        /\ UNCHANGED <<key, index, found>>
    BY <1>0, <1>6 DEF Ensure, Load, Loaded, lookupVars
  <2>2. Looks(t) /\ Looks(t)'  BY <2>1 DEF Looks
  <2>3. Composes(t)'  BY <1>0, <2>1, <2>2, ComposesKeep
  <2> QED  BY <1>1, <2>1, <2>3 DEF Emplace
<1>7. CASE Skip(t)
  <2>1. /\ Reads(t) /\ Advance(t) /\ key' = key /\ found' = found /\ loader' = loader
        /\ loader # t /\ recorded[Schema(t)] = FALSE /\ pc[t] = "Ensure"
    BY <1>0, <1>7 DEF Skip, Reads, Looks, LoaderOK, pluginVars
  <2>2. ~Stolen(key[t]) => Owed(Schema(t)) = {}
    <3>1. Schema(t) \in Schemas /\ script = <<>> /\ (Schema(t) \in stolen => Stolen(key[t]))
      BY <1>3, <2>1
    <3>2. Schema(t) \in Functions => Schema(t) \in stolen  BY <1>0, <2>1, <3>1 DEF Tables
    <3>3. Schema(t) \notin Functions => Owed(Schema(t)) = {}  BY <1>2, <2>1, <3>1
    <3> QED  BY <3>1, <3>2, <3>3
  <2>3. Composes(t)'  BY <1>0, <2>1, <2>2, ComposesNext
  <2> QED  BY <1>1, <2>1, <2>3 DEF Emplace
<1>8. CASE RecordNone(t)
  <2>1. /\ Reads(t) /\ Advance(t) /\ key' = key /\ found' = found /\ loader' = loader
        /\ loader # t /\ pc[t] = "RecordNone"
    BY <1>0, <1>8 DEF RecordNone, Reads, Looks, LoaderOK, pluginVars
  <2>2. ~Stolen(key[t]) => Owed(Schema(t)) = {}
    <3>1. Schema(t) \in Schemas /\ script = <<>> /\ (Schema(t) \in stolen => Stolen(key[t]))
      BY <1>3, <2>1
    <3>2. \/ Schema(t) \in stolen
          \/ Schema(t) \notin Functions /\ recorded[Schema(t)] # TRUE
      BY <1>0, <2>1 DEF Loads
    <3> QED  BY <1>2, <2>1, <3>1, <3>2
  <2>3. Composes(t)'  BY <1>0, <2>1, <2>2, ComposesNext
  <2> QED  BY <1>1, <2>1, <2>3 DEF Emplace
<1>9. CASE Collect(t)
  <2>1. /\ Reads(t) /\ Advance(t) /\ key' = key /\ loader' = loader
        /\ loader # t /\ pc[t] = "Collect"
    BY <1>0, <1>9 DEF Collect, Reads, Looks, LoaderOK, pluginVars
  <2>2. ~Stolen(key[t]) => definitions[Schema(t)] = Owed(Schema(t))
    <3>1. Schema(t) \in Schemas /\ (Schema(t) \in stolen => Stolen(key[t]))
      BY <1>3, <2>1
    <3>2. Schema(t) \in stolen \/ recorded[Schema(t)] = TRUE
      BY <1>0, <2>1 DEF Loads, Provided
    <3>3. Schema(t) \in Functions \ stolen /\ recorded[Schema(t)] = TRUE =>
            definitions[Schema(t)] = ToSet(Registers[Schema(t)])
      BY <1>0 DEF Tables
    <3> QED  BY <3>1, <3>2, <3>3 DEF Owed
  <2>3. found'[t] = found[t] \cup {<<Schema(t), n>> :
                                     n \in definitions[Schema(t)] \ {d[2] : d \in found[t]}}
    BY <1>0, <1>9 DEF Collect, Values
  <2>4. Composes(t)'  BY <1>0, <2>1, <2>2, <2>3, ComposesNext
  <2> QED  BY <1>1, <2>1, <2>4 DEF Emplace
<1>10. CASE Emplace(t)
  <2>1. /\ pc[t] = "Emplace" /\ pc'[t] = "Out" /\ found'[t] = {} /\ loader' = loader
        /\ loader # t
    BY <1>0, <1>10 DEF Emplace, pluginVars, LoaderOK, Values
  <2>2. ~Looks(t)'  BY <2>1 DEF Looks
  <2>3. Looks(t)  BY <2>1 DEF Looks
  <2>4. PICK k \in Keys : k = key[t]  BY <1>0, <2>1 DEF Asks
  <2>5. PICK m \in 0..Len(Expanded[k]) : m = Len(Expanded[k])  BY SchemaOfKey
  <2>6. script = <<>> /\ index[t] = m + 1 /\ m \in Nat
    BY <1>0, <2>1, <2>3, <2>4, <2>5, SchemaOfKey DEF Asks
  <2>7. ~Stolen(k) => found[t] = Offered(k, m)
    BY <1>0, <2>1, <2>3, <2>4, <2>6 DEF Composes
  <2>8. /\ \A r \in Keys : r # k => composed'[r] = composed[r]
        /\ composed'[k] = IF composed[k] = None THEN found[t] ELSE composed[k]
    BY <1>0, <1>10, <2>4 DEF Emplace, Values
  <2>9. ASSUME NEW r \in Keys, composed'[r] # None, ~Stolen(r)'
        PROVE  composed'[r] = Offered(r, Len(Expanded[r]))'
    <3>1. ~Stolen(r)  BY <2>9 DEF Grows, Stolen
    <3>2. PICK l \in 0..Len(Expanded[r]) : l = Len(Expanded[r])  BY SchemaOfKey
    <3>3. Offered(r, l)' = Offered(r, l)  BY <2>6, <3>2, OfferedForGood
    <3>4. CASE r = k /\ composed[k] = None
      BY <2>5, <2>7, <2>8, <3>1, <3>2, <3>3, <3>4
    <3>5. CASE r # k \/ composed[k] # None
      <4>1. composed'[r] = composed[r]  BY <2>8, <2>9, <3>5
      <4>2. composed[r] = Offered(r, Len(Expanded[r]))
        BY <2>9, <3>1, <4>1 DEF CInv, ComposedIsComplete
      <4> QED  BY <3>2, <3>3, <4>1, <4>2
    <3> QED  BY <3>4, <3>5
  <2>10. ComposedIsComplete'  BY <2>9 DEF ComposedIsComplete
  <2> QED  BY <2>1, <2>2, <2>10, ComposesNothing
<1> QED  BY <1>4, <1>5, <1>6, <1>7, <1>8, <1>9, <1>10 DEF Looking

\* Nobody else composes.
LEMMA OtherComposes ==
  ASSUME CInv, Grows, NEW t \in Threads,
         \/ Managing(t) \/ Getting(t) \/ Waiting(t) \/ Registering(t) \/ SpuriousWake(t)
         \/ \E k \in Keys : Call(t, k)
  PROVE  Composes(t)'
<1> USE DEF Goto, pluginVars, lookupVars
<1>0. /\ t \in All /\ t \notin Others /\ pc \in [All -> Places] /\ LoaderOK /\ Composes(t) /\ RInv
  BY RegistryAssumption DEF CInv, RInv, TInv, IInv, Types, All
<1>1. found' = found
  BY DEF Managing, Subscribe, ProcessLibrary, Enter, Pop, RegisterNext, FunctionEnds, Relock,
     LoopEnds, Getting, Exchange, Spin, Check, Construct, Built, Waiting, SetConstructed, NotifyAll,
     PassBarrier, LockBarrier, Test, Wait, Wake, SpuriousWake, Call, Registering, SwiftRegister,
     SwiftComplete
<1>2. CASE Managing(t)
  <2>1. UNCHANGED <<key, index, loader>>
    BY <1>2 DEF Managing, Subscribe, ProcessLibrary, Enter, Pop, RegisterNext, FunctionEnds, Relock,
       LoopEnds
  <2>2. (Looks(t)' <=> Looks(t)) /\ pc[t] # "Find" /\ pc'[t] # "Find"
    BY <1>0, <1>2 DEF Managing, Subscribe, ProcessLibrary, Enter, Pop, RegisterNext, FunctionEnds,
       Relock, LoopEnds, Looks, LoaderOK
  <2> QED  BY <1>0, <1>1, <2>1, <2>2, ComposesKeep
<1>3. CASE \/ Getting(t) \/ Waiting(t) \/ Registering(t) \/ SpuriousWake(t)
           \/ \E k \in Keys : Call(t, k)
  <2>1. ~Looks(t) /\ (~Looks(t)' \/ pc'[t] = "Find")
    BY <1>0, <1>3 DEF Getting, Exchange, Spin, Check, Construct, Built, Waiting, SetConstructed,
       NotifyAll, PassBarrier, LockBarrier, Test, Wait, Wake, SpuriousWake, Call, Registering,
       SwiftRegister, SwiftComplete, Looks, LoaderOK, Entered
  <2>2. found'[t] = {}  BY <1>0, <1>1, <2>1 DEF Composes
  <2> QED  BY <2>1, <2>2, ComposesNothing
<1> QED  BY <1>2, <1>3

LEMMA StepComposes == ASSUME CInv, [Next]_vars PROVE CInv'
<1>1. ASSUME NEW t \in All,
             Step(t) \/ (t \in Threads /\ (SpuriousWake(t) \/ \E k \in Keys : Call(t, k)))
      PROVE  CInv'
  <2>1. RInv' /\ Frame(t) /\ Grows  BY <1>1, StepRuns DEF CInv
  <2>2. \A u \in Threads \ {t} : Composes(u)'
    <3>1. ASSUME NEW u \in Threads \ {t} PROVE Composes(u)'
      <4>1. /\ pc'[u] = pc[u] /\ key'[u] = key[u] /\ index'[u] = index[u]
            /\ found'[u] = found[u] /\ (loader' = u <=> loader = u)
        BY <2>1 DEF Frame, All
      <4>2. Looks(u)' <=> Looks(u)  BY <4>1 DEF Looks
      <4>3. RInv /\ Composes(u)  BY DEF CInv
      <4> QED  BY <2>1, <4>1, <4>2, <4>3, ComposesKeep
    <3> QED  BY <3>1
  <2>3. CASE t \in Threads /\ Looking(t)
    <3>1. Composes(t)' /\ ComposedIsComplete'  BY <2>1, <2>3, LookingComposes
    <3>2. ComposedIsComplete'  BY <3>1
    <3>3. \A u \in Threads : Composes(u)'  BY <2>2, <3>1
    <3> QED  BY <2>1, <3>2, <3>3 DEF CInv
  <2>4. CASE ~(t \in Threads /\ Looking(t))
    <3>1. /\ t \in Threads => \/ Managing(t) \/ Getting(t) \/ Waiting(t) \/ Registering(t)
                              \/ SpuriousWake(t) \/ \E k \in Keys : Call(t, k)
          /\ t \notin Threads => Managing(t)
      BY <1>1, <2>4 DEF Step
    <3>2. t \in Threads => Composes(t)'  BY <2>1, <3>1, OtherComposes
    <3>3. composed' = composed
      BY <3>1 DEF Managing, Subscribe, ProcessLibrary, Enter, Pop, RegisterNext, FunctionEnds,
         Relock, LoopEnds, Getting, Exchange, Spin, Check, Construct, Built, Waiting,
         SetConstructed, NotifyAll, PassBarrier, LockBarrier, Test, Wait, Wake, SpuriousWake, Call,
         Registering, SwiftRegister, SwiftComplete
    <3>4. ComposedIsComplete'  BY <2>1, <3>3, CompleteKeep DEF CInv
    <3>5. \A u \in Threads : Composes(u)'  BY <2>2, <3>2
    <3> QED  BY <2>1, <3>4, <3>5 DEF CInv
  <2> QED  BY <2>3, <2>4
<1>2. CASE Next
  <2>1. CASE \E t \in All : Step(t)
    <3>1. PICK t \in All : Step(t)  BY <2>1
    <3> QED  BY <1>1, <3>1
  <2>2. CASE \E t \in Threads : SpuriousWake(t) \/ \E k \in Keys : Call(t, k)
    <3>1. PICK t \in Threads : SpuriousWake(t) \/ \E k \in Keys : Call(t, k)  BY <2>2
    <3>2. t \in All  BY DEF All
    <3> QED  BY <1>1, <3>1, <3>2
  <2> QED  BY <1>2, <2>1, <2>2 DEF Next
<1>3. CASE UNCHANGED vars
  <2>1. TInv'
    <3>1. TInv /\ [Next]_vars  BY DEF CInv, RInv
    <3> QED  BY <3>1, StepTypes
  <2> USE <1>3 DEF vars, singletonVars, barrierVars, managerVars, pluginVars, tableVars, swiftVars,
          lookupVars, runVars
  <2>2. Tables' /\ Opened' /\ InstanceOpens'
    BY DEF CInv, RInv, Tables, Opened, Provided, InstanceOpens, Subscribing
  <2>3. \A u \in All : Runs(u)'  BY DEF CInv, RInv, Runs
  <2>4. \A u \in Threads : Opens(u)' /\ Loads(u)'
    BY DEF CInv, RInv, Opens, Loads, Inside, Looks, Pending, Provided, Schema
  <2>5. RInv'  BY <2>1, <2>2, <2>3, <2>4 DEF RInv
  <2>6. Grows  BY DEF Grows
  <2>7. ComposedIsComplete'
    <3>1. RInv /\ ComposedIsComplete /\ UNCHANGED composed  BY DEF CInv
    <3> QED  BY <2>6, <3>1, CompleteKeep
  <2>8. ASSUME NEW u \in Threads PROVE Composes(u)'
    <3>1. /\ (Looks(u)' <=> Looks(u)) /\ (pc'[u] = "Find" <=> pc[u] = "Find")
          /\ key'[u] = key[u] /\ index'[u] = index[u] /\ found'[u] = found[u]
      BY DEF Looks
    <3>2. RInv /\ Composes(u)  BY DEF CInv
    <3> QED  BY <2>6, <3>1, <3>2, ComposesKeep
  <2> QED  BY <2>5, <2>7, <2>8 DEF CInv
<1> QED  BY <1>2, <1>3

\* What a lookup caches is complete, however many threads look up, whoever constructs
\* the registry or loads the plugin meanwhile, and whatever Swift registered before
\* for schemas that are not the plugin's.
THEOREM ComposesAll == SwiftElsewhere => (Spec => []ComposedIsComplete)
<1> SUFFICES ASSUME SwiftElsewhere PROVE Spec => []ComposedIsComplete
  OBVIOUS
<1>1. Init => CInv
  <2> SUFFICES ASSUME Init PROVE CInv
    OBVIOUS
  <2>1. RInv  BY InitRuns
  <2>2. ComposedIsComplete  BY DEF Init, ComposedIsComplete
  <2>3. \A t \in Threads : Composes(t)
    <3>1. \A t \in Threads : pc[t] = "Out" /\ found[t] = {} /\ loader # t
      BY Constants DEF Init, All
    <3> QED  BY <3>1 DEF Composes, Looks
  <2> QED  BY <2>1, <2>2, <2>3 DEF CInv
<1>2. CInv /\ [Next]_vars => CInv'  BY StepComposes
<1>3. CInv => ComposedIsComplete  BY DEF CInv
<1> QED  BY <1>1, <1>2, <1>3, PTL DEF Spec

=============================================================================
