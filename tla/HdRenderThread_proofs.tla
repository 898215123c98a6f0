------------------------ MODULE HdRenderThread_proofs ------------------------
(***************************************************************************)
(* The invariants of HdRenderThread, for any number of syncing threads and *)
(* any bounds on what the application does.                                *)
(***************************************************************************)
EXTENDS HdRenderThread, TLAPS

(***************************************************************************)
(* The inductive invariant.                                                *)
(***************************************************************************)

\* The render thread holds the mutex from its test to the end of the frame.
MutexOK == mutex = Render <=> InCallback \/ rpc \in {"Test", "CbEnded"}

\* The thread exists, and what it was last asked to do.
ThreadOK ==
  /\ joinable <=> rpc # "None"
  /\ requestedState \in {"Idle", "Rendering"} => joinable
  /\ requestedState = "Initial" => ~joinable
  /\ requestedState = "Terminated" => pc[App] = "Join" \/ ~joinable
  /\ rpc \in {"Shutdown", "Exited"} => requestedState = "Terminated"
  /\ InCallback \/ rpc = "CbEnded" => requestedState = "Rendering"
  /\ pc[App] \in {"Sync", "StartRender", "Terminate", "Join"} => joinable

\* The other threads are at work only during a sync.
SyncOK ==
  /\ pc[App] \in {"Out", "Sync", "StartRender", "Pause", "Resume", "Terminate", "Join"}
  /\ \A h \in Hydra : /\ pc[h] \in {"Out", "Clear", "StopLock", "Edit"}
                      /\ pc[h] # "Out" => pc[App] = "Sync"
                      /\ pc[h] = "Edit" => ~rendering

\* _rendering goes with the requested state until the callback has returned.
RenderingOK == rendering <=> requestedState = "Rendering" /\ rpc # "CbEnded"

\* Whatever looks like a stop request was one.
StopOK ==
  /\ stopRequested => InCallback /\ stopAsked
  /\ requestedState = "Rendering" /\ ~enableRender => stopAsked
  /\ pc[App] \in {"Terminate", "Join"} => stopAsked
  /\ \A h \in Hydra : pc[h] = "StopLock" => stopAsked

\* A render is of the scene it was started for; it ends complete or stopped.
FrameOK ==
  /\ pc[App] # "Sync" \/ rendering => started = scene
  /\ rpc = "CbEnd" => stopAsked \/ image = started
  /\ ~rendering /\ ~stopAsked /\ pc[App] # "StartRender" => image = started

IInv == TypeOK /\ MutexOK /\ ThreadOK /\ SyncOK /\ RenderingOK /\ StopOK /\ FrameOK

USE DEF IInv, TypeOK, MutexOK, ThreadOK, SyncOK, RenderingOK, StopOK, FrameOK,
        InCallback, Threads, Goto, RGoto, NotifyOne, stopVars, pauseVars, appVars

LEMMA InitInv == ASSUME Init PROVE IInv
<1>1. pc \in [Threads -> {"Out", "Sync", "StartRender", "Pause", "Resume",
                         "Terminate", "Join", "Clear", "StopLock", "Edit"}]
  BY DEF Init
<1>2. {scene, started, image} \subseteq Nat  BY DEF Init
<1>3. TypeOK  BY <1>1, <1>2 DEF Init
<1>4. MutexOK  BY BoundsAssumption DEF Init
<1>5. ThreadOK  BY BoundsAssumption DEF Init
<1>6. SyncOK  BY BoundsAssumption DEF Init
<1>7. RenderingOK  BY BoundsAssumption DEF Init
<1>8. StopOK  BY BoundsAssumption DEF Init
<1>9. FrameOK  BY BoundsAssumption DEF Init
<1> QED  BY <1>3, <1>4, <1>5, <1>6, <1>7, <1>8, <1>9

LEMMA StartThreadInv == ASSUME IInv, StartThread PROVE IInv'
  BY BoundsAssumption DEF StartThread

LEMMA BeginSyncInv == ASSUME IInv, BeginSync PROVE IInv'
  BY BoundsAssumption DEF BeginSync

LEMMA ExecuteInv == ASSUME IInv, Execute PROVE IInv'
  BY BoundsAssumption DEF Execute

LEMMA StartRenderInv == ASSUME IInv, StartRender PROVE IInv'
<1>1. TypeOK'  BY BoundsAssumption DEF StartRender
<1>2. MutexOK'  BY BoundsAssumption DEF StartRender
<1>3. ThreadOK'  BY BoundsAssumption DEF StartRender
<1>4. SyncOK'  BY BoundsAssumption DEF StartRender
<1>5. RenderingOK'  BY BoundsAssumption DEF StartRender
<1>6. StopOK'  BY BoundsAssumption DEF StartRender
<1>7. FrameOK'  BY BoundsAssumption DEF StartRender
<1> QED  BY <1>1, <1>2, <1>3, <1>4, <1>5, <1>6, <1>7

LEMMA StorePauseInv == ASSUME IInv, StorePause PROVE IInv'
  BY BoundsAssumption DEF StorePause

LEMMA StopThreadInv == ASSUME IInv, StopThread PROVE IInv'
  BY BoundsAssumption DEF StopThread

LEMMA TerminateInv == ASSUME IInv, Terminate PROVE IInv'
<1>1. TypeOK'  BY BoundsAssumption DEF Terminate
<1>2. MutexOK'  BY BoundsAssumption DEF Terminate
<1>3. ThreadOK'  BY BoundsAssumption DEF Terminate
<1>4. SyncOK'  BY BoundsAssumption DEF Terminate
<1>5. RenderingOK'  BY BoundsAssumption DEF Terminate
<1>6. StopOK'  BY BoundsAssumption DEF Terminate
<1>7. FrameOK'  BY BoundsAssumption DEF Terminate
<1> QED  BY <1>1, <1>2, <1>3, <1>4, <1>5, <1>6, <1>7

LEMMA JoinInv == ASSUME IInv, Join PROVE IInv'
  BY BoundsAssumption DEF Join

LEMMA LockInv == ASSUME IInv, Lock PROVE IInv'
  BY BoundsAssumption DEF Lock

LEMMA TestInv == ASSUME IInv, Test PROVE IInv'
<1>1. TypeOK'  BY BoundsAssumption DEF Test
<1>2. MutexOK'  BY BoundsAssumption DEF Test
<1>3. ThreadOK'  BY BoundsAssumption DEF Test
<1>4. SyncOK'  BY BoundsAssumption DEF Test
<1>5. RenderingOK'  BY BoundsAssumption DEF Test
<1>6. StopOK'  BY BoundsAssumption DEF Test
<1>7. FrameOK'  BY BoundsAssumption DEF Test
<1> QED  BY <1>1, <1>2, <1>3, <1>4, <1>5, <1>6, <1>7

LEMMA PollPauseInv == ASSUME IInv, PollPause PROVE IInv'
  BY BoundsAssumption DEF PollPause

LEMMA PollStopPausedInv == ASSUME IInv, PollStopPaused PROVE IInv'
  BY BoundsAssumption DEF PollStopPaused, PollStop, IsStopRequested

LEMMA PollStopRunningInv == ASSUME IInv, PollStopRunning PROVE IInv'
  BY BoundsAssumption DEF PollStopRunning, PollStop, IsStopRequested

LEMMA RenderPixelsInv == ASSUME IInv, RenderPixels PROVE IInv'
  BY BoundsAssumption DEF RenderPixels

LEMMA IsPauseDirtyInv == ASSUME IInv, IsPauseDirty PROVE IInv'
  BY BoundsAssumption DEF IsPauseDirty

LEMMA CallbackEndsInv == ASSUME IInv, CallbackEnds PROVE IInv'
  BY BoundsAssumption DEF CallbackEnds

LEMMA BackToIdleInv == ASSUME IInv, BackToIdle PROVE IInv'
<1>1. TypeOK'  BY BoundsAssumption DEF BackToIdle
<1>2. MutexOK'  BY BoundsAssumption DEF BackToIdle
<1>3. ThreadOK'  BY BoundsAssumption DEF BackToIdle
<1>4. SyncOK'  BY BoundsAssumption DEF BackToIdle
<1>5. RenderingOK'  BY BoundsAssumption DEF BackToIdle
<1>6. StopOK'  BY BoundsAssumption DEF BackToIdle
<1>7. FrameOK'  BY BoundsAssumption DEF BackToIdle
<1> QED  BY <1>1, <1>2, <1>3, <1>4, <1>5, <1>6, <1>7

LEMMA ShutdownInv == ASSUME IInv, Shutdown PROVE IInv'
  BY BoundsAssumption DEF Shutdown

LEMMA SpuriousWakeupInv == ASSUME IInv, SpuriousWakeup PROVE IInv'
  BY BoundsAssumption DEF SpuriousWakeup

LEMMA PauseOrResumeInv == ASSUME IInv, NEW v \in BOOLEAN, PauseOrResume(v) PROVE IInv'
  BY BoundsAssumption DEF PauseOrResume

LEMMA StopRenderInv == ASSUME IInv, NEW h \in Hydra, StopRender(h) PROVE IInv'
  BY BoundsAssumption DEF StopRender

LEMMA ClearEnableInv == ASSUME IInv, NEW h \in Hydra, ClearEnable(h) PROVE IInv'
  BY BoundsAssumption DEF ClearEnable

LEMMA StopLockInv == ASSUME IInv, NEW h \in Hydra, StopLock(h) PROVE IInv'
<1>1. TypeOK'  BY BoundsAssumption DEF StopLock
<1>2. MutexOK'  BY BoundsAssumption DEF StopLock
<1>3. ThreadOK'  BY BoundsAssumption DEF StopLock
<1>4. SyncOK'  BY BoundsAssumption DEF StopLock
<1>5. RenderingOK'  BY BoundsAssumption DEF StopLock
<1>6. StopOK'  BY BoundsAssumption DEF StopLock
<1>7. FrameOK'  BY BoundsAssumption DEF StopLock
<1> QED  BY <1>1, <1>2, <1>3, <1>4, <1>5, <1>6, <1>7

LEMMA EditInv == ASSUME IInv, NEW h \in Hydra, Edit(h) PROVE IInv'
  BY BoundsAssumption DEF Edit

HIDE DEF IInv, TypeOK, MutexOK, ThreadOK, SyncOK, RenderingOK, StopOK, FrameOK,
         InCallback, Threads, Goto, RGoto, NotifyOne, stopVars, pauseVars, appVars

\* Every step preserves the invariant.
LEMMA StepInv == ASSUME IInv, [Next]_vars PROVE IInv'
<1>1. CASE AppStep
  BY <1>1, ExecuteInv, StartRenderInv, StorePauseInv, TerminateInv, JoinInv DEF AppStep
<1>2. CASE AppChoice
  BY <1>2, StartThreadInv, BeginSyncInv, StopThreadInv, PauseOrResumeInv DEF AppChoice
<1>3. CASE \E h \in Hydra : StopRender(h) \/ HydraStep(h)
  BY <1>3, StopRenderInv, ClearEnableInv, StopLockInv, EditInv DEF HydraStep
<1>4. CASE RenderStep
  BY <1>4, LockInv, TestInv, PollPauseInv, PollStopPausedInv, PollStopRunningInv,
     RenderPixelsInv, IsPauseDirtyInv, CallbackEndsInv, BackToIdleInv, ShutdownInv
     DEF RenderStep
<1>5. CASE SpuriousWakeup  BY <1>5, SpuriousWakeupInv
<1>6. CASE UNCHANGED vars
  BY <1>6 DEF vars, stopVars, pauseVars, appVars, IInv, TypeOK, MutexOK, ThreadOK,
             SyncOK, RenderingOK, StopOK, FrameOK, InCallback
<1> QED  BY <1>1, <1>2, <1>3, <1>4, <1>5, <1>6 DEF Next, Resting

\* The inductive invariant holds always.
THEOREM Invariance == Spec => []IInv
<1>1. Init => IInv  BY InitInv
<1>2. IInv /\ [Next]_vars => IInv'  BY StepInv
<1> QED  BY <1>1, <1>2, PTL DEF Spec

-----------------------------------------------------------------------------
(* What follows from it.                                                   *)

\* The flags, the mutex, both program counters and the versions have their types.
THEOREM TypeCorrect == Spec => []TypeOK
<1>1. IInv => TypeOK  BY DEF IInv
<1> QED  BY <1>1, Invariance, PTL

\* No thread edits the scene while the callback runs or is about to run: where a
\* thread edits, _rendering is false (SyncOK), and a callback that has not returned
\* runs in the state Rendering with _rendering true (ThreadOK, RenderingOK).
THEOREM EditsExcludeRenders == Spec => []NoEditWhileRendering
<1>1. IInv => NoEditWhileRendering
  <2> SUFFICES ASSUME IInv, NEW h \in Hydra, pc[h] = "Edit" PROVE NoEditWhileRendering
    BY DEF NoEditWhileRendering
  <2>1. ~rendering  BY DEF IInv, SyncOK
  <2>2. requestedState = "Rendering" => rpc = "CbEnded"
    BY <2>1 DEF IInv, RenderingOK
  <2>3. ~InCallback  BY <2>2 DEF IInv, ThreadOK, InCallback
  <2> QED  BY <2>1, <2>2, <2>3 DEF NoEditWhileRendering
<1> QED  BY <1>1, Invariance, PTL

\* A stop that is reported to the callback was asked for since the last StartRender.
THEOREM StopsAreFresh == Spec => []NoStaleStop
<1>1. IInv => NoStaleStop  BY DEF IInv, StopOK, NoStaleStop
<1> QED  BY <1>1, Invariance, PTL

\* A render that was started, and not stopped, leaves a complete image of its scene.
THEOREM StartsAreKept == Spec => []NoLostStart
<1>1. IInv => NoLostStart  BY DEF IInv, FrameOK, NoLostStart
<1> QED  BY <1>1, Invariance, PTL

\* While IsRendering, the render is in the callback or the thread will take it up.
THEOREM RendersAreServed == Spec => []RenderingIsServed
<1>1. IInv => RenderingIsServed
  BY DEF IInv, ThreadOK, RenderingOK, RenderingIsServed
<1> QED  BY <1>1, Invariance, PTL

=============================================================================
