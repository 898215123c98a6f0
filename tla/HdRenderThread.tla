--------------------------- MODULE HdRenderThread ---------------------------
(***************************************************************************)
(* HdRenderThread: a thread that renders in the background while hydra     *)
(* edits the scene.  The render thread holds the state mutex while it is   *)
(* in the render callback, so requests reach the callback through atomics  *)
(* beside the mutex: _enableRender, _pauseRender, _pauseDirty, _rendering. *)
(*                                                                         *)
(* Hydra is used as the header describes it.  In a sync, any number of     *)
(* threads stop the render and edit the scene; then the application thread *)
(* starts the render if the scene has changed.  Between two syncs it       *)
(* pauses and resumes the render, and stops and starts the thread.  The    *)
(* callback is the loop of the header's example, with the poll of          *)
(* IsPauseDirty that render delegates end it with.                         *)
(***************************************************************************)
EXTENDS Integers, FiniteSets

CONSTANTS
  Hydra,        \* threads of a sync
  App,          \* the application thread
  Render,       \* the render thread
  Nobody,       \* the mutex is free
  MaxEdits,     \* scene edits
  MaxPauses,    \* calls of PauseRender and ResumeRender
  MaxRestarts,  \* calls of StartThread
  MaxSpurious   \* spurious wake-ups of the condition variable

ASSUME BoundsAssumption ==
  /\ {MaxEdits, MaxPauses, MaxRestarts, MaxSpurious} \subseteq Nat
  /\ {App, Render, Nobody} \cap Hydra = {} /\ Render # Nobody

VARIABLES
  requestedState, mutex,                  \* _requestedState and its mutex
  enableRender, stopRequested,            \* the stop request
  pauseRender, pauseDirty,                \* the pause request
  rendering,                              \* _rendering
  joinable,                               \* _renderThread.joinable()
  rpc,                                    \* where the render thread is
  pc,                                     \* where the hydra threads are
  scene,                                  \* version of the scene
  started,                                \* version of the last StartRender
  image,                                  \* version of the last complete frame
  \* history: a stop was asked for since the last StartRender; _pauseRender at
  \* the last IsPauseDirty
  stopAsked, polledPause,
  pauses, restarts, spurious              \* counted against the bounds

stopVars == <<enableRender, stopRequested, stopAsked>>
pauseVars == <<pauseRender, pauseDirty, polledPause>>
appVars == <<scene, started, pauses, restarts, joinable>>
vars == <<requestedState, mutex, stopVars, pauseVars, rendering, rpc, pc, image,
          spurious, appVars>>

Threads == Hydra \cup {App}

Init == /\ requestedState = "Initial"
        /\ mutex = Nobody
        /\ enableRender = FALSE /\ stopRequested = FALSE
        /\ pauseRender = FALSE /\ pauseDirty = FALSE
        /\ rendering = FALSE
        /\ joinable = FALSE
        /\ rpc = "None"
        /\ pc = [h \in Threads |-> "Out"]
        /\ scene = 0 /\ started = 0 /\ image = 0
        /\ stopAsked = FALSE /\ polledPause = FALSE
        /\ pauses = 0 /\ restarts = 0 /\ spurious = 0

Goto(h, from, to) == pc[h] = from /\ pc' = [pc EXCEPT ![h] = to]

\* notify_one: only the render thread waits on the condition variable.
NotifyOne == rpc' = IF rpc = "Waiting" THEN "Lock" ELSE rpc

-----------------------------------------------------------------------------
(* The application thread.                                                 *)

StartThread ==
  /\ pc[App] = "Out"
  /\ ~joinable
  /\ restarts < MaxRestarts
  /\ restarts' = restarts + 1
  /\ requestedState' = "Idle"
  /\ joinable' = TRUE
  /\ rpc' = "Lock"
  /\ UNCHANGED <<mutex, stopVars, pauseVars, rendering, pc, image, spurious,
                 scene, started, pauses>>

\* Sync: the other threads may edit the scene.
BeginSync ==
  /\ joinable
  /\ scene < MaxEdits
  /\ Goto(App, "Out", "Sync")
  /\ UNCHANGED <<requestedState, mutex, stopVars, pauseVars, rendering, rpc,
                 image, spurious, appVars>>

\* Execute follows the sync; it starts a render if the scene has changed, and
\* StartRender is a no-op while IsRendering.
Execute ==
  /\ \A h \in Hydra : pc[h] = "Out"
  /\ Goto(App, "Sync", IF started # scene /\ ~rendering THEN "StartRender"
                                                        ELSE "Out")
  /\ started' = scene
  /\ UNCHANGED <<requestedState, mutex, stopVars, pauseVars, rendering, rpc,
                 image, spurious, scene, pauses, restarts, joinable>>

\* As a bug would have it: a stop that came too late is not taken back.
StartRenderStopped ==
  /\ Goto(App, "StartRender", "Out")
  /\ mutex = Nobody
  /\ requestedState' = "Rendering"
  /\ rendering' = TRUE
  /\ NotifyOne
  /\ stopAsked' = FALSE
  /\ UNCHANGED <<mutex, enableRender, stopRequested, pauseVars, image, spurious,
                 appVars>>

\* As a bug would have it: the mutex is not locked.
StartRenderUnlocked ==
  /\ Goto(App, "StartRender", "Out")
  /\ enableRender' = TRUE
  /\ requestedState' = "Rendering"
  /\ rendering' = TRUE
  /\ NotifyOne
  /\ stopAsked' = FALSE
  /\ UNCHANGED <<mutex, stopRequested, pauseVars, image, spurious, appVars>>

StartRender ==
  /\ Goto(App, "StartRender", "Out")
  /\ mutex = Nobody
  /\ enableRender' = TRUE
  /\ requestedState' = "Rendering"
  /\ rendering' = TRUE
  /\ NotifyOne
  /\ stopAsked' = FALSE
  /\ UNCHANGED <<mutex, stopRequested, pauseVars, image, spurious, appVars>>

\* PauseRender and ResumeRender: first the dirty flag, then the value.
PauseOrResume(value) ==
  /\ pauses < MaxPauses
  /\ pauses' = pauses + 1
  /\ Goto(App, "Out", IF value THEN "Pause" ELSE "Resume")
  /\ pauseDirty' = TRUE
  /\ UNCHANGED <<requestedState, mutex, stopVars, pauseRender, polledPause,
                 rendering, rpc, image, spurious, scene, started, restarts,
                 joinable>>

StorePause ==
  /\ pc[App] \in {"Pause", "Resume"}
  /\ pauseRender' = (pc[App] = "Pause")
  /\ pc' = [pc EXCEPT ![App] = "Out"]
  /\ UNCHANGED <<requestedState, mutex, stopVars, pauseDirty, polledPause,
                 rendering, rpc, image, spurious, appVars>>

\* StopThread: the stop request, then the state under the lock, then the join.
StopThread ==
  /\ joinable
  /\ Goto(App, "Out", "Terminate")
  /\ enableRender' = FALSE
  /\ stopAsked' = TRUE
  /\ UNCHANGED <<requestedState, mutex, stopRequested, pauseVars, rendering,
                 rpc, image, spurious, appVars>>

Terminate ==
  /\ Goto(App, "Terminate", "Join")
  /\ mutex = Nobody
  /\ requestedState' = "Terminated"
  /\ rendering' = FALSE
  /\ NotifyOne
  /\ UNCHANGED <<mutex, stopVars, pauseVars, image, spurious, appVars>>

Join ==
  /\ Goto(App, "Join", "Out")
  /\ rpc = "Exited"
  /\ joinable' = FALSE
  /\ rpc' = "None"
  /\ UNCHANGED <<requestedState, mutex, stopVars, pauseVars, rendering, image,
                 spurious, scene, started, pauses, restarts>>

-----------------------------------------------------------------------------
(* The threads of a sync: AcquireSceneForEdit is StopRender, then the edit. *)

\* StopRender is a no-op unless IsRendering.
StopRender(h) ==
  /\ pc[App] = "Sync"
  /\ scene + Cardinality({g \in Hydra : pc[g] # "Out"}) < MaxEdits
  /\ Goto(h, "Out", IF rendering THEN "Clear" ELSE "Edit")
  /\ UNCHANGED <<requestedState, mutex, stopVars, pauseVars, rendering, rpc,
                 image, spurious, appVars>>

ClearEnable(h) ==
  /\ Goto(h, "Clear", "StopLock")
  /\ enableRender' = FALSE
  /\ stopAsked' = TRUE
  /\ UNCHANGED <<requestedState, mutex, stopRequested, pauseVars, rendering, rpc,
                 image, spurious, appVars>>

\* As a bug would have it: the mutex is not locked.
StopUnlocked(h) ==
  /\ Goto(h, "StopLock", "Edit")
  /\ requestedState' = "Idle"
  /\ rendering' = FALSE
  /\ UNCHANGED <<mutex, stopVars, pauseVars, rpc, image, spurious, appVars>>

\* As a bug would have it: the mutex stays locked.
StopKeepsLock(h) ==
  /\ Goto(h, "StopLock", "Edit")
  /\ mutex = Nobody
  /\ mutex' = h
  /\ requestedState' = "Idle"
  /\ rendering' = FALSE
  /\ UNCHANGED <<stopVars, pauseVars, rpc, image, spurious, appVars>>

\* The mutex is free when the render thread is not in the callback.
StopLock(h) ==
  /\ Goto(h, "StopLock", "Edit")
  /\ mutex = Nobody
  /\ requestedState' = "Idle"
  /\ rendering' = FALSE
  /\ UNCHANGED <<mutex, stopVars, pauseVars, rpc, image, spurious, appVars>>

Edit(h) ==
  /\ Goto(h, "Edit", "Out")
  /\ scene' = scene + 1
  /\ UNCHANGED <<requestedState, mutex, stopVars, pauseVars, rendering, rpc,
                 image, spurious, started, pauses, restarts, joinable>>

-----------------------------------------------------------------------------
(* The render thread: _RenderLoop and the render callback.                 *)

RGoto(from, to) == rpc = from /\ rpc' = to

Lock ==
  /\ RGoto("Lock", "Test")
  /\ mutex = Nobody
  /\ mutex' = Render
  /\ UNCHANGED <<requestedState, stopVars, pauseVars, rendering, pc, image,
                 spurious, appVars>>

\* The predicate of the condition variable, and the two tests after it.
Test ==
  /\ RGoto("Test", CASE requestedState = "Idle" -> "Waiting"
                     [] requestedState = "Rendering" -> "CbPause"
                     [] OTHER -> "Shutdown")
  /\ mutex' = IF requestedState = "Rendering" THEN Render ELSE Nobody
  /\ UNCHANGED <<requestedState, stopVars, pauseVars, rendering, pc, image,
                 spurious, appVars>>

SpuriousWakeup ==
  /\ RGoto("Waiting", "Lock")
  /\ spurious < MaxSpurious
  /\ spurious' = spurious + 1
  /\ UNCHANGED <<requestedState, mutex, stopVars, pauseVars, rendering, pc, image,
                 appVars>>

\* IsStopRequested: the flag is reset when it is read, the request remembered.
IsStopRequested == stopRequested \/ ~enableRender

PollStop(from, ifStopped, ifNot) ==
  /\ RGoto(from, IF IsStopRequested THEN ifStopped ELSE ifNot)
  /\ enableRender' = TRUE
  /\ stopRequested' = IsStopRequested
  /\ UNCHANGED <<requestedState, mutex, stopAsked, pauseVars, rendering, pc,
                 image, spurious, appVars>>

\* The callback waits while it is paused and not stopped.
PollPause ==
  /\ RGoto("CbPause", IF pauseRender THEN "CbPaused" ELSE "CbStop")
  /\ UNCHANGED <<requestedState, mutex, stopVars, pauseVars, rendering, pc,
                 image, spurious, appVars>>

\* As a bug would have it: a paused callback does not see the stop request.
PollStopPausedBlind == PollStop("CbPaused", "CbPause", "CbPause")

PollStopPaused == PollStop("CbPaused", "CbStop", "CbPause")
PollStopRunning == PollStop("CbStop", "CbEnd", "CbRender")

\* The pixels of the current scene; the frame is complete unless the pause
\* state changed meanwhile.
RenderPixels ==
  /\ RGoto("CbRender", "CbDirty")
  /\ UNCHANGED <<requestedState, mutex, stopVars, pauseVars, rendering, pc, image,
                 spurious, appVars>>

\* As a bug would have it: the frame ends although the pause state changed.
IsPauseDirtyIgnored ==
  /\ RGoto("CbDirty", "CbEnd")
  /\ pauseDirty' = FALSE
  /\ polledPause' = pauseRender
  /\ image' = IF pauseDirty THEN image ELSE scene
  /\ UNCHANGED <<requestedState, mutex, stopVars, pauseRender, rendering, pc,
                 spurious, appVars>>

\* As a bug would have it: the flag is read and not reset.
IsPauseDirtyStays ==
  /\ RGoto("CbDirty", IF pauseDirty THEN "CbPause" ELSE "CbEnd")
  /\ polledPause' = pauseRender
  /\ image' = IF pauseDirty THEN image ELSE scene
  /\ UNCHANGED <<requestedState, mutex, stopVars, pauseRender, pauseDirty,
                 rendering, pc, spurious, appVars>>

IsPauseDirty ==
  /\ RGoto("CbDirty", IF pauseDirty THEN "CbPause" ELSE "CbEnd")
  /\ pauseDirty' = FALSE
  /\ polledPause' = pauseRender
  /\ image' = IF pauseDirty THEN image ELSE scene
  /\ UNCHANGED <<requestedState, mutex, stopVars, pauseRender, rendering, pc,
                 spurious, appVars>>

\* After the callback.
CallbackEnds ==
  /\ RGoto("CbEnd", "CbEnded")
  /\ stopRequested' = FALSE
  /\ rendering' = FALSE
  /\ UNCHANGED <<requestedState, mutex, enableRender, stopAsked, pauseVars, pc,
                 image, spurious, appVars>>

BackToIdle ==
  /\ RGoto("CbEnded", "Lock")
  /\ requestedState' = "Idle"
  /\ mutex' = Nobody
  /\ UNCHANGED <<stopVars, pauseVars, rendering, pc, image, spurious, appVars>>

Shutdown ==
  /\ RGoto("Shutdown", "Exited")
  /\ UNCHANGED <<requestedState, mutex, stopVars, pauseVars, rendering, pc, image,
                 spurious, appVars>>

-----------------------------------------------------------------------------
AppStep == \/ Execute \/ StartRender \/ StorePause \/ Terminate \/ Join

AppChoice == \/ StartThread \/ BeginSync \/ StopThread
             \/ \E v \in BOOLEAN : PauseOrResume(v)

HydraStep(h) == ClearEnable(h) \/ StopLock(h) \/ Edit(h)

RenderStep == \/ Lock \/ Test \/ PollPause \/ PollStopPaused \/ PollStopRunning
              \/ RenderPixels \/ IsPauseDirty \/ CallbackEnds \/ BackToIdle
              \/ Shutdown

\* The application may rest for ever between two calls.
Resting == /\ pc[App] = "Out"
           /\ rpc \in {"None", "Waiting"} \/ (pauseRender /\ rpc = "CbPause")
           /\ UNCHANGED vars

Next == \/ AppStep \/ AppChoice
        \/ \E h \in Hydra : StopRender(h) \/ HydraStep(h)
        \/ RenderStep \/ SpuriousWakeup
        \/ Resting

\* Calls that were begun go on; the render thread runs.  What the application
\* calls, and whether it resumes a paused render, is up to the application.
Fairness == /\ WF_vars(AppStep)
            /\ \A h \in Hydra : WF_vars(HydraStep(h))
            /\ WF_vars(RenderStep)

Spec == Init /\ [][Next]_vars
FairSpec == Spec /\ Fairness

-----------------------------------------------------------------------------
(* Properties.                                                             *)

InCallback == rpc \in {"CbPause", "CbPaused", "CbStop", "CbRender", "CbDirty",
                       "CbEnd"}

TypeOK ==
  /\ requestedState \in {"Initial", "Idle", "Rendering", "Terminated"}
  /\ mutex \in {Nobody, Render}
  /\ enableRender \in BOOLEAN /\ stopRequested \in BOOLEAN /\ stopAsked \in BOOLEAN
  /\ pauseRender \in BOOLEAN /\ pauseDirty \in BOOLEAN /\ polledPause \in BOOLEAN
  /\ rendering \in BOOLEAN /\ joinable \in BOOLEAN
  /\ rpc \in {"None", "Lock", "Test", "Waiting", "CbPause", "CbPaused", "CbStop",
              "CbRender", "CbDirty", "CbEnd", "CbEnded", "Shutdown", "Exited"}
  /\ pc \in [Threads -> {"Out", "Sync", "StartRender", "Pause", "Resume",
                         "Terminate", "Join", "Clear", "StopLock", "Edit"}]
  /\ {scene, started, image} \subseteq Nat

\* StopRender blocks until the render thread is idle: no thread edits the scene
\* while the callback runs, or is about to run.
NoEditWhileRendering ==
  (\E h \in Hydra : pc[h] = "Edit") =>
    /\ ~InCallback /\ ~rendering
    /\ requestedState = "Rendering" => rpc = "CbEnded"

\* IsStopRequested tells of a request made since the last StartRender: the reset
\* of the flag, the remembered request and a request that came too late for the
\* frame before never stop the next frame.
NoStaleStop == stopRequested => stopAsked

\* A StartRender is never lost: once no render is asked for, the last version of
\* the scene that was started has been rendered unless a stop was asked for.
NoLostStart ==
  ~rendering /\ ~stopAsked /\ pc[App] = "Out" /\ joinable => image = started

\* _rendering never claims a render nobody will perform or end.
RenderingIsServed ==
  rendering => InCallback \/ (requestedState = "Rendering" /\ joinable)

\* StopRender and StopThread return, even while the render is paused.
StopsReturn == /\ \A h \in Hydra : pc[h] = "Clear" ~> pc[h] = "Edit"
               /\ pc[App] = "Terminate" ~> ~joinable

\* A render that is not paused ends.
RendersEnd == (rendering /\ []~pauseRender) ~> ~rendering

\* renderThread.h, IsPauseDirty: "Query whether the pause/resume state has changed
\* since the last time we called IsPauseDirty."
PauseChangeIsReported ==
  [][(rpc = "CbDirty" /\ rpc' = "CbEnd") => pauseRender = polledPause]_vars
=============================================================================
