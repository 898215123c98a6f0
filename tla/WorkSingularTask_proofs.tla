----------------------- MODULE WorkSingularTask_proofs -----------------------
(***************************************************************************)
(* A singular task never runs concurrently with itself and loses no Wake,  *)
(* for any wakers and any threads of the dispatcher.                       *)
(***************************************************************************)
EXTENDS WorkSingularTask, TLAPS

(***************************************************************************)
(* The inductive invariant.  The task exists at most once: about to be run *)
(* in the dispatcher, queued there, or taken by a runner.                  *)
(***************************************************************************)
Taken(r) == rpc[r] # "Idle"

AtMostOne ==
  /\ queued \in {0, 1}
  /\ \A w, x \in Wakers : wpc[w] = "Run" /\ wpc[x] = "Run" => w = x
  /\ \A r, s \in Runners : Taken(r) /\ Taken(s) => r = s
  /\ \A w \in Wakers : wpc[w] = "Run" => queued = 0
  /\ \A r \in Runners : Taken(r) => queued = 0
  /\ \A w \in Wakers, r \in Runners : ~(wpc[w] = "Run" /\ Taken(r))

\* It exists exactly when the count is not 0.
Counted ==
  count > 0 <=> \/ queued > 0
                \/ \E w \in Wakers : wpc[w] = "Run"
                \/ \E r \in Runners : Taken(r)

\* The runner has seen at least one Wake and at most those counted.
OldIsSeen ==
  \A r \in Runners : rpc[r] \in {"Begin", "In", "Exchange"} => old[r] \in 1 .. count

SInv == SingularTypeOK /\ AtMostOne /\ Counted /\ OldIsSeen /\ NoLostWake

LEMMA SingularInitInv == SingularInit => SInv
<1> SUFFICES ASSUME SingularInit PROVE SInv
  OBVIOUS
<1>1. /\ count = 0 /\ queued = 0 /\ ~due
      /\ \A w \in Wakers : wpc[w] = "Out"
      /\ \A r \in Runners : rpc[r] = "Idle"
  BY DEF SingularInit
<1>2. SingularTypeOK
  BY DEF SingularInit, SingularTypeOK
<1> QED BY <1>1, <1>2 DEF SInv, AtMostOne, Taken, Counted, OldIsSeen, NoLostWake

LEMMA WakeInv ==
  ASSUME SInv, NEW w \in Wakers, Wake(w)
  PROVE  SInv'
<1> USE DEF Wake, WGoto, Taken
<1>1. SingularTypeOK'
  BY DEF SInv, SingularTypeOK
<1>2. CASE count = 0
  <2>1. /\ queued = 0 /\ \A x \in Wakers : wpc[x] = "Out"
        /\ \A r \in Runners : rpc[r] = "Idle"
    BY <1>2 DEF SInv, SingularTypeOK, Counted
  <2>2. /\ count' = 1 /\ queued' = 0 /\ rpc' = rpc
        /\ \A x \in Wakers : wpc'[x] = IF x = w THEN "Run" ELSE "Out"
    BY <1>2, <2>1 DEF SInv, SingularTypeOK
  <2> QED BY <1>1, <2>1, <2>2 DEF SInv, AtMostOne, Counted, OldIsSeen, NoLostWake
<1>3. CASE count # 0
  <2>1. wpc' = wpc /\ queued' = queued /\ rpc' = rpc /\ old' = old
    BY <1>3 DEF SInv, SingularTypeOK
  <2>2. count > 0 /\ count' = count + 1 /\ count \in Nat
    BY <1>3 DEF SInv, SingularTypeOK
  <2>3. AtMostOne' /\ Counted'
    BY <2>1, <2>2 DEF SInv, AtMostOne, Counted
  <2>4. OldIsSeen'
    BY <2>1, <2>2 DEF SInv, OldIsSeen, SingularTypeOK
  <2>5. NoLostWake'
    BY <2>1, <2>2 DEF SInv, Counted, OldIsSeen, NoLostWake, SingularTypeOK
  <2> QED BY <1>1, <2>3, <2>4, <2>5 DEF SInv
<1> QED BY <1>2, <1>3

LEMMA RunInv ==
  ASSUME SInv, NEW w \in Wakers, Run(w)
  PROVE  SInv'
<1> USE DEF Run, WGoto, Taken
<1>1. SingularTypeOK'
  BY DEF SInv, SingularTypeOK
<1>2. /\ queued = 0 /\ \A r \in Runners : rpc[r] = "Idle"
      /\ \A x \in Wakers : x # w => wpc[x] = "Out"
  BY DEF SInv, SingularTypeOK, AtMostOne
<1>3. /\ queued' = 1 /\ count' = count /\ rpc' = rpc /\ old' = old
      /\ \A x \in Wakers : wpc'[x] = "Out"
  BY <1>2 DEF SInv, SingularTypeOK
<1>4. count > 0
  BY DEF SInv, Counted
<1> QED BY <1>1, <1>2, <1>3, <1>4 DEF SInv, AtMostOne, Counted, OldIsSeen, NoLostWake

LEMMA StartInv ==
  ASSUME SInv, NEW r \in Runners, Start(r)
  PROVE  SInv'
<1> USE DEF Start, RGoto, Taken
<1>1. SingularTypeOK'
  BY DEF SInv, SingularTypeOK
<1>2. /\ queued = 1 /\ \A x \in Wakers : wpc[x] = "Out"
      /\ \A s \in Runners : rpc[s] = "Idle"
  BY DEF SInv, SingularTypeOK, AtMostOne
<1>3. /\ queued' = 0 /\ count' = count /\ wpc' = wpc
      /\ \A s \in Runners : rpc'[s] = IF s = r THEN "Load" ELSE "Idle"
  BY <1>2 DEF SInv, SingularTypeOK
<1>4. count > 0
  BY <1>2 DEF SInv, Counted
<1> QED BY <1>1, <1>2, <1>3, <1>4 DEF SInv, AtMostOne, Counted, OldIsSeen, NoLostWake

\* While a runner has the task nothing else of it exists.
LEMMA OnlyTaker ==
  ASSUME SInv, NEW r \in Runners, Taken(r)
  PROVE  /\ queued = 0 /\ count > 0 /\ count \in Nat
         /\ \A w \in Wakers : wpc[w] = "Out"
         /\ \A s \in Runners : s # r => rpc[s] = "Idle"
BY DEF SInv, SingularTypeOK, AtMostOne, Counted, Taken

LEMMA LoadInv ==
  ASSUME SInv, NEW r \in Runners, Load(r)
  PROVE  SInv'
<1> USE DEF Load, RGoto
<1>1. SingularTypeOK'
  BY DEF SInv, SingularTypeOK
<1>2. Taken(r)
  BY DEF Taken
<1>3. /\ queued' = 0 /\ count' = count /\ wpc' = wpc /\ old'[r] = count
      /\ \A s \in Runners : rpc'[s] = IF s = r THEN "Begin" ELSE "Idle"
  BY <1>2, OnlyTaker DEF SInv, SingularTypeOK
<1> QED
  BY <1>1, <1>2, <1>3, OnlyTaker
  DEF SInv, AtMostOne, Counted, OldIsSeen, NoLostWake, Taken

LEMMA BeginInv ==
  ASSUME SInv, NEW r \in Runners, Begin(r)
  PROVE  SInv'
<1> USE DEF Begin, RGoto
<1>1. SingularTypeOK'
  BY DEF SInv, SingularTypeOK
<1>2. Taken(r)
  BY DEF Taken
<1>3. /\ queued' = 0 /\ count' = count /\ wpc' = wpc /\ old' = old /\ ~due'
      /\ \A s \in Runners : rpc'[s] = IF s = r THEN "In" ELSE "Idle"
  BY <1>2, OnlyTaker DEF SInv, SingularTypeOK
<1>4. old[r] \in 1 .. count
  BY DEF SInv, OldIsSeen
<1> QED
  BY <1>1, <1>2, <1>3, <1>4, OnlyTaker
  DEF SInv, AtMostOne, Counted, OldIsSeen, NoLostWake, Taken

LEMMA ReturnInv ==
  ASSUME SInv, NEW r \in Runners, Return(r)
  PROVE  SInv'
<1> USE DEF Return, RGoto
<1>1. SingularTypeOK'
  BY DEF SInv, SingularTypeOK
<1>2. Taken(r)
  BY DEF Taken
<1>3. /\ queued' = 0 /\ count' = count /\ wpc' = wpc /\ old' = old /\ due' = due
      /\ \A s \in Runners : rpc'[s] = IF s = r THEN "Exchange" ELSE "Idle"
  BY <1>2, OnlyTaker DEF SInv, SingularTypeOK
<1>4. old[r] \in 1 .. count /\ (due => old[r] # count)
  BY <1>2, OnlyTaker DEF SInv, OldIsSeen, NoLostWake
<1> QED
  BY <1>1, <1>2, <1>3, <1>4, OnlyTaker
  DEF SInv, AtMostOne, Counted, OldIsSeen, NoLostWake, Taken

LEMMA ExchangeInv ==
  ASSUME SInv, NEW r \in Runners, Exchange(r)
  PROVE  SInv'
<1> USE DEF Exchange, RGoto
<1>1. SingularTypeOK'
  BY DEF SInv, SingularTypeOK
<1>2. Taken(r)
  BY DEF Taken
<1>3. queued' = 0 /\ wpc' = wpc /\ old'[r] = count /\ due' = due
  BY <1>2, OnlyTaker DEF SInv, SingularTypeOK
<1>4. CASE count = old[r]
  <2>1. ~due
    BY <1>2, <1>4, OnlyTaker DEF SInv, NoLostWake
  <2>2. count' = 0 /\ \A s \in Runners : rpc'[s] = "Idle"
    BY <1>2, <1>4, OnlyTaker DEF SInv, SingularTypeOK
  <2> QED
    BY <1>1, <1>2, <1>3, <2>1, <2>2, OnlyTaker
    DEF SInv, AtMostOne, Counted, OldIsSeen, NoLostWake, Taken
<1>5. CASE count # old[r]
  <2>1. /\ count' = count
        /\ \A s \in Runners : rpc'[s] = IF s = r THEN "Begin" ELSE "Idle"
    BY <1>2, <1>5, OnlyTaker DEF SInv, SingularTypeOK
  <2> QED
    BY <1>1, <1>2, <1>3, <2>1, OnlyTaker
    DEF SInv, AtMostOne, Counted, OldIsSeen, NoLostWake, Taken
<1> QED BY <1>4, <1>5

LEMMA SingularStepInv == SInv /\ [SingularNext]_singularVars => SInv'
<1> SUFFICES ASSUME SInv, [SingularNext]_singularVars PROVE SInv'
  OBVIOUS
<1>1. ASSUME NEW w \in Wakers, Wake(w) \/ Run(w) PROVE SInv'
  BY <1>1, WakeInv, RunInv
<1>2. ASSUME NEW r \in Runners,
             Start(r) \/ Load(r) \/ Begin(r) \/ Return(r) \/ Exchange(r)
      PROVE  SInv'
  BY <1>2, StartInv, LoadInv, BeginInv, ReturnInv, ExchangeInv
<1>3. CASE UNCHANGED singularVars
  BY <1>3 DEF singularVars, SInv, SingularTypeOK, AtMostOne, Taken, Counted,
             OldIsSeen, NoLostWake
<1> QED BY <1>1, <1>2, <1>3 DEF SingularNext

LEMMA AtMostOneRuns == SInv => NotConcurrent
  BY DEF SInv, AtMostOne, NotConcurrent, Taken

\* A singular task, with any number of wakers and runners: never two threads in
\* the task function (WorkSingularTask::_Waker), and no Wake after which the
\* function is not called again.
THEOREM SingularTask == SingularSpec => [](NotConcurrent /\ NoLostWake)
<1>1. SInv => NoLostWake
  BY DEF SInv
<1> QED BY <1>1, SingularInitInv, SingularStepInv, AtMostOneRuns, PTL DEF SingularSpec
=============================================================================
