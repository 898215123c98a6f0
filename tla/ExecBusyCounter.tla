-------------------------- MODULE ExecBusyCounter ---------------------------
(***************************************************************************)
(* _BusyThreadsAndUnblockedTasks: two signed counters in one atomic word,  *)
(* so that a thread stops being busy and tells of the tasks it made in one *)
(* step.  The busy threads are the upper half of the word.                 *)
(***************************************************************************)
EXTENDS Integers

CONSTANT Bias  \* what is added to each counter in its half: 2^31

ASSUME BiasAssumption == Bias \in Nat \ {0}

\* The values of a half, and of the word; the counters it holds.
Half == 2 * Bias
Words == Half * Half
Counter == -Bias .. Bias - 1

\* Both counters 0.
PackedZero == Bias * Half + Bias

\* As a bug would have it: the lower amount goes through an unsigned type.
PackUnsigned(busyThreads, unblockedTasks) ==
  (busyThreads * Half + (unblockedTasks % Half)) % Words

\* _PackIncrementAmount: both amounts may be negative, modulo the word.
PackIncrementAmount(busyThreads, unblockedTasks) ==
  (busyThreads * Half + unblockedTasks) % Words

\* What Add and FetchAdd leave in the word.
AddTo(packed, busyThreads, unblockedTasks) ==
  (packed + PackIncrementAmount(busyThreads, unblockedTasks)) % Words

Unpack(packed) == <<(packed \div Half) - Bias, (packed % Half) - Bias>>
=============================================================================
