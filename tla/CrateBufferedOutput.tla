------------------------ MODULE CrateBufferedOutput ------------------------
(***************************************************************************)
(* CrateFile::_BufferedOutput: a thread that saves a crate file writes to  *)
(* buffers, and a singular task writes full buffers to the file.  The      *)
(* saver seeks back to fill in what it could not know before, so writes    *)
(* overlap, in one buffer or in several that are pending.                  *)
(*                                                                         *)
(* The saver is the only waker of the task.  While it waits for the        *)
(* dispatcher it may run the task itself.                                  *)
(***************************************************************************)
EXTENDS WorkSingularTask, SequencesExt

CONSTANTS
  Saver,        \* the thread that saves
  Workers,      \* the other threads that run tasks
  NumBuffers,   \* NumBuffers
  BufferCap,    \* BufferCap
  FileSize,     \* a bound: positions of the file
  MaxOps,       \* a bound: calls of Write and Seek
  MaxFailures,  \* a bound: writes to the asset that fail
  None, End     \* no stamp, buffer or target; the target of Flush

ASSUME OutputAssumption ==
  /\ Wakers = {Saver} /\ Runners = Workers \cup {Saver} /\ Saver \notin Workers
  /\ NumBuffers \in Nat \ {0, 1} /\ BufferCap \in Nat \ {0}
  /\ {FileSize, MaxOps, MaxFailures} \subseteq Nat
  /\ {None, End} \cap Nat = {} /\ None # End /\ None \notin [buf : Nat, pos : Nat]

Buffers == 1 .. NumBuffers
Positions == 0 .. FileSize - 1
Offsets == 0 .. BufferCap - 1

\* What is written is told apart by the call that wrote it.
Stamps == 1 .. MaxOps

VARIABLES
  filePos, bufferPos,  \* _filePos, _bufferPos
  buffer,              \* _buffer; None once it is moved from
  bytes, size,         \* per buffer: what it holds
  freeBuffers,         \* _freeBuffers
  writeQueue,          \* _writeQueue: sequence of [buf, pos]
  op,                  \* per runner: the op of its _DoWrites
  stage,               \* where it is in _DoWrites
  file,                \* the asset
  failed, errors,      \* per runner: its error mark is not clean; _errors
  posted,              \* Wait has posted errors to the saver
  pc,                  \* where the saver is
  todo,                \* what Write has still to write
  target,              \* where Seek is to go
  calls, failures,     \* counted against the bounds
  written              \* history: what the saver has written where

posVars == <<filePos, bufferPos, buffer>>
queueVars == <<freeBuffers, writeQueue>>
taskVars == <<op, stage>>
errorVars == <<failed, errors, posted, failures>>
saverVars == <<pc, todo, target, calls, written>>
vars == <<singularVars, posVars, bytes, size, queueVars, taskVars, file,
          errorVars, saverVars>>

Init == /\ SingularInit
        /\ filePos = 0 /\ bufferPos = 0
        /\ buffer = 1
        /\ bytes = [b \in Buffers |-> [o \in Offsets |-> None]]
        /\ size = [b \in Buffers |-> 0]
        /\ freeBuffers = [i \in 1 .. NumBuffers - 1 |-> i + 1]
        /\ writeQueue = <<>>
        /\ op = [r \in Runners |-> None]
        /\ stage = [r \in Runners |-> "Pop"]
        /\ file = [p \in Positions |-> None]
        /\ failed = [r \in Runners |-> FALSE]
        /\ errors = FALSE /\ posted = FALSE
        /\ pc = "Out"
        /\ todo = 0
        /\ target = None
        /\ calls = 0 /\ failures = 0
        /\ written = [p \in Positions |-> None]

Goto(from, to) == pc = from /\ pc' = to

-----------------------------------------------------------------------------
(* The saver.                                                              *)

Write(n) ==
  /\ Goto("Out", "Write")
  /\ calls < MaxOps
  /\ filePos + n <= FileSize
  /\ calls' = calls + 1
  /\ todo' = n
  /\ UNCHANGED <<singularVars, posVars, bytes, size, queueVars, taskVars, file,
                 errorVars, target, written>>

Available == BufferCap - (filePos - bufferPos)

\* _WriteToBuffer: n bytes at the saver's place in the buffer.
WriteToBuffer(n) ==
  LET start == filePos - bufferPos IN
  /\ bytes' = [bytes EXCEPT ![buffer] =
                 [o \in Offsets |-> IF o \in start .. start + n - 1 THEN calls ELSE @[o]]]
  /\ size' = [size EXCEPT ![buffer] = IF start + n > @ THEN start + n ELSE @]
  /\ filePos' = filePos + n

\* An iteration of Write: what fits in the buffer, which is flushed when full.
Fill ==
  LET n == Min({Available, todo}) IN
  /\ Goto("Write", IF n = Available THEN "Flush" ELSE "Out")
  /\ WriteToBuffer(n)
  /\ todo' = todo - n
  /\ written' = [p \in Positions |->
                   IF p \in filePos .. filePos + n - 1 THEN calls ELSE written[p]]
  /\ UNCHANGED <<singularVars, bufferPos, buffer, queueVars, taskVars, file,
                 errorVars, target, calls>>

InBuffer(offset) == offset \in bufferPos .. bufferPos + size[buffer]

\* Align is a Seek too.
Seek(offset) ==
  /\ pc = "Out"
  /\ calls < MaxOps
  /\ calls' = calls + 1
  /\ IF InBuffer(offset)
     THEN filePos' = offset /\ UNCHANGED <<pc, target>>
     ELSE target' = offset /\ pc' = "Flush" /\ UNCHANGED filePos
  /\ UNCHANGED <<singularVars, bufferPos, buffer, bytes, size, queueVars, taskVars,
                 file, errorVars, todo, written>>

\* Flush, the last call of the saver.
Finish ==
  /\ Goto("Out", "Flush")
  /\ target' = End
  /\ UNCHANGED <<singularVars, posVars, bytes, size, queueVars, taskVars, file,
                 errorVars, todo, calls, written>>

\* _FlushBuffer: _QueueWrite pushes the buffer and wakes the task, ...
QueueWrite ==
  /\ Goto("Flush", "Wake")
  /\ size[buffer] # 0
  /\ writeQueue' = Append(writeQueue, [buf |-> buffer, pos |-> bufferPos])
  /\ buffer' = None
  /\ UNCHANGED <<singularVars, filePos, bufferPos, bytes, size, freeBuffers, taskVars,
                 file, errorVars, todo, target, calls, written>>

WakeTask ==
  /\ pc = "Wake"
  /\ IF wpc[Saver] = "Out" THEN Wake(Saver) ELSE Run(Saver)
  /\ pc' = IF wpc'[Saver] = "Out" THEN "Pop" ELSE "Wake"
  /\ UNCHANGED <<posVars, bytes, size, queueVars, taskVars, file, errorVars, todo,
                 target, calls, written>>

\* ... then a free buffer is taken, or waited for, ...
TakeBuffer ==
  /\ Goto("Pop", IF freeBuffers = <<>> THEN "Wait" ELSE "Reset")
  /\ IF freeBuffers = <<>>
     THEN UNCHANGED <<buffer, freeBuffers>>
     ELSE buffer' = Head(freeBuffers) /\ freeBuffers' = Tail(freeBuffers)
  /\ UNCHANGED <<singularVars, filePos, bufferPos, bytes, size, writeQueue, taskVars,
                 file, errorVars, todo, target, calls, written>>

\* ... and starts where the saver is.  Write goes on, Seek and Flush end.
Reset ==
  /\ \/ pc = "Reset"
     \/ pc = "Flush" /\ size[buffer] = 0
  /\ filePos' = IF target \in Positions THEN target ELSE filePos
  /\ bufferPos' = filePos'
  /\ target' = IF target = End THEN target ELSE None
  /\ pc' = IF target = End THEN "Wait" ELSE IF todo > 0 THEN "Write" ELSE "Out"
  /\ UNCHANGED <<singularVars, buffer, bytes, size, queueVars, taskVars, file,
                 errorVars, todo, calls, written>>

NoTasks == queued = 0 /\ \A r \in Runners : rpc[r] = "Idle"

\* WorkDispatcher::Wait: there are no tasks left; their errors are posted.
WaitReturns ==
  /\ Goto("Wait", IF buffer = None THEN "Pop" ELSE "Done")
  /\ NoTasks
  /\ posted' = (posted \/ errors)
  /\ errors' = FALSE
  /\ UNCHANGED <<singularVars, posVars, bytes, size, queueVars, taskVars, file,
                 failed, failures, todo, target, calls, written>>

-----------------------------------------------------------------------------
(* The writer task: _DoWrites is the function of the singular task.        *)

\* Only a thread that waits for the dispatcher runs tasks of it.
StartTask(r) ==
  /\ r = Saver => pc = "Wait"
  /\ Start(r)
  /\ UNCHANGED <<posVars, bytes, size, queueVars, taskVars, file, errorVars, saverVars>>

LoadCount(r) ==
  /\ Load(r)
  /\ UNCHANGED <<posVars, bytes, size, queueVars, taskVars, file, errorVars, saverVars>>

BeginWrites(r) ==
  /\ Begin(r)
  /\ UNCHANGED <<posVars, bytes, size, queueVars, taskVars, file, errorVars, saverVars>>

SGoto(r, from, to) == /\ rpc[r] = "In" /\ stage[r] = from
                      /\ stage' = [stage EXCEPT ![r] = to]

PopOp(r) ==
  /\ SGoto(r, "Pop", "Write")
  /\ writeQueue # <<>>
  /\ op' = [op EXCEPT ![r] = Head(writeQueue)]
  /\ writeQueue' = Tail(writeQueue)
  /\ UNCHANGED <<singularVars, posVars, bytes, size, freeBuffers, file, errorVars,
                 saverVars>>

\* The asset takes the first n bytes of the buffer.
Store(r, n) ==
  LET b == op[r].buf first == op[r].pos IN
  file' = [p \in Positions |->
             IF p \in first .. first + n - 1 THEN bytes[b][p - first] ELSE file[p]]

WriteOp(r) ==
  /\ SGoto(r, "Write", "Free")
  /\ Store(r, size[op[r].buf])
  /\ UNCHANGED <<singularVars, posVars, bytes, size, queueVars, op, errorVars, saverVars>>

\* A short write is an error in the task's error mark; the writes go on.
WriteOpShort(r) ==
  /\ SGoto(r, "Write", "Free")
  /\ failures < MaxFailures
  /\ failures' = failures + 1
  /\ \E n \in 0 .. size[op[r].buf] - 1 : Store(r, n)
  /\ failed' = [failed EXCEPT ![r] = TRUE]
  /\ UNCHANGED <<singularVars, posVars, bytes, size, queueVars, op, errors, posted,
                 saverVars>>

\* As a bug would have it: the size of the buffer is kept.
FreeBufferKeepSize(r) ==
  /\ SGoto(r, "Free", "Pop")
  /\ freeBuffers' = Append(freeBuffers, op[r].buf)
  /\ op' = [op EXCEPT ![r] = None]
  /\ UNCHANGED <<singularVars, posVars, bytes, size, writeQueue, file, errorVars,
                 saverVars>>

\* As a bug would have it: the buffer of a failed write is dropped.
FreeBufferUnlessFailed(r) ==
  /\ SGoto(r, "Free", "Pop")
  /\ size' = [size EXCEPT ![op[r].buf] = 0]
  /\ freeBuffers' = IF failed[r] THEN freeBuffers ELSE Append(freeBuffers, op[r].buf)
  /\ op' = [op EXCEPT ![r] = None]
  /\ UNCHANGED <<singularVars, posVars, bytes, writeQueue, file, errorVars, saverVars>>

FreeBuffer(r) ==
  /\ SGoto(r, "Free", "Pop")
  /\ size' = [size EXCEPT ![op[r].buf] = 0]
  /\ freeBuffers' = Append(freeBuffers, op[r].buf)
  /\ op' = [op EXCEPT ![r] = None]
  /\ UNCHANGED <<singularVars, posVars, bytes, writeQueue, file, errorVars, saverVars>>

EndWrites(r) ==
  /\ stage[r] = "Pop" /\ writeQueue = <<>>
  /\ Return(r)
  /\ UNCHANGED <<posVars, bytes, size, queueVars, taskVars, file, errorVars, saverVars>>

\* The task goes again or ends; as it ends its errors go to the dispatcher.
EndTask(r) ==
  /\ Exchange(r)
  /\ errors' = (errors \/ (rpc'[r] = "Idle" /\ failed[r]))
  /\ failed' = [failed EXCEPT ![r] = rpc'[r] # "Idle" /\ @]
  /\ UNCHANGED <<posVars, bytes, size, queueVars, taskVars, file, posted, failures,
                 saverVars>>

-----------------------------------------------------------------------------
Call == (\E n \in 1 .. FileSize : Write(n)) \/ (\E o \in Positions : Seek(o))
Proceed == \/ Fill \/ QueueWrite \/ WakeTask \/ TakeBuffer \/ Reset \/ WaitReturns
Task(r) == \/ LoadCount(r) \/ BeginWrites(r) \/ PopOp(r) \/ WriteOp(r)
           \/ WriteOpShort(r) \/ FreeBuffer(r) \/ EndWrites(r) \/ EndTask(r)

Next == \/ Call \/ Finish \/ Proceed
        \/ \E r \in Runners : StartTask(r) \/ Task(r)

\* The saver proceeds and takes up the task while it waits, and a task that has
\* been started runs.  Workers need not start any: the concurrency may be 1.
Fairness == /\ WF_vars(Proceed)
            /\ WF_vars(StartTask(Saver))
            /\ \A r \in Runners : WF_vars(Task(r))

Spec == Init /\ [][Next]_vars
FairSpec == Spec /\ Fairness

-----------------------------------------------------------------------------
(* Properties.                                                             *)

Writing == {op[r] : r \in Runners} \ {None}
Pending == ToSet(writeQueue) \cup Writing

\* The types; and every buffer is in one place: the saver's, free, queued or
\* with the thread that writes it.  Free buffers are empty.
TypeOK ==
  /\ SingularTypeOK
  /\ filePos \in 0 .. FileSize /\ bufferPos \in 0 .. FileSize
  /\ buffer \in Buffers \cup {None}
  /\ bytes \in [Buffers -> [Offsets -> Stamps \cup {None}]]
  /\ size \in [Buffers -> 0 .. BufferCap]
  /\ freeBuffers \in Seq(Buffers)
  /\ Pending \subseteq [buf : Buffers, pos : 0 .. FileSize]
  /\ stage \in [Runners -> {"Pop", "Write", "Free"}]
  /\ {file, written} \subseteq [Positions -> Stamps \cup {None}]
  /\ failed \in [Runners -> BOOLEAN] /\ {errors, posted} \subseteq BOOLEAN
  /\ pc \in {"Out", "Write", "Flush", "Wake", "Pop", "Wait", "Reset", "Done"}
  /\ target \in Positions \cup {None, End}
  /\ Buffers = ToSet(freeBuffers) \cup {o.buf : o \in Pending} \cup ({buffer} \ {None})
  /\ NumBuffers = Len(freeBuffers) + Len(writeQueue) + Cardinality(Writing)
                  + (IF buffer = None THEN 0 ELSE 1)
  /\ \A b \in ToSet(freeBuffers) : size[b] = 0

\* When Flush returns the file holds what the saver wrote, the last write at
\* each position, though a thread wrote it buffer by buffer while the saver
\* went on and waited for buffers; otherwise an error has been posted.
FileIsWritten == pc = "Done" => file = written \/ posted

\* A call of the saver returns, with any number of threads to help: it never
\* waits for a buffer that no task gives back.
SaveReturns == pc # "Out" ~> pc \in {"Out", "Done"}
=============================================================================
