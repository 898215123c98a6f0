--------------------- MODULE CrateBufferedOutput_proofs ---------------------
(***************************************************************************)
(* The writer task of CrateFile::_BufferedOutput is a singular task.       *)
(***************************************************************************)
EXTENDS CrateBufferedOutput, WorkSingularTask_proofs, FiniteSetTheorems

LEMMA SaverIsWaker == Saver \in Wakers
  BY OutputAssumption

LEMMA StepIsSingular == [Next]_vars => [SingularNext]_singularVars
<1> SUFFICES ASSUME [Next]_vars PROVE [SingularNext]_singularVars
  OBVIOUS
<1>1. CASE Call
  BY <1>1 DEF Call, Write, Seek
<1>2. CASE Finish
  BY <1>2 DEF Finish
<1>3. CASE Proceed
  <2>1. CASE WakeTask
    BY <2>1, SaverIsWaker DEF WakeTask, SingularNext
  <2>2. CASE Fill \/ QueueWrite \/ TakeBuffer \/ Reset \/ WaitReturns
    BY <2>2 DEF Fill, QueueWrite, TakeBuffer, Reset, WaitReturns
  <2> QED BY <1>3, <2>1, <2>2 DEF Proceed
<1>4. ASSUME NEW r \in Runners, StartTask(r) \/ Task(r)
      PROVE  [SingularNext]_singularVars
  <2>1. CASE StartTask(r) \/ LoadCount(r) \/ BeginWrites(r) \/ EndWrites(r) \/ EndTask(r)
    BY <2>1 DEF StartTask, LoadCount, BeginWrites, EndWrites, EndTask, SingularNext
  <2>2. CASE PopOp(r) \/ WriteOp(r) \/ WriteOpShort(r) \/ FreeBuffer(r)
    BY <2>2 DEF PopOp, WriteOp, WriteOpShort, FreeBuffer
  <2> QED BY <1>4, <2>1, <2>2 DEF Task
<1>5. CASE UNCHANGED vars
  BY <1>5 DEF vars
<1> QED BY <1>1, <1>2, <1>3, <1>4, <1>5 DEF Next

\* The saver and the threads that run _DoWrites use the task as its
\* specification has it.
THEOREM WriterIsSingular == Spec => SingularSpec
<1>1. Init => SingularInit
  BY DEF Init
<1> QED BY <1>1, StepIsSingular, PTL DEF Spec, SingularSpec

\* Never two threads in _DoWrites, and no buffer is queued that no thread is
\* going to look for.
THEOREM OneWriter == Spec => [](NotConcurrent /\ NoLostWake)
  BY SingularTask, WriterIsSingular, PTL
-----------------------------------------------------------------------------
(***************************************************************************)
(* The inductive invariant of the buffers.                                 *)
(***************************************************************************)

Ops == [buf : Buffers, pos : 0 .. FileSize]
Bytes == Stamps \cup {None}

Types ==
  /\ filePos \in Nat /\ bufferPos \in Nat /\ todo \in Nat /\ calls \in Nat
  /\ buffer \in Buffers \cup {None}
  /\ bytes \in [Buffers -> [Offsets -> Bytes]]
  /\ size \in [Buffers -> 0 .. BufferCap]
  /\ freeBuffers \in Seq(Buffers) /\ writeQueue \in Seq(Ops)
  /\ op \in [Runners -> Ops \cup {None}]
  /\ stage \in [Runners -> {"Pop", "Write", "Free"}]
  /\ file \in [Positions -> Bytes] /\ written \in [Positions -> Bytes]
  /\ failed \in [Runners -> BOOLEAN] /\ errors \in BOOLEAN /\ posted \in BOOLEAN
  /\ pc \in {"Out", "Write", "Flush", "Wake", "Pop", "Wait", "Reset", "Done"}
  /\ target \in Positions \cup {None, End}

\* The saver has a buffer but while it flushes one; it is in the part of it that
\* it has written, and there is room left while it may write more.
SaverOK ==
  /\ pc \in {"Wake", "Pop"} => buffer = None
  /\ pc \in {"Out", "Write", "Flush", "Reset", "Done"} => buffer # None
  /\ pc = "Wait" /\ buffer # None => target = End
  /\ pc \in {"Out", "Write"} => target = None
  /\ pc \in {"Reset", "Done"} \/ (pc = "Wait" /\ buffer # None) => size[buffer] = 0
  /\ pc \in {"Out", "Write"} => size[buffer] < BufferCap
  /\ pc \in {"Out", "Write", "Flush"} => filePos \in bufferPos .. bufferPos + size[buffer]
  /\ pc = "Write" => todo > 0
  /\ pc = "Out" \/ target # None => todo = 0
  /\ todo > 0 => calls \in Stamps
  /\ filePos + todo <= FileSize /\ bufferPos <= FileSize
  /\ wpc[Saver] = "Run" => pc = "Wake"

\* A thread has an op only inside _DoWrites, from PopOp to FreeBuffer.
RunnersOK ==
  \A r \in Runners : /\ op[r] = None <=> stage[r] = "Pop"
                     /\ stage[r] # "Pop" => rpc[r] = "In"
                     /\ failed[r] => rpc[r] # "Idle"

\* Every buffer is in one place.
Apart ==
  LET Free == 1 .. Len(freeBuffers) Queue == 1 .. Len(writeQueue) IN
  /\ \A i, j \in Free : freeBuffers[i] = freeBuffers[j] => i = j
  /\ \A i, j \in Queue : writeQueue[i].buf = writeQueue[j].buf => i = j
  /\ \A i \in Free, j \in Queue : freeBuffers[i] # writeQueue[j].buf
  /\ \A i \in Free : freeBuffers[i] # buffer /\ size[freeBuffers[i]] = 0
  /\ \A j \in Queue : writeQueue[j].buf # buffer
  /\ \A r \in Runners : op[r] # None =>
       /\ op[r].buf # buffer
       /\ \A i \in Free : freeBuffers[i] # op[r].buf
       /\ \A j \in Queue : writeQueue[j].buf # op[r].buf

\* And in some place.
Held(b) == \/ b = buffer
           \/ \E i \in 1 .. Len(freeBuffers) : freeBuffers[i] = b
           \/ \E j \in 1 .. Len(writeQueue) : writeQueue[j].buf = b
           \/ \E r \in Runners : op[r] # None /\ op[r].buf = b
Complete == \A b \in Buffers : Held(b)

NumberOK == NumBuffers = Len(freeBuffers) + Len(writeQueue) + Cardinality(Writing)
                        + (IF buffer = None THEN 0 ELSE 1)

\* A buffer in the queue is looked for; the dispatcher that has no task for the
\* saver to wait for has none that is still to be written.
Looked == writeQueue # <<>> => \/ due
                               \/ pc = "Wake" /\ wpc[Saver] = "Out"
                               \/ \E r \in Runners : rpc[r] = "In"

DoneOK == pc = "Done" => NoTasks /\ writeQueue = <<>> /\ ~errors

\* What the file will hold at a position is in the buffer of the saver, or else in
\* the last buffer of the queue that covers it, or else in the one that is being
\* written, or else already in the file.
InBufferOfSaver(p) == buffer # None /\ p - bufferPos \in 0 .. size[buffer] - 1
Covers(o, p) == p - o.pos \in 0 .. size[o.buf] - 1
Covered(p, i) == \E j \in 1 .. Len(writeQueue) : j > i /\ Covers(writeQueue[j], p)
ByteAt(o, p) == bytes[o.buf][p - o.pos]

Trouble == posted \/ errors \/ \E r \in Runners : failed[r]

SaverHolds(p) == InBufferOfSaver(p) => bytes[buffer][p - bufferPos] = written[p]
QueueHolds(p) ==
  \A i \in 1 .. Len(writeQueue) :
    ~InBufferOfSaver(p) /\ Covers(writeQueue[i], p) /\ ~Covered(p, i) =>
      ByteAt(writeQueue[i], p) = written[p]
TaskHolds(p) ==
  \A r \in Runners :
    /\ ~InBufferOfSaver(p) /\ ~Covered(p, 0)
    /\ stage[r] = "Write" /\ Covers(op[r], p)
    => ByteAt(op[r], p) = written[p]
FileHolds(p) ==
  /\ ~InBufferOfSaver(p) /\ ~Covered(p, 0)
  /\ \A r \in Runners : stage[r] = "Write" => ~Covers(op[r], p)
  => file[p] = written[p]

Content == Trouble \/ \A p \in Positions : /\ SaverHolds(p) /\ QueueHolds(p)
                                           /\ TaskHolds(p) /\ FileHolds(p)

OInv == /\ Types /\ SaverOK /\ RunnersOK /\ Apart /\ Complete /\ NumberOK
        /\ Looked /\ DoneOK /\ Content

-----------------------------------------------------------------------------
(* What most steps leave alone.                                            *)

LEMMA BuffersStay ==
  ASSUME OInv, UNCHANGED <<buffer, size, freeBuffers, writeQueue, op>>
  PROVE  Apart' /\ Complete' /\ NumberOK'
<1>1. Apart'  BY DEF OInv, Apart
<1>2. Complete'  BY DEF OInv, Complete, Held
<1>3. Writing' = Writing  BY DEF Writing
<1> QED  BY <1>1, <1>2, <1>3 DEF OInv, NumberOK

LEMMA ContentStays ==
  ASSUME OInv, UNCHANGED <<bufferPos, buffer, bytes, size, writeQueue, op, stage,
                           file, written>>,
         Trouble => Trouble'
  PROVE  Content'
<1>1. CASE Trouble  BY <1>1 DEF Content
<1>2. CASE ~Trouble
  <2> SUFFICES ASSUME NEW p \in Positions
               PROVE  (SaverHolds(p) /\ QueueHolds(p) /\ TaskHolds(p) /\ FileHolds(p))'
    BY DEF Content
  <2>1. SaverHolds(p) /\ QueueHolds(p) /\ TaskHolds(p) /\ FileHolds(p)
    BY <1>2 DEF OInv, Content
  <2>2. InBufferOfSaver(p)' = InBufferOfSaver(p)  BY DEF InBufferOfSaver
  <2>3. \A i : Covered(p, i)' = Covered(p, i)  BY DEF Covered, Covers
  <2>4. SaverHolds(p)'  BY <2>1, <2>2 DEF SaverHolds
  <2>5. QueueHolds(p)'  BY <2>1, <2>2, <2>3 DEF QueueHolds, Covers, ByteAt
  <2>6. TaskHolds(p)'  BY <2>1, <2>2, <2>3 DEF TaskHolds, Covers, ByteAt
  <2>7. FileHolds(p)'  BY <2>1, <2>2, <2>3 DEF FileHolds, Covers, ByteAt
  <2> QED  BY <2>4, <2>5, <2>6, <2>7
<1> QED  BY <1>1, <1>2

LEMMA MinOfTwo ==
  ASSUME NEW a \in Int, NEW b \in Int
  PROVE  Min({a, b}) \in {a, b} /\ \A y \in {a, b} : Min({a, b}) <= y
<1>1. \E x \in {a, b} : \A y \in {a, b} : x <= y
  <2>1. CASE a <= b  BY <2>1
  <2>2. CASE ~(a <= b)  BY <2>2
  <2> QED  BY <2>1, <2>2
<1> QED  BY <1>1 DEF Min

\* No op is in two threads' hands, because _DoWrites is not run twice at once.
LEMMA OneInside ==
  ASSUME SInv, OInv, NEW r \in Runners, rpc[r] = "In"
  PROVE  /\ \A s \in Runners : s # r => rpc[s] = "Idle" /\ stage[s] = "Pop" /\ op[s] = None
         /\ queued = 0 /\ \A w \in Wakers : wpc[w] = "Out"
<1>1. Taken(r)  BY DEF Taken
<1>2. /\ queued = 0 /\ \A w \in Wakers : wpc[w] = "Out"
      /\ \A s \in Runners : s # r => rpc[s] = "Idle"
  BY <1>1, OnlyTaker
<1> QED  BY <1>2 DEF OInv, RunnersOK

-----------------------------------------------------------------------------
(* The saver.                                                              *)

LEMMA WritingIsFinite ==
  ASSUME SInv, OInv
  PROVE  /\ Cardinality(Writing) \in Nat
         /\ (\A r \in Runners : rpc[r] # "In") => Cardinality(Writing) = 0
         /\ \A r \in Runners : rpc[r] = "In" => 
              Cardinality(Writing) = IF op[r] = None THEN 0 ELSE 1
<1>1. CASE \A r \in Runners : rpc[r] # "In"
  <2>1. Writing = {}  BY <1>1 DEF Writing, OInv, RunnersOK
  <2> QED  BY <1>1, <2>1, FS_EmptySet
<1>2. ASSUME NEW r \in Runners, rpc[r] = "In"
      PROVE  Cardinality(Writing) = IF op[r] = None THEN 0 ELSE 1
  <2>1. Writing = IF op[r] = None THEN {} ELSE {op[r]}
    BY <1>2, OneInside DEF Writing
  <2> QED  BY <2>1, FS_EmptySet, FS_Singleton
<1> QED  BY <1>1, <1>2

LEMMA Sentinels ==
  /\ None \notin Buffers /\ None \notin Positions /\ None \notin Ops
  /\ End \notin Positions /\ None # End
<1>1. None \notin Nat /\ End \notin Nat /\ None # End /\ FileSize \in Nat /\ NumBuffers \in Nat
  BY OutputAssumption
<1>2. Ops \subseteq [buf : Nat, pos : Nat] /\ None \notin [buf : Nat, pos : Nat]
  BY <1>1, OutputAssumption DEF Ops, Buffers
<1> QED  BY <1>1, <1>2 DEF Buffers, Positions

LEMMA InitInv == ASSUME Init PROVE OInv
<1> USE DEF Init
<1>1. 0 \in Nat /\ 1 \in Buffers /\ NumBuffers >= 2 /\ BufferCap >= 1 /\ FileSize \in Nat
  BY OutputAssumption DEF Buffers
<1>2. None \notin Buffers /\ None \notin Positions /\ None # End
  BY OutputAssumption DEF Buffers, Positions
<1>3. /\ Len(freeBuffers) = NumBuffers - 1
      /\ \A i \in 1 .. Len(freeBuffers) : freeBuffers[i] = i + 1
      /\ freeBuffers \in Seq(Buffers)
  BY OutputAssumption DEF Buffers
<1>4. Types
  <2>1. errors \in BOOLEAN /\ posted \in BOOLEAN /\ failed \in [Runners -> BOOLEAN]
    OBVIOUS
  <2>2. bytes \in [Buffers -> [Offsets -> Bytes]] /\ file \in [Positions -> Bytes]
        /\ written \in [Positions -> Bytes]
    BY DEF Bytes
  <2>3. writeQueue \in Seq(Ops) /\ op \in [Runners -> Ops \cup {None}]
        /\ stage \in [Runners -> {"Pop", "Write", "Free"}]
        /\ size \in [Buffers -> 0 .. BufferCap]
    BY <1>1, OutputAssumption
  <2>4. filePos \in Nat /\ bufferPos \in Nat /\ todo \in Nat /\ calls \in Nat
        /\ buffer \in Buffers /\ pc = "Out" /\ target = None
    BY <1>1
  <2> QED  BY <1>3, <2>1, <2>2, <2>3, <2>4 DEF Types
<1>5. SaverOK
  BY <1>1, <1>2, <1>4, OutputAssumption, SaverIsWaker DEF SaverOK, Types, SingularInit
<1>6. RunnersOK  BY DEF RunnersOK
<1>7. Len(writeQueue) = 0  OBVIOUS
<1>8. Apart  BY <1>3, <1>7, OutputAssumption DEF Apart, Buffers
<1>9. Complete
  <2> SUFFICES ASSUME NEW b \in Buffers PROVE Held(b)  BY DEF Complete
  <2>1. b = 1 \/ (b - 1 \in 1 .. Len(freeBuffers) /\ freeBuffers[b - 1] = b)
    BY <1>3, OutputAssumption DEF Buffers
  <2> QED  BY <2>1 DEF Held
<1>10. NumberOK
  <2>1. Writing = {}  BY DEF Writing
  <2>2. Cardinality(Writing) = 0  BY <2>1, FS_EmptySet
  <2> QED  BY <1>1, <1>2, <1>3, <1>7, <2>2, OutputAssumption DEF NumberOK
<1>11. Looked /\ DoneOK  BY DEF Looked, DoneOK
<1>12. Content
  <2> SUFFICES ASSUME NEW p \in Positions
               PROVE  SaverHolds(p) /\ QueueHolds(p) /\ TaskHolds(p) /\ FileHolds(p)
    BY DEF Content
  <2>1. size[1] = 0  BY <1>1
  <2>2. ~InBufferOfSaver(p)  BY <2>1 DEF InBufferOfSaver, Positions
  <2> QED  BY <1>7, <2>2 DEF SaverHolds, QueueHolds, TaskHolds, FileHolds
<1> QED  BY <1>4, <1>5, <1>6, <1>8, <1>9, <1>10, <1>11, <1>12 DEF OInv

LEMMA WriteInv == ASSUME SInv, OInv, NEW n \in 1 .. FileSize, Write(n) PROVE OInv'
<1> USE DEF Write, Goto
<1>1. Types'  BY DEF OInv, Types, posVars, queueVars, taskVars, errorVars
<1>2. SaverOK'
  BY OutputAssumption DEF OInv, Types, SaverOK, Stamps, singularVars, posVars
<1>3. RunnersOK'  BY DEF OInv, RunnersOK, singularVars, taskVars, errorVars
<1>4. Apart' /\ Complete' /\ NumberOK'  BY BuffersStay DEF posVars, queueVars, taskVars
<1>5. Looked' /\ DoneOK'  BY DEF OInv, Looked, DoneOK, singularVars, queueVars
<1>6. Trouble => Trouble'  BY DEF Trouble, errorVars
<1>7. Content'  BY <1>6, ContentStays DEF posVars, queueVars, taskVars
<1> QED  BY <1>1, <1>2, <1>3, <1>4, <1>5, <1>7 DEF OInv

LEMMA SeekInv == ASSUME SInv, OInv, NEW offset \in Positions, Seek(offset) PROVE OInv'
<1> USE DEF Seek
<1>1. Types'  BY DEF OInv, Types, Positions, posVars, queueVars, taskVars, errorVars
<1>2. SaverOK'
  BY OutputAssumption
  DEF OInv, Types, SaverOK, InBuffer, Positions, singularVars, posVars
<1>3. RunnersOK'  BY DEF OInv, RunnersOK, singularVars, taskVars, errorVars
<1>4. Apart' /\ Complete' /\ NumberOK'  BY BuffersStay DEF posVars, queueVars, taskVars
<1>5. Looked' /\ DoneOK'  BY DEF OInv, Looked, DoneOK, singularVars, queueVars
<1>6. Trouble => Trouble'  BY DEF Trouble, errorVars
<1>7. Content'  BY <1>6, ContentStays DEF posVars, queueVars, taskVars
<1> QED  BY <1>1, <1>2, <1>3, <1>4, <1>5, <1>7 DEF OInv

LEMMA FinishInv == ASSUME SInv, OInv, Finish PROVE OInv'
<1> USE DEF Finish, Goto
<1>1. Types'  BY DEF OInv, Types, posVars, queueVars, taskVars, errorVars
<1>2. SaverOK'
  BY OutputAssumption DEF OInv, Types, SaverOK, singularVars, posVars
<1>3. RunnersOK'  BY DEF OInv, RunnersOK, singularVars, taskVars, errorVars
<1>4. Apart' /\ Complete' /\ NumberOK'  BY BuffersStay DEF posVars, queueVars, taskVars
<1>5. Looked' /\ DoneOK'  BY DEF OInv, Looked, DoneOK, singularVars, queueVars
<1>6. Trouble => Trouble'  BY DEF Trouble, errorVars
<1>7. Content'  BY <1>6, ContentStays DEF posVars, queueVars, taskVars
<1> QED  BY <1>1, <1>2, <1>3, <1>4, <1>5, <1>7 DEF OInv

\* What is written goes to the buffer and into history at the same places.
LEMMA FillInv == ASSUME SInv, OInv, Fill PROVE OInv'
<1> USE DEF Goto
<1> DEFINE n == Min({Available, todo})
           start == filePos - bufferPos
<1>1. /\ pc = "Write" /\ buffer \in Buffers /\ todo \in Nat \ {0} /\ target = None
      /\ filePos \in Nat /\ bufferPos \in Nat /\ bytes \in [Buffers -> [Offsets -> Bytes]]
      /\ size \in [Buffers -> 0 .. BufferCap] /\ calls \in Stamps
      /\ size[buffer] < BufferCap /\ start \in 0 .. size[buffer]
      /\ filePos + todo <= FileSize /\ bufferPos <= FileSize
      /\ written \in [Positions -> Bytes] /\ BufferCap \in Nat /\ FileSize \in Nat
  BY OutputAssumption DEF Fill, OInv, Types, SaverOK
<1>2. n \in Nat \ {0} /\ n <= Available /\ n <= todo /\ (n = Available \/ n = todo)
      /\ Available = BufferCap - start
  <2>1. Available \in Nat \ {0} /\ Available = BufferCap - start  BY <1>1 DEF Available
  <2>2. n \in {Available, todo} /\ \A y \in {Available, todo} : n <= y
    <3>1. Available \in Int /\ todo \in Int  BY <1>1, <2>1
    <3> QED  BY <3>1, MinOfTwo, Zenon
  <2> QED  BY <1>1, <2>1, <2>2
<1> DEFINE upTo == IF start + n > size[buffer] THEN start + n ELSE size[buffer]
           put == [o \in Offsets |-> IF o \in start .. start + n - 1 THEN calls
                                     ELSE bytes[buffer][o]]
<1>3. /\ pc' = IF n = Available THEN "Flush" ELSE "Out"
      /\ bytes' = [bytes EXCEPT ![buffer] = put]
      /\ size' = [size EXCEPT ![buffer] = upTo]
      /\ filePos' = filePos + n /\ todo' = todo - n
      /\ written' = [p \in Positions |-> IF p \in filePos .. filePos + n - 1 THEN calls
                                         ELSE written[p]]
      /\ UNCHANGED <<singularVars, bufferPos, buffer, queueVars, taskVars, file,
                     errorVars, target, calls>>
  BY DEF Fill, WriteToBuffer
<1> HIDE DEF n
<1>4. upTo \in 0 .. BufferCap /\ start + n <= upTo /\ size[buffer] <= upTo
      /\ (upTo = size[buffer] \/ upTo = start + n)
  BY <1>1, <1>2
<1>5. put \in [Offsets -> Bytes]
  BY <1>1 DEF Bytes
<1>6. Types'
  <2>1. bytes' \in [Buffers -> [Offsets -> Bytes]]  BY <1>1, <1>3, <1>5
  <2>2. size' \in [Buffers -> 0 .. BufferCap]  BY <1>1, <1>3, <1>4
  <2>3. written' \in [Positions -> Bytes]  BY <1>1, <1>3 DEF Bytes
  <2>4. filePos' \in Nat /\ todo' \in Nat /\ pc' \in {"Flush", "Out"}
    BY <1>1, <1>2, <1>3
  <2> QED  BY <1>3, <2>1, <2>2, <2>3, <2>4 DEF OInv, Types, queueVars, taskVars, errorVars
<1>7. SaverOK'
  <2>1. size'[buffer'] = upTo /\ buffer' = buffer /\ bufferPos' = bufferPos
    BY <1>1, <1>3
  <2>2. filePos' \in bufferPos' .. bufferPos' + size'[buffer']
    BY <1>1, <1>2, <1>3, <1>4, <2>1
  <2>3. pc' = "Out" => n = todo /\ todo' = 0 /\ size'[buffer'] < BufferCap
    BY <1>1, <1>2, <1>3, <1>4, <2>1
  <2>4. filePos' + todo' <= FileSize
    BY <1>1, <1>2, <1>3
  <2>5. wpc'[Saver] = "Run" => FALSE
    BY <1>1, <1>3 DEF OInv, SaverOK, singularVars
  <2> QED  BY <1>1, <1>3, <2>1, <2>2, <2>3, <2>4, <2>5, OutputAssumption DEF SaverOK, Types, OInv
<1>8. RunnersOK'  BY <1>3 DEF OInv, RunnersOK, singularVars, taskVars, errorVars
<1>9. Apart'
  BY <1>1, <1>3 DEF OInv, Types, Apart, queueVars, taskVars
<1>10. Complete'  BY <1>3 DEF OInv, Complete, Held, queueVars, taskVars
<1>11. NumberOK'
  <2>1. Writing' = Writing  BY <1>3 DEF Writing, taskVars
  <2> QED  BY <1>3, <2>1 DEF OInv, NumberOK, queueVars
<1>12. Looked' /\ DoneOK'
  BY <1>1, <1>3 DEF OInv, Looked, DoneOK, singularVars, queueVars
<1>13. Content'
  <2>1. CASE Trouble  BY <1>3, <2>1 DEF Content, Trouble, errorVars
  <2>2. CASE ~Trouble
    <3> SUFFICES ASSUME NEW p \in Positions
                 PROVE  (SaverHolds(p) /\ QueueHolds(p) /\ TaskHolds(p) /\ FileHolds(p))'
      BY DEF Content
    <3>1. SaverHolds(p) /\ QueueHolds(p) /\ TaskHolds(p) /\ FileHolds(p)
      BY <2>2 DEF OInv, Content
    <3>2. p \in Nat /\ buffer # None
      BY <1>1, Sentinels DEF Positions
    <3>3. InBufferOfSaver(p)' <=> InBufferOfSaver(p) \/ p \in filePos .. filePos + n - 1
      BY <1>1, <1>2, <1>3, <1>4, <3>2 DEF InBufferOfSaver
    <3>4. SaverHolds(p)'
      <4> SUFFICES ASSUME InBufferOfSaver(p)' PROVE bytes'[buffer][p - bufferPos] = written'[p]
        BY <1>3 DEF SaverHolds
      <4>1. p - bufferPos \in Offsets
        BY <1>1, <1>3, <1>4, <3>2 DEF InBufferOfSaver, Offsets
      <4>2. bytes'[buffer][p - bufferPos] = IF p \in filePos .. filePos + n - 1 THEN calls
                                            ELSE bytes[buffer][p - bufferPos]
        BY <1>1, <1>2, <1>3, <3>2, <4>1
      <4>3. CASE p \in filePos .. filePos + n - 1
        BY <1>3, <4>2, <4>3
      <4>4. CASE p \notin filePos .. filePos + n - 1
        BY <1>3, <3>1, <3>3, <4>2, <4>4 DEF SaverHolds
      <4> QED  BY <4>3, <4>4
    <3>5. ~InBufferOfSaver(p)' => ~InBufferOfSaver(p) /\ written'[p] = written[p]
      BY <1>3, <3>3
    <3>6. \A j \in 1 .. Len(writeQueue) : /\ Covers(writeQueue[j], p)' = Covers(writeQueue[j], p)
                                          /\ ByteAt(writeQueue[j], p)' = ByteAt(writeQueue[j], p)
      BY <1>1, <1>3 DEF OInv, Types, Apart, Ops, Covers, ByteAt, queueVars
    <3>7. \A i : Covered(p, i)' = Covered(p, i)
      BY <1>3, <3>6 DEF Covered, queueVars
    <3>8. \A r \in Runners : stage[r] = "Write" => /\ Covers(op[r], p)' = Covers(op[r], p)
                                                   /\ ByteAt(op[r], p)' = ByteAt(op[r], p)
      BY <1>1, <1>3 DEF OInv, Types, RunnersOK, Apart, Ops, Covers, ByteAt, taskVars
    <3>9. QueueHolds(p)'
      BY <1>3, <3>1, <3>5, <3>6, <3>7 DEF QueueHolds, queueVars
    <3>10. TaskHolds(p)'
      BY <1>3, <3>1, <3>5, <3>7, <3>8 DEF TaskHolds, taskVars
    <3>11. FileHolds(p)'
      BY <1>3, <3>1, <3>5, <3>7, <3>8 DEF FileHolds, taskVars
    <3> QED  BY <3>4, <3>9, <3>10, <3>11
  <2> QED  BY <2>1, <2>2
<1> QED  BY <1>6, <1>7, <1>8, <1>9, <1>10, <1>11, <1>12, <1>13 DEF OInv

\* The buffer goes to the end of the queue with what it holds.
LEMMA QueueWriteInv == ASSUME SInv, OInv, QueueWrite PROVE OInv'
<1> USE DEF QueueWrite, Goto
<1> DEFINE new == [buf |-> buffer, pos |-> bufferPos]
           last == Len(writeQueue) + 1
<1>1. /\ pc = "Flush" /\ pc' = "Wake" /\ buffer \in Buffers /\ new \in Ops
      /\ bufferPos \in Nat /\ writeQueue \in Seq(Ops) /\ BufferCap \in Nat
      /\ size \in [Buffers -> 0 .. BufferCap] /\ bytes \in [Buffers -> [Offsets -> Bytes]]
  BY OutputAssumption DEF OInv, Types, SaverOK, Ops
<1>2. /\ writeQueue' = Append(writeQueue, new) /\ buffer' = None
      /\ Len(writeQueue') = last /\ writeQueue'[last] = new
      /\ \A j \in 1 .. Len(writeQueue) : writeQueue'[j] = writeQueue[j]
      /\ writeQueue' \in Seq(Ops) /\ Len(writeQueue) \in Nat
  BY <1>1
<1> HIDE DEF new
<1>3. Types'  BY <1>1, <1>2 DEF OInv, Types, taskVars, errorVars
<1>4. SaverOK'
  BY <1>1, <1>2, OutputAssumption DEF OInv, SaverOK, singularVars
<1>5. RunnersOK'  BY DEF OInv, RunnersOK, singularVars, taskVars, errorVars
<1>6. new.buf = buffer /\ new.pos = bufferPos  BY DEF new
<1>7. Apart'
  <2>1. \A i \in 1 .. Len(freeBuffers) : freeBuffers[i] # None /\ freeBuffers[i] # buffer
    BY Sentinels DEF OInv, Types, Apart
  <2>2. \A j \in 1 .. Len(writeQueue) : writeQueue[j].buf # None /\ writeQueue[j].buf # buffer
    <3> SUFFICES ASSUME NEW j \in 1 .. Len(writeQueue)
                 PROVE  writeQueue[j].buf # None /\ writeQueue[j].buf # buffer
      OBVIOUS
    <3>1. writeQueue[j] \in Ops  BY <1>1
    <3> QED  BY <3>1, Sentinels DEF OInv, Apart, Ops
  <2>3. \A r \in Runners : op[r] # None => op[r].buf # None /\ op[r].buf # buffer
    <3> SUFFICES ASSUME NEW r \in Runners, op[r] # None
                 PROVE  op[r].buf # None /\ op[r].buf # buffer
      OBVIOUS
    <3>1. op[r] \in Ops  BY DEF OInv, Types
    <3> QED  BY <3>1, Sentinels DEF OInv, Apart, Ops
  <2>4. \A j \in 1 .. last : j \in 1 .. Len(writeQueue) \/ (j = last /\ writeQueue'[j].buf = buffer)
    BY <1>2, <1>6
  <2>5. \A i, j \in 1 .. last : writeQueue'[i].buf = writeQueue'[j].buf => i = j
    BY <1>2, <2>2, <2>4 DEF OInv, Apart
  <2>6. \A i \in 1 .. Len(freeBuffers), j \in 1 .. last : freeBuffers[i] # writeQueue'[j].buf
    BY <1>2, <2>1, <2>4 DEF OInv, Apart
  <2>7. \A j \in 1 .. last : writeQueue'[j].buf # None
    BY <1>1, <1>2, <2>2, <2>4, Sentinels
  <2>8. \A r \in Runners, j \in 1 .. last : op[r] # None => writeQueue'[j].buf # op[r].buf
    BY <1>2, <2>3, <2>4 DEF OInv, Apart
  <2> QED
    BY <1>2, <2>1, <2>3, <2>5, <2>6, <2>7, <2>8 DEF OInv, Apart, taskVars
<1>8. Complete'
  <2> SUFFICES ASSUME NEW b \in Buffers PROVE Held(b)'  BY DEF Complete
  <2>1. Held(b)  BY DEF OInv, Complete
  <2>2. CASE b = buffer  BY <1>2, <1>6, <2>2 DEF Held
  <2>3. CASE b # buffer  BY <1>2, <2>1, <2>3 DEF Held, taskVars
  <2> QED  BY <2>2, <2>3
<1>9. NumberOK'
  <2>1. Writing' = Writing  BY DEF Writing, taskVars
  <2>2. Len(writeQueue') = Len(writeQueue) + 1 /\ buffer # None  BY <1>1, <1>2, Sentinels
  <2>3. NumBuffers = Len(freeBuffers) + Len(writeQueue) + Cardinality(Writing) + 1
    BY <2>2 DEF OInv, NumberOK
  <2>4. Cardinality(Writing) \in Nat  BY WritingIsFinite
  <2> QED  BY <1>1, <1>2, <2>1, <2>2, <2>3, <2>4 DEF NumberOK, OInv, Types
<1>10. Looked' /\ DoneOK'
  BY <1>1, SaverIsWaker DEF OInv, SInv, SingularTypeOK, SaverOK, Looked, DoneOK, singularVars
<1>11. Content'
  <2>1. CASE Trouble  BY <2>1 DEF Content, Trouble, errorVars
  <2>2. CASE ~Trouble
    <3> SUFFICES ASSUME NEW p \in Positions
                 PROVE  (SaverHolds(p) /\ QueueHolds(p) /\ TaskHolds(p) /\ FileHolds(p))'
      BY DEF Content
    <3>1. SaverHolds(p) /\ QueueHolds(p) /\ TaskHolds(p) /\ FileHolds(p)
      BY <2>2 DEF OInv, Content
    <3>2. ~InBufferOfSaver(p)'  BY <1>2 DEF InBufferOfSaver
    <3>3. /\ Covers(new, p) <=> InBufferOfSaver(p)
          /\ ByteAt(new, p) = bytes[buffer][p - bufferPos]
      BY <1>1, <1>6, Sentinels DEF Covers, InBufferOfSaver, ByteAt
    <3>4. \A i \in 0 .. Len(writeQueue) :
            Covered(p, i)' <=> Covered(p, i) \/ InBufferOfSaver(p)
      <4> SUFFICES ASSUME NEW i \in 0 .. Len(writeQueue)
                   PROVE  Covered(p, i)' <=> Covered(p, i) \/ InBufferOfSaver(p)
        OBVIOUS
      <4>1. Covered(p, i)' <=> \E j \in 1 .. last : j > i /\ Covers(writeQueue'[j], p)
        BY <1>2 DEF Covered, Covers
      <4>2. Covered(p, i) => Covered(p, i)'
        BY <1>2, <4>1 DEF Covered
      <4>3. InBufferOfSaver(p) => Covered(p, i)'
        <5>1. last \in 1 .. last /\ last > i  BY <1>2
        <5> QED  BY <1>2, <3>3, <4>1, <5>1
      <4>4. Covered(p, i)' => Covered(p, i) \/ InBufferOfSaver(p)
        BY <1>2, <3>3, <4>1 DEF Covered
      <4> QED  BY <4>2, <4>3, <4>4
    <3>6. SaverHolds(p)'  BY <3>2 DEF SaverHolds
    <3>7. QueueHolds(p)'
      <4> SUFFICES ASSUME NEW i \in 1 .. last, Covers(writeQueue'[i], p), ~Covered(p, i)'
                   PROVE  ByteAt(writeQueue'[i], p) = written[p]
        BY <1>2 DEF QueueHolds, Covers, ByteAt
      <4>1. CASE i = last
        BY <1>2, <3>1, <3>3, <4>1 DEF SaverHolds
      <4>2. CASE i \in 1 .. Len(writeQueue)
        BY <1>2, <3>1, <3>4, <4>2 DEF QueueHolds
      <4> QED  BY <1>2, <4>1, <4>2
    <3>8. Covered(p, 0)' <=> Covered(p, 0) \/ InBufferOfSaver(p)  BY <1>2, <3>4
    <3>9. TaskHolds(p)'
      BY <3>1, <3>8 DEF TaskHolds, Covers, ByteAt, taskVars
    <3>10. FileHolds(p)'
      BY <3>1, <3>8 DEF FileHolds, Covers, taskVars
    <3> QED  BY <3>6, <3>7, <3>9, <3>10
  <2> QED  BY <2>1, <2>2
<1> QED  BY <1>3, <1>4, <1>5, <1>7, <1>8, <1>9, <1>10, <1>11 DEF OInv

LEMMA WakeTaskInv == ASSUME SInv, OInv, WakeTask PROVE OInv'
<1> USE DEF WakeTask
<1>1. /\ pc = "Wake" /\ pc' \in {"Pop", "Wake"} /\ wpc \in [Wakers -> {"Out", "Run"}]
      /\ UNCHANGED <<rpc, old>>
  BY DEF OInv, SInv, SingularTypeOK, Wake, Run
<1>2. /\ wpc[Saver] = "Out" => due' = TRUE
      /\ wpc[Saver] # "Out" => due' = due
      /\ wpc'[Saver] = "Run" => pc' = "Wake"
  BY <1>1, SaverIsWaker DEF Wake, Run, WGoto
<1>3. Types'  BY <1>1 DEF OInv, Types, posVars, queueVars, taskVars, errorVars
<1>4. SaverOK'  BY <1>1, <1>2 DEF OInv, SaverOK, posVars
<1>5. RunnersOK'  BY <1>1 DEF OInv, RunnersOK, taskVars, errorVars
<1>6. Apart' /\ Complete' /\ NumberOK'  BY BuffersStay DEF posVars, queueVars, taskVars
<1>7. Looked' /\ DoneOK'  BY <1>1, <1>2 DEF OInv, Looked, DoneOK, queueVars
<1>8. Trouble => Trouble'  BY DEF Trouble, errorVars
<1>9. Content'  BY <1>8, ContentStays DEF posVars, queueVars, taskVars
<1> QED  BY <1>3, <1>4, <1>5, <1>6, <1>7, <1>9 DEF OInv

LEMMA TakeBufferInv == ASSUME SInv, OInv, TakeBuffer PROVE OInv'
<1> USE DEF TakeBuffer, Goto
<1>1. pc = "Pop" /\ buffer = None /\ freeBuffers \in Seq(Buffers)
  BY DEF OInv, Types, SaverOK
<1>2. RunnersOK'  BY DEF OInv, RunnersOK, singularVars, taskVars, errorVars
<1>3. Looked' /\ DoneOK'  BY DEF OInv, Looked, DoneOK, singularVars
<1>4. Trouble => Trouble'  BY DEF Trouble, errorVars
<1>5. CASE freeBuffers = <<>>
  <2>1. Types'  BY <1>5 DEF OInv, Types, taskVars, errorVars
  <2>2. SaverOK'  BY <1>1, <1>5 DEF OInv, SaverOK, singularVars
  <2>3. Apart' /\ Complete' /\ NumberOK'  BY <1>5, BuffersStay DEF taskVars
  <2>4. Content'  BY <1>4, <1>5, ContentStays DEF taskVars
  <2> QED  BY <1>2, <1>3, <2>1, <2>2, <2>3, <2>4 DEF OInv
<1>6. CASE freeBuffers # <<>>
  <2>1. /\ buffer' = freeBuffers[1] /\ buffer' \in Buffers /\ freeBuffers' \in Seq(Buffers)
        /\ Len(freeBuffers) \in Nat \ {0} /\ Len(freeBuffers') = Len(freeBuffers) - 1
        /\ \A i \in 1 .. Len(freeBuffers') : freeBuffers'[i] = freeBuffers[i + 1]
        /\ pc' = "Reset"
    BY <1>1, <1>6
  <2>2. size[buffer'] = 0 /\ size' = size
    BY <2>1 DEF OInv, Apart
  <2>3. Types'  BY <2>1 DEF OInv, Types, taskVars, errorVars
  <2>4. SaverOK'  BY <1>1, <2>1, <2>2, Sentinels DEF OInv, SaverOK, singularVars
  <2>5. Apart'
    BY <2>1, <2>2 DEF OInv, Apart, taskVars
  <2>6. Complete'
    <3> SUFFICES ASSUME NEW b \in Buffers PROVE Held(b)'  BY DEF Complete
    <3>1. Held(b) /\ b # None  BY Sentinels DEF OInv, Complete
    <3>2. ASSUME NEW i \in 1 .. Len(freeBuffers), freeBuffers[i] = b PROVE Held(b)'
      <4>1. CASE i = 1  BY <2>1, <3>2, <4>1 DEF Held
      <4>2. CASE i # 1
        <5>1. i - 1 \in 1 .. Len(freeBuffers') /\ freeBuffers'[i - 1] = b
          BY <2>1, <3>2, <4>2
        <5> QED  BY <5>1 DEF Held
      <4> QED  BY <4>1, <4>2
    <3> QED  BY <1>1, <3>1, <3>2 DEF Held, taskVars
  <2>7. NumberOK'
    <3>1. Writing' = Writing  BY DEF Writing, taskVars
    <3>2. Cardinality(Writing) \in Nat  BY WritingIsFinite
    <3>3. buffer' # None  BY <2>1, Sentinels
    <3> QED  BY <1>1, <2>1, <3>1, <3>2, <3>3 DEF OInv, NumberOK, Types
  <2>8. Content'
    <3>1. CASE Trouble  BY <1>4, <3>1 DEF Content
    <3>2. CASE ~Trouble
      <4> SUFFICES ASSUME NEW p \in Positions
                   PROVE  (SaverHolds(p) /\ QueueHolds(p) /\ TaskHolds(p) /\ FileHolds(p))'
        BY DEF Content
      <4>1. QueueHolds(p) /\ TaskHolds(p) /\ FileHolds(p)
        BY <3>2 DEF OInv, Content
      <4>2. ~InBufferOfSaver(p) /\ ~InBufferOfSaver(p)'
        BY <1>1, <2>1, <2>2 DEF InBufferOfSaver, OInv, Types
      <4>3. \A i : Covered(p, i)' = Covered(p, i)  BY DEF Covered, Covers
      <4> QED
        BY <4>1, <4>2, <4>3
        DEF SaverHolds, QueueHolds, TaskHolds, FileHolds, Covers, ByteAt, taskVars
    <3> QED  BY <3>1, <3>2
  <2> QED  BY <1>2, <1>3, <2>3, <2>4, <2>5, <2>6, <2>7, <2>8 DEF OInv
<1> QED  BY <1>5, <1>6

\* The saver is anywhere in the file, with an empty buffer.
LEMMA ResetInv == ASSUME SInv, OInv, Reset PROVE OInv'
<1> USE DEF Reset
<1>1. /\ buffer \in Buffers /\ size[buffer] = 0 /\ FileSize \in Nat
      /\ size \in [Buffers -> 0 .. BufferCap] /\ BufferCap \in Nat \ {0}
      /\ filePos \in Nat /\ bufferPos \in Nat /\ todo \in Nat
      /\ pc \in {"Reset", "Flush"} /\ pc' \in {"Wait", "Write", "Out"}
      /\ UNCHANGED <<buffer, size, todo>>
  BY OutputAssumption DEF OInv, Types, SaverOK
<1>2. filePos' \in Nat /\ bufferPos' = filePos' /\ filePos' + todo <= FileSize
  BY <1>1, Sentinels DEF OInv, Types, SaverOK, Positions
<1>3. target' \in {None, End}
  BY DEF OInv, Types
<1>4. Types'
  BY <1>1, <1>2, <1>3 DEF OInv, Types, queueVars, taskVars, errorVars
<1>5. SaverOK'
  BY <1>1, <1>2, <1>3, Sentinels DEF OInv, Types, SaverOK, singularVars
<1>6. RunnersOK'  BY DEF OInv, RunnersOK, singularVars, taskVars, errorVars
<1>7. Apart' /\ Complete' /\ NumberOK'  BY BuffersStay DEF queueVars, taskVars
<1>8. Looked' /\ DoneOK'
  BY <1>1 DEF OInv, Looked, DoneOK, singularVars, queueVars
<1>9. Content'
  <2>1. CASE Trouble  BY <2>1 DEF Content, Trouble, errorVars
  <2>2. CASE ~Trouble
    <3> SUFFICES ASSUME NEW p \in Positions
                 PROVE  (SaverHolds(p) /\ QueueHolds(p) /\ TaskHolds(p) /\ FileHolds(p))'
      BY DEF Content
    <3>1. QueueHolds(p) /\ TaskHolds(p) /\ FileHolds(p)
      BY <2>2 DEF OInv, Content
    <3>2. ~InBufferOfSaver(p) /\ ~InBufferOfSaver(p)'
      BY <1>1, <1>2 DEF InBufferOfSaver
    <3>3. \A i : Covered(p, i)' = Covered(p, i)  BY <1>1 DEF Covered, Covers, queueVars
    <3> QED
      BY <1>1, <3>1, <3>2, <3>3
      DEF SaverHolds, QueueHolds, TaskHolds, FileHolds, Covers, ByteAt, queueVars, taskVars
  <2> QED  BY <2>1, <2>2
<1> QED  BY <1>4, <1>5, <1>6, <1>7, <1>8, <1>9 DEF OInv

\* The saver waited: the last task of the dispatcher left an empty queue.
LEMMA WaitReturnsInv == ASSUME SInv, OInv, WaitReturns PROVE OInv'
<1> USE DEF WaitReturns, Goto
<1>1. /\ pc = "Wait" /\ pc' = IF buffer = None THEN "Pop" ELSE "Done"
      /\ wpc[Saver] # "Run" /\ Wakers = {Saver}
  BY OutputAssumption DEF OInv, SaverOK
<1>2. ~due
  BY <1>1 DEF NoTasks, SInv, NoLostWake
<1>3. writeQueue = <<>>
  BY <1>1, <1>2 DEF NoTasks, OInv, Looked
<1>4. Types'  BY DEF OInv, Types, posVars, queueVars, taskVars
<1>5. SaverOK'  BY <1>1, OutputAssumption DEF OInv, Types, SaverOK, singularVars, posVars
<1>6. RunnersOK'  BY DEF OInv, RunnersOK, singularVars, taskVars
<1>7. Apart' /\ Complete' /\ NumberOK'  BY BuffersStay DEF posVars, queueVars, taskVars
<1>8. Looked' /\ DoneOK'
  BY <1>3 DEF Looked, DoneOK, NoTasks, singularVars, queueVars
<1>9. Trouble => Trouble'  BY DEF Trouble, OInv, Types
<1>10. Content'  BY <1>9, ContentStays DEF posVars, queueVars, taskVars
<1> QED  BY <1>4, <1>5, <1>6, <1>7, <1>8, <1>10 DEF OInv

-----------------------------------------------------------------------------
(* The writer task.                                                        *)

\* Steps of the singular task between the calls of _DoWrites.
LEMMA AroundInv ==
  ASSUME SInv, OInv, NEW r \in Runners, StartTask(r) \/ LoadCount(r) \/ BeginWrites(r)
  PROVE  OInv'
<1> USE DEF StartTask, LoadCount, BeginWrites
<1>1. /\ UNCHANGED <<wpc, posVars, bytes, size, queueVars, taskVars, file, errorVars, saverVars>>
      /\ rpc \in [Runners -> {"Idle", "Load", "Begin", "In", "Exchange"}]
      /\ rpc[r] \in {"Idle", "Load", "Begin"}
      /\ \A s \in Runners : s # r => rpc'[s] = rpc[s]
      /\ rpc'[r] # "Idle"
  BY DEF SInv, SingularTypeOK, Start, Load, Begin, RGoto
<1>2. Types'
  BY <1>1 DEF OInv, Types, posVars, queueVars, taskVars, errorVars, saverVars
<1>3. SaverOK'  BY <1>1 DEF OInv, SaverOK, posVars, saverVars
<1>4. RunnersOK'  BY <1>1 DEF OInv, RunnersOK, taskVars, errorVars
<1>5. Apart' /\ Complete' /\ NumberOK'  BY <1>1, BuffersStay DEF posVars, queueVars, taskVars
<1>6. Looked'
  <2>1. ~due' => due' = due \/ rpc'[r] = "In"
    BY <1>1 DEF Start, Load, Begin, RGoto
  <2> QED  BY <1>1, <2>1 DEF OInv, Looked, Start, Load, Begin, RGoto, queueVars, saverVars
<1>7. DoneOK'
  <2>1. pc # "Done"
    BY <1>1 DEF OInv, DoneOK, NoTasks, Start, Load, Begin, RGoto
  <2> QED  BY <1>1, <2>1 DEF DoneOK, saverVars
<1>8. Trouble => Trouble'  BY <1>1 DEF Trouble, errorVars
<1>9. Content'  BY <1>1, <1>8, ContentStays DEF posVars, queueVars, taskVars, saverVars
<1> QED  BY <1>2, <1>3, <1>4, <1>5, <1>6, <1>7, <1>9 DEF OInv

\* It leaves _DoWrites when it has seen the queue empty.
LEMMA EndWritesInv ==
  ASSUME SInv, OInv, NEW r \in Runners, EndWrites(r)
  PROVE  OInv'
<1> USE DEF EndWrites
<1>1. /\ UNCHANGED <<wpc, posVars, bytes, size, queueVars, taskVars, file, errorVars, saverVars>>
      /\ rpc[r] = "In" /\ rpc' = [rpc EXCEPT ![r] = "Exchange"]
      /\ rpc \in [Runners -> {"Idle", "Load", "Begin", "In", "Exchange"}]
  BY DEF SInv, SingularTypeOK, Return, RGoto
<1>2. Types'
  BY <1>1 DEF OInv, Types, posVars, queueVars, taskVars, errorVars, saverVars
<1>3. SaverOK'  BY <1>1 DEF OInv, SaverOK, posVars, saverVars
<1>4. RunnersOK'  BY <1>1 DEF OInv, RunnersOK, taskVars, errorVars
<1>5. Apart' /\ Complete' /\ NumberOK'  BY <1>1, BuffersStay DEF posVars, queueVars, taskVars
<1>6. Looked'  BY <1>1 DEF Looked, queueVars
<1>7. DoneOK'
  BY <1>1 DEF OInv, DoneOK, NoTasks, saverVars
<1>8. Trouble => Trouble'  BY <1>1 DEF Trouble, errorVars
<1>9. Content'  BY <1>1, <1>8, ContentStays DEF posVars, queueVars, taskVars, saverVars
<1> QED  BY <1>2, <1>3, <1>4, <1>5, <1>6, <1>7, <1>9 DEF OInv

\* Its errors are the dispatcher's when it is over.
LEMMA EndTaskInv ==
  ASSUME SInv, OInv, NEW r \in Runners, EndTask(r)
  PROVE  OInv'
<1> USE DEF EndTask
<1>1. /\ UNCHANGED <<wpc, due, queued, posVars, bytes, size, queueVars, taskVars, file,
                     posted, saverVars>>
      /\ rpc[r] = "Exchange" /\ rpc'[r] \in {"Idle", "Begin"}
      /\ \A s \in Runners : s # r => rpc'[s] = rpc[s]
      /\ rpc \in [Runners -> {"Idle", "Load", "Begin", "In", "Exchange"}]
  BY DEF SInv, SingularTypeOK, Exchange, RGoto
<1>2. /\ failed' \in [Runners -> BOOLEAN] /\ errors' \in BOOLEAN
      /\ failed'[r] = (rpc'[r] # "Idle" /\ failed[r])
      /\ \A s \in Runners : s # r => failed'[s] = failed[s]
      /\ failed \in [Runners -> BOOLEAN] /\ errors \in BOOLEAN
  BY <1>1 DEF OInv, Types
<1>3. Types'
  BY <1>1, <1>2 DEF OInv, Types, posVars, queueVars, taskVars, saverVars
<1>4. SaverOK'  BY <1>1 DEF OInv, SaverOK, posVars, saverVars
<1>5. RunnersOK'  BY <1>1, <1>2 DEF OInv, RunnersOK, taskVars
<1>6. Apart' /\ Complete' /\ NumberOK'  BY <1>1, BuffersStay DEF posVars, queueVars, taskVars
<1>7. Looked'  BY <1>1 DEF OInv, Looked, queueVars, saverVars
<1>8. DoneOK'
  <2>1. pc # "Done"
    BY <1>1 DEF OInv, DoneOK, NoTasks
  <2> QED  BY <1>1, <2>1 DEF DoneOK, saverVars
<1>9. Trouble => Trouble'
  <2>1. CASE failed[r]  BY <1>1, <1>2, <2>1 DEF Trouble
  <2>2. CASE ~failed[r]  BY <1>1, <1>2, <2>2 DEF Trouble
  <2> QED  BY <2>1, <2>2
<1>10. Content'  BY <1>1, <1>9, ContentStays DEF posVars, queueVars, taskVars, saverVars
<1> QED  BY <1>3, <1>4, <1>5, <1>6, <1>7, <1>8, <1>10 DEF OInv

\* Inside _DoWrites the thread is alone.
LEMMA PopOpInv ==
  ASSUME SInv, OInv, NEW r \in Runners, PopOp(r)
  PROVE  OInv'
<1> USE DEF PopOp, SGoto
<1> DEFINE len == Len(writeQueue)
<1>1. /\ rpc[r] = "In" /\ stage[r] = "Pop" /\ op[r] = None
      /\ writeQueue \in Seq(Ops) /\ writeQueue # <<>>
      /\ stage \in [Runners -> {"Pop", "Write", "Free"}] /\ op \in [Runners -> Ops \cup {None}]
  BY DEF OInv, Types, RunnersOK
<1>2. /\ len \in Nat \ {0} /\ Len(writeQueue') = len - 1 /\ writeQueue[1] \in Ops
      /\ \A j \in 1 .. len - 1 : writeQueue'[j] = writeQueue[j + 1]
      /\ writeQueue' \in Seq(Ops) /\ Head(writeQueue) = writeQueue[1]
  BY <1>1
<1>3. /\ op' = [op EXCEPT ![r] = writeQueue[1]] /\ stage' = [stage EXCEPT ![r] = "Write"]
      /\ \A s \in Runners : s # r => op'[s] = None /\ stage'[s] = "Pop"
      /\ \A s \in Runners : s # r => op[s] = None /\ stage[s] = "Pop"
      /\ op'[r] = writeQueue[1] /\ stage'[r] = "Write"
  BY <1>1, <1>2, OneInside
<1>4. Types'
  BY <1>1, <1>2, <1>3 DEF OInv, Types, posVars, errorVars, saverVars
<1>5. SaverOK'  BY DEF OInv, SaverOK, singularVars, posVars, saverVars
<1>6. RunnersOK'
  BY <1>1, <1>2, <1>3, Sentinels DEF OInv, RunnersOK, singularVars, errorVars
<1>7. Apart'
  <2>1. \A j \in 1 .. len - 1 : writeQueue'[j] = writeQueue[j + 1] /\ j + 1 \in 2 .. len
    BY <1>2
  <2>2. \A i, j \in 1 .. len : writeQueue[i].buf = writeQueue[j].buf => i = j
    BY DEF OInv, Apart
  <2>3. \A i, j \in 1 .. len - 1 : writeQueue'[i].buf = writeQueue'[j].buf => i = j
    BY <1>2, <2>1, <2>2
  <2>4. \A i \in 1 .. Len(freeBuffers), j \in 1 .. len - 1 : freeBuffers[i] # writeQueue'[j].buf
    BY <1>2, <2>1 DEF OInv, Apart
  <2>5. \A j \in 1 .. len - 1 : /\ writeQueue'[j].buf # buffer
                                /\ writeQueue'[j].buf # writeQueue[1].buf
    BY <1>2, <2>1, <2>2 DEF OInv, Apart
  <2>6. /\ writeQueue[1].buf # buffer
        /\ \A i \in 1 .. Len(freeBuffers) : freeBuffers[i] # writeQueue[1].buf
    BY <1>2 DEF OInv, Apart
  <2> QED
    BY <1>2, <1>3, <2>3, <2>4, <2>5, <2>6 DEF OInv, Apart, posVars
<1>8. Complete'
  <2> SUFFICES ASSUME NEW b \in Buffers PROVE Held(b)'  BY DEF Complete
  <2>1. Held(b)  BY DEF OInv, Complete
  <2>2. ASSUME NEW j \in 1 .. len, writeQueue[j].buf = b PROVE Held(b)'
    <3>1. CASE j = 1
      BY <1>2, <1>3, <2>2, <3>1, Sentinels DEF Held
    <3>2. CASE j # 1
      <4>1. j - 1 \in 1 .. Len(writeQueue') /\ writeQueue'[j - 1].buf = b
        BY <1>2, <2>2, <3>2
      <4> QED  BY <4>1 DEF Held
    <3> QED  BY <3>1, <3>2
  <2>3. \A s \in Runners : op[s] # None => op'[s] = op[s]  BY <1>1, <1>3
  <2> QED  BY <2>1, <2>2, <2>3 DEF Held, posVars
<1>9. NumberOK'
  <2>1. Cardinality(Writing) = 0  BY <1>1, WritingIsFinite
  <2>2. Writing' = {writeQueue[1]}  BY <1>2, <1>3, Sentinels DEF Writing
  <2>3. Cardinality(Writing') = 1  BY <2>2, FS_Singleton
  <2>4. Cardinality(Writing)' = 1  BY <2>3
  <2> QED  BY <1>2, <2>1, <2>4 DEF OInv, NumberOK, posVars, Types
<1>10. Looked'
  BY <1>1 DEF Looked, singularVars
<1>11. DoneOK'
  BY <1>1 DEF OInv, DoneOK, NoTasks, saverVars
<1>12. Content'
  <2>1. CASE Trouble  BY <2>1 DEF Content, Trouble, errorVars
  <2>2. CASE ~Trouble
    <3> SUFFICES ASSUME NEW p \in Positions
                 PROVE  (SaverHolds(p) /\ QueueHolds(p) /\ TaskHolds(p) /\ FileHolds(p))'
      BY DEF Content
    <3>1. SaverHolds(p) /\ QueueHolds(p) /\ TaskHolds(p) /\ FileHolds(p)
      BY <2>2 DEF OInv, Content
    <3>2. InBufferOfSaver(p)' = InBufferOfSaver(p)  BY DEF InBufferOfSaver, posVars
    <3>3. \A i \in 0 .. len - 1 : Covered(p, i)' <=> Covered(p, i + 1)
      <4> SUFFICES ASSUME NEW i \in 0 .. len - 1
                   PROVE  Covered(p, i)' <=> Covered(p, i + 1)
        OBVIOUS
      <4>1. Covered(p, i)' <=> \E j \in 1 .. len - 1 : j > i /\ Covers(writeQueue[j + 1], p)
        BY <1>2 DEF Covered, Covers
      <4>2. Covered(p, i + 1) <=> \E j \in 1 .. len : j > i + 1 /\ Covers(writeQueue[j], p)
        BY DEF Covered
      <4>3. ASSUME NEW j \in 1 .. len, j > i + 1, Covers(writeQueue[j], p)
            PROVE  Covered(p, i)'
        <5>1. j - 1 \in 1 .. len - 1 /\ j - 1 > i /\ (j - 1) + 1 = j  BY <1>2, <4>3
        <5> QED  BY <4>1, <4>3, <5>1
      <4>4. ASSUME NEW j \in 1 .. len - 1, j > i, Covers(writeQueue[j + 1], p)
            PROVE  Covered(p, i + 1)
        <5>1. j + 1 \in 1 .. len /\ j + 1 > i + 1  BY <1>2, <4>4
        <5> QED  BY <4>2, <4>4, <5>1
      <4> QED  BY <4>1, <4>2, <4>3, <4>4
    <3>4. SaverHolds(p)'
      BY <3>1, <3>2 DEF SaverHolds, posVars, saverVars
    <3>5. QueueHolds(p)'
      <4> SUFFICES ASSUME NEW i \in 1 .. len - 1, Covers(writeQueue'[i], p), ~Covered(p, i)',
                          ~InBufferOfSaver(p)
                   PROVE  ByteAt(writeQueue'[i], p) = written[p]
        BY <1>2, <3>2 DEF QueueHolds, Covers, ByteAt, saverVars
      <4>1. i + 1 \in 1 .. len /\ writeQueue'[i] = writeQueue[i + 1] /\ i \in 0 .. len - 1
        BY <1>2
      <4>2. ~Covered(p, i + 1)  BY <3>3, <4>1
      <4> QED  BY <3>1, <4>1, <4>2 DEF QueueHolds
    <3>6. Covered(p, 0)' <=> Covered(p, 1)
      <4>1. 0 \in 0 .. len - 1 /\ 0 + 1 = 1  BY <1>2
      <4> QED  BY <3>3, <4>1
    <3>7. TaskHolds(p)'
      <4> SUFFICES ASSUME Covers(writeQueue[1], p), ~Covered(p, 1), ~InBufferOfSaver(p)
                   PROVE  ByteAt(writeQueue[1], p) = written[p]
        BY <1>3, <3>2, <3>6 DEF TaskHolds, Covers, ByteAt, saverVars
      <4>1. 1 \in 1 .. len  BY <1>2
      <4> QED  BY <3>1, <4>1 DEF QueueHolds
    <3>8. FileHolds(p)'
      <4> SUFFICES ASSUME ~Covered(p, 1), ~Covers(writeQueue[1], p), ~InBufferOfSaver(p)
                   PROVE  file[p] = written[p]
        BY <1>3, <3>2, <3>6 DEF FileHolds, Covers, saverVars
      <4>1. ~Covered(p, 0)
        BY <1>2 DEF Covered
      <4> QED  BY <1>1, <1>3, <3>1, <4>1 DEF FileHolds
    <3> QED  BY <3>4, <3>5, <3>7, <3>8
  <2> QED  BY <2>1, <2>2
<1> QED  BY <1>4, <1>5, <1>6, <1>7, <1>8, <1>9, <1>10, <1>11, <1>12 DEF OInv

\* A write to the asset, whole or short, leaves the buffers alone.
LEMMA StoreStep ==
  ASSUME SInv, OInv, NEW r \in Runners, SGoto(r, "Write", "Free"),
         NEW n \in 0 .. size[op[r].buf], Store(r, n),
         UNCHANGED <<singularVars, posVars, bytes, size, queueVars, op, posted, saverVars>>
  PROVE  /\ rpc[r] = "In" /\ op[r] \in Ops /\ file' \in [Positions -> Bytes]
         /\ stage' \in [Runners -> {"Pop", "Write", "Free"}] /\ stage'[r] = "Free"
         /\ \A s \in Runners : s # r => stage[s] = "Pop" /\ stage'[s] = "Pop" /\ op[s] = None
         /\ SaverOK' /\ Apart' /\ Complete' /\ NumberOK' /\ Looked'
         /\ pc # "Done"
<1> USE DEF SGoto
<1>1. rpc[r] = "In" /\ op[r] \in Ops /\ op[r].buf \in Buffers /\ op[r].pos \in Nat
  BY OutputAssumption DEF OInv, Types, RunnersOK, Ops
<1>2. \A p \in Positions : p \in op[r].pos .. op[r].pos + n - 1 =>
                             p - op[r].pos \in Offsets
  <2>1. BufferCap \in Nat /\ size[op[r].buf] \in 0 .. BufferCap
    BY <1>1, OutputAssumption DEF OInv, Types
  <2> QED  BY <1>1, <2>1 DEF Positions, Offsets
<1>3. file' \in [Positions -> Bytes]
  BY <1>1, <1>2 DEF OInv, Types, Store
<1>4. /\ stage' \in [Runners -> {"Pop", "Write", "Free"}] /\ stage'[r] = "Free"
      /\ \A s \in Runners : s # r => stage[s] = "Pop" /\ stage'[s] = "Pop" /\ op[s] = None
  BY <1>1, OneInside DEF OInv, Types
<1>5. SaverOK'  BY DEF OInv, SaverOK, singularVars, posVars, saverVars
<1>6. Apart' /\ Complete' /\ NumberOK'  BY BuffersStay DEF posVars, queueVars
<1>7. Looked'  BY DEF OInv, Looked, singularVars, queueVars, saverVars
<1>8. pc # "Done"
  BY <1>1 DEF OInv, DoneOK, NoTasks
<1> QED  BY <1>1, <1>3, <1>4, <1>5, <1>6, <1>7, <1>8

\* What the buffer holds is now in the file.
LEMMA WriteOpInv == ASSUME SInv, OInv, NEW r \in Runners, WriteOp(r) PROVE OInv'
<1> USE DEF WriteOp, SGoto
<1>1. op[r] \in Ops /\ size[op[r].buf] \in 0 .. size[op[r].buf] /\ op[r].pos \in Nat
      /\ size[op[r].buf] \in Nat
  BY OutputAssumption DEF OInv, Types, RunnersOK, Ops
<1>2. /\ file' \in [Positions -> Bytes]
      /\ stage' \in [Runners -> {"Pop", "Write", "Free"}] /\ stage'[r] = "Free"
      /\ \A s \in Runners : s # r => stage[s] = "Pop" /\ stage'[s] = "Pop" /\ op[s] = None
      /\ SaverOK' /\ Apart' /\ Complete' /\ NumberOK' /\ Looked'
      /\ pc # "Done" /\ rpc[r] = "In"
  BY <1>1, StoreStep DEF errorVars
<1>3. Types'  BY <1>2 DEF OInv, Types, posVars, queueVars, errorVars, saverVars
<1>4. RunnersOK'
  BY <1>1, <1>2, Sentinels DEF OInv, RunnersOK, singularVars, errorVars
<1>5. DoneOK'  BY <1>2 DEF DoneOK, saverVars
<1>6. Content'
  <2>1. CASE Trouble  BY <2>1 DEF Content, Trouble, errorVars
  <2>2. CASE ~Trouble
    <3> SUFFICES ASSUME NEW p \in Positions
                 PROVE  (SaverHolds(p) /\ QueueHolds(p) /\ TaskHolds(p) /\ FileHolds(p))'
      BY DEF Content
    <3>1. SaverHolds(p) /\ QueueHolds(p) /\ TaskHolds(p) /\ FileHolds(p)
      BY <2>2 DEF OInv, Content
    <3>2. InBufferOfSaver(p)' = InBufferOfSaver(p)  BY DEF InBufferOfSaver, posVars
    <3>3. \A i : Covered(p, i)' = Covered(p, i)  BY DEF Covered, Covers, queueVars
    <3>4. SaverHolds(p)'
      BY <3>1, <3>2 DEF SaverHolds, posVars, saverVars
    <3>5. QueueHolds(p)'
      BY <3>1, <3>2, <3>3 DEF QueueHolds, Covers, ByteAt, queueVars, saverVars
    <3>6. TaskHolds(p)'
      BY <1>2 DEF TaskHolds
    <3>7. FileHolds(p)'
      <4> SUFFICES ASSUME ~InBufferOfSaver(p), ~Covered(p, 0)
                   PROVE  file'[p] = written[p]
        BY <3>2, <3>3 DEF FileHolds, saverVars
      <4>1. p \in op[r].pos .. op[r].pos + size[op[r].buf] - 1 <=> Covers(op[r], p)
        BY <1>1 DEF Covers, Positions
      <4>2. file'[p] = IF Covers(op[r], p) THEN ByteAt(op[r], p) ELSE file[p]
        BY <4>1 DEF Store, ByteAt
      <4>3. CASE Covers(op[r], p)
        BY <3>1, <4>2, <4>3 DEF TaskHolds
      <4>4. CASE ~Covers(op[r], p)
        BY <1>2, <3>1, <4>2, <4>4 DEF FileHolds
      <4> QED  BY <4>3, <4>4
    <3> QED  BY <3>4, <3>5, <3>6, <3>7
  <2> QED  BY <2>1, <2>2
<1> QED  BY <1>2, <1>3, <1>4, <1>5, <1>6 DEF OInv

\* What a short write leaves out is an error to be posted.
LEMMA WriteOpShortInv == ASSUME SInv, OInv, NEW r \in Runners, WriteOpShort(r) PROVE OInv'
<1> USE DEF WriteOpShort, SGoto
<1>1. op[r] \in Ops /\ size[op[r].buf] \in Nat /\ failed \in [Runners -> BOOLEAN]
  BY OutputAssumption DEF OInv, Types, RunnersOK, Ops
<1>2. PICK n \in 0 .. size[op[r].buf] - 1 : Store(r, n)  OBVIOUS
<1>3. n \in 0 .. size[op[r].buf]  BY <1>1
<1>4. /\ file' \in [Positions -> Bytes]
      /\ stage' \in [Runners -> {"Pop", "Write", "Free"}] /\ stage'[r] = "Free"
      /\ \A s \in Runners : s # r => stage[s] = "Pop" /\ stage'[s] = "Pop" /\ op[s] = None
      /\ SaverOK' /\ Apart' /\ Complete' /\ NumberOK' /\ Looked'
      /\ pc # "Done" /\ rpc[r] = "In"
  BY <1>2, <1>3, StoreStep
<1>5. failed' \in [Runners -> BOOLEAN] /\ failed'[r]
      /\ \A s \in Runners : s # r => failed'[s] = failed[s]
  BY <1>1
<1>6. Types'  BY <1>4, <1>5 DEF OInv, Types, posVars, queueVars, saverVars
<1>7. RunnersOK'
  BY <1>1, <1>4, <1>5, Sentinels DEF OInv, RunnersOK, singularVars
<1>8. DoneOK'  BY <1>4 DEF DoneOK, saverVars
<1>9. Content'  BY <1>5 DEF Content, Trouble
<1> QED  BY <1>4, <1>6, <1>7, <1>8, <1>9 DEF OInv

\* The buffer is given back empty.
LEMMA FreeBufferInv == ASSUME SInv, OInv, NEW r \in Runners, FreeBuffer(r) PROVE OInv'
<1> USE DEF FreeBuffer, SGoto
<1> DEFINE b0 == op[r].buf
           last == Len(freeBuffers) + 1
<1>1. /\ rpc[r] = "In" /\ stage[r] = "Free" /\ op[r] \in Ops /\ b0 \in Buffers
      /\ op[r] # None /\ freeBuffers \in Seq(Buffers) /\ BufferCap \in Nat
      /\ size \in [Buffers -> 0 .. BufferCap] /\ op \in [Runners -> Ops \cup {None}]
      /\ stage \in [Runners -> {"Pop", "Write", "Free"}]
  BY OutputAssumption DEF OInv, Types, RunnersOK, Ops
<1>2. /\ size' = [size EXCEPT ![b0] = 0] /\ freeBuffers' = Append(freeBuffers, b0)
      /\ op' = [op EXCEPT ![r] = None] /\ stage' = [stage EXCEPT ![r] = "Pop"]
      /\ UNCHANGED <<singularVars, posVars, bytes, writeQueue, file, errorVars, saverVars>>
  OBVIOUS
<1>3. /\ \A s \in Runners : s # r => op[s] = None /\ stage[s] = "Pop"
      /\ \A s \in Runners : op'[s] = None /\ stage'[s] = "Pop"
  BY <1>1, <1>2, OneInside
<1>4. /\ freeBuffers' \in Seq(Buffers) /\ Len(freeBuffers') = last /\ freeBuffers'[last] = b0
      /\ \A i \in 1 .. Len(freeBuffers) : freeBuffers'[i] = freeBuffers[i]
      /\ Len(freeBuffers) \in Nat
  BY <1>1, <1>2
<1>5. /\ buffer # b0 /\ \A i \in 1 .. Len(freeBuffers) : freeBuffers[i] # b0
      /\ \A j \in 1 .. Len(writeQueue) : writeQueue[j].buf # b0
  BY <1>1 DEF OInv, Apart
<1> HIDE DEF b0, last
<1>6. Types'
  <2>1. size' \in [Buffers -> 0 .. BufferCap]
    <3>1. 0 \in 0 .. BufferCap  BY <1>1
    <3>2. size' = [size EXCEPT ![b0] = 0]  BY <1>2
    <3> QED  BY <1>1, <3>1, <3>2, Zenon
  <2>2. op' \in [Runners -> Ops \cup {None}]
        /\ stage' \in [Runners -> {"Pop", "Write", "Free"}]
    BY <1>1, <1>2
  <2> QED  BY <1>2, <1>4, <2>1, <2>2 DEF OInv, Types, posVars, errorVars, saverVars
<1>7. SaverOK'
  BY <1>1, <1>2, <1>5 DEF OInv, SaverOK, Types, singularVars, posVars, saverVars
<1>8. RunnersOK'
  BY <1>2, <1>3 DEF OInv, RunnersOK, singularVars, errorVars
<1>9. Apart'
  <2>1. \A i \in 1 .. last : i \in 1 .. Len(freeBuffers) \/ i = last  BY <1>4 DEF last
  <2>2. \A i, j \in 1 .. last : freeBuffers'[i] = freeBuffers'[j] => i = j
    BY <1>4, <1>5, <2>1 DEF OInv, Apart
  <2>3. \A i \in 1 .. last, j \in 1 .. Len(writeQueue) : freeBuffers'[i] # writeQueue[j].buf
    BY <1>4, <1>5, <2>1 DEF OInv, Apart
  <2>4. \A i \in 1 .. last : freeBuffers'[i] # buffer /\ size'[freeBuffers'[i]] = 0
    BY <1>1, <1>2, <1>4, <1>5, <2>1 DEF OInv, Apart, Types
  <2> QED  BY <1>2, <1>3, <1>4, <2>2, <2>3, <2>4 DEF OInv, Apart, posVars
<1>10. Complete'
  <2> SUFFICES ASSUME NEW b \in Buffers PROVE Held(b)'  BY DEF Complete
  <2>1. Held(b)  BY DEF OInv, Complete
  <2>2. last \in 1 .. last /\ \A i \in 1 .. Len(freeBuffers) : i \in 1 .. last
    BY <1>4 DEF last
  <2>3. CASE b = b0  BY <1>4, <2>2, <2>3 DEF Held
  <2>4. CASE b # b0
    <3>1. \A s \in Runners : op[s] # None => op[s].buf = b0  BY <1>3 DEF b0
    <3> QED  BY <1>2, <1>4, <2>1, <2>2, <2>4, <3>1 DEF Held, posVars
  <2> QED  BY <2>3, <2>4
<1>11. NumberOK'
  <2>1. Cardinality(Writing) = 1  BY <1>1, WritingIsFinite
  <2>2. Writing' = {}  BY <1>3 DEF Writing
  <2>3. Cardinality(Writing)' = 0  BY <2>2, FS_EmptySet
  <2> QED  BY <1>2, <1>4, <2>1, <2>3 DEF OInv, NumberOK, Types, posVars, last
<1>12. Looked'  BY <1>2 DEF OInv, Looked, singularVars, saverVars
<1>13. DoneOK'
  BY <1>1, <1>2 DEF OInv, DoneOK, NoTasks, saverVars
<1>14. Content'
  <2>1. CASE Trouble  BY <1>2, <2>1 DEF Content, Trouble, errorVars
  <2>2. CASE ~Trouble
    <3> SUFFICES ASSUME NEW p \in Positions
                 PROVE  (SaverHolds(p) /\ QueueHolds(p) /\ TaskHolds(p) /\ FileHolds(p))'
      BY DEF Content
    <3>1. SaverHolds(p) /\ QueueHolds(p) /\ FileHolds(p)
      BY <2>2 DEF OInv, Content
    <3>2. InBufferOfSaver(p)' = InBufferOfSaver(p)
      BY <1>1, <1>2, <1>5 DEF InBufferOfSaver, OInv, Types, posVars
    <3>3. \A j \in 1 .. Len(writeQueue) : Covers(writeQueue[j], p)' = Covers(writeQueue[j], p)
      BY <1>1, <1>2, <1>5 DEF Covers
    <3>4. \A i : Covered(p, i)' = Covered(p, i)  BY <1>2, <3>3 DEF Covered
    <3>5. SaverHolds(p)'
      BY <1>2, <3>1, <3>2 DEF SaverHolds, posVars, saverVars
    <3>6. QueueHolds(p)'
      BY <1>2, <3>1, <3>2, <3>3, <3>4 DEF QueueHolds, ByteAt, saverVars
    <3>7. TaskHolds(p)'
      BY <1>3 DEF TaskHolds
    <3>8. FileHolds(p)'
      BY <1>1, <1>2, <1>3, <3>1, <3>2, <3>4 DEF FileHolds, saverVars
    <3> QED  BY <3>5, <3>6, <3>7, <3>8
  <2> QED  BY <2>1, <2>2
<1> QED
  BY <1>6, <1>7, <1>8, <1>9, <1>10, <1>11, <1>12, <1>13, <1>14 DEF OInv

-----------------------------------------------------------------------------
(* The theorems.                                                           *)

LEMMA StepInv == SInv /\ OInv /\ [Next]_vars => (SInv /\ OInv)'
<1> SUFFICES ASSUME SInv, OInv, [Next]_vars PROVE (SInv /\ OInv)'
  OBVIOUS
<1>1. SInv'  BY StepIsSingular, SingularStepInv
<1>2. CASE Call  BY <1>1, <1>2, WriteInv, SeekInv DEF Call
<1>3. CASE Finish  BY <1>1, <1>3, FinishInv
<1>4. CASE Proceed
  BY <1>1, <1>4, FillInv, QueueWriteInv, WakeTaskInv, TakeBufferInv, ResetInv, WaitReturnsInv
  DEF Proceed
<1>5. ASSUME NEW r \in Runners, StartTask(r) \/ Task(r) PROVE OInv'
  BY <1>5, AroundInv, PopOpInv, WriteOpInv, WriteOpShortInv, FreeBufferInv, EndWritesInv,
     EndTaskInv DEF Task
<1>6. CASE UNCHANGED vars
  <2> USE <1>6 DEF vars, posVars, queueVars, taskVars, errorVars, saverVars, singularVars
  <2>1. Types'  BY DEF OInv, Types
  <2>2. SaverOK' /\ RunnersOK'  BY DEF OInv, SaverOK, RunnersOK
  <2>3. Apart' /\ Complete' /\ NumberOK'  BY BuffersStay
  <2>4. Looked' /\ DoneOK'  BY DEF OInv, Looked, DoneOK, NoTasks
  <2>5. Trouble => Trouble'  BY DEF Trouble
  <2>6. Content'  BY <2>5, ContentStays
  <2> QED  BY <2>1, <2>2, <2>3, <2>4, <2>6, <1>1 DEF OInv
<1> QED  BY <1>1, <1>2, <1>3, <1>4, <1>5, <1>6 DEF Next

LEMMA Invariance == Spec => [](SInv /\ OInv)
<1>1. Init => SInv /\ OInv
  BY InitInv, SingularInitInv DEF Init
<1> QED  BY <1>1, StepInv, PTL DEF Spec

\* The types, and no buffer is lost or in two places, whatever fails: of the
\* buffers one is the saver's unless it flushes, the others are free and empty,
\* queued, or being written.
THEOREM TypeCorrect == Spec => []TypeOK
<1> SUFFICES ASSUME SInv, OInv PROVE TypeOK
  BY Invariance, PTL
<1>1. /\ SingularTypeOK /\ NumberOK /\ Types
      /\ filePos \in 0 .. FileSize /\ bufferPos \in 0 .. FileSize
  BY OutputAssumption DEF SInv, OInv, Types, SaverOK
<1>2. ToSet(freeBuffers) = {freeBuffers[i] : i \in 1 .. Len(freeBuffers)}
      /\ ToSet(writeQueue) = {writeQueue[j] : j \in 1 .. Len(writeQueue)}
  <2>1. freeBuffers \in Seq(Buffers) /\ writeQueue \in Seq(Ops)  BY DEF OInv, Types
  <2> QED  BY <2>1 DEF ToSet
<1>3. Pending \subseteq Ops
  BY <1>2 DEF Pending, Writing, OInv, Types
<1>4. \A b \in ToSet(freeBuffers) : size[b] = 0
  BY <1>2 DEF OInv, Apart
<1>5. Buffers \subseteq ToSet(freeBuffers) \cup {o.buf : o \in Pending} \cup ({buffer} \ {None})
  <2> SUFFICES ASSUME NEW b \in Buffers
               PROVE  b \in ToSet(freeBuffers) \cup {o.buf : o \in Pending} \cup ({buffer} \ {None})
    OBVIOUS
  <2>1. Held(b) /\ b # None  BY Sentinels DEF OInv, Complete
  <2> QED  BY <1>2, <2>1 DEF Held, Pending, Writing
<1>6. ToSet(freeBuffers) \cup {o.buf : o \in Pending} \cup ({buffer} \ {None}) \subseteq Buffers
  <2>1. ToSet(freeBuffers) \subseteq Buffers  BY <1>1, <1>2 DEF Types
  <2>2. {o.buf : o \in Pending} \subseteq Buffers  BY <1>3 DEF Ops
  <2> QED  BY <1>1, <2>1, <2>2 DEF Types
<1> QED
  BY <1>1, <1>3, <1>4, <1>5, <1>6 DEF TypeOK, Types, NumberOK, Ops, Bytes

\* When Flush has returned and no error was posted the file holds, at every
\* position, what the saver last wrote there: with any number and size of
\* buffers, any number of threads that write them, and however it seeks.
THEOREM WrittenToFile == Spec => []FileIsWritten
<1> SUFFICES ASSUME SInv, OInv PROVE FileIsWritten
  BY Invariance, PTL
<1> SUFFICES ASSUME pc = "Done", ~posted PROVE file = written
  BY DEF FileIsWritten
<1>1. NoTasks /\ writeQueue = <<>> /\ ~errors  BY DEF OInv, DoneOK
<1>2. \A r \in Runners : ~failed[r] /\ stage[r] = "Pop"
  BY <1>1 DEF OInv, RunnersOK, NoTasks, Types
<1>3. ~Trouble  BY <1>1, <1>2 DEF Trouble
<1>4. ASSUME NEW p \in Positions PROVE file[p] = written[p]
  <2>1. size[buffer] = 0  BY DEF OInv, SaverOK
  <2>2. ~InBufferOfSaver(p)
    <3>1. p - bufferPos \in Int  BY OutputAssumption DEF OInv, Types, Positions
    <3> QED  BY <2>1, <3>1 DEF InBufferOfSaver
  <2>3. ~Covered(p, 0)  BY <1>1 DEF Covered
  <2>4. FileHolds(p)  BY <1>3 DEF OInv, Content
  <2> QED  BY <1>2, <2>2, <2>3, <2>4 DEF FileHolds
<1> QED  BY <1>4 DEF OInv, Types

=============================================================================
