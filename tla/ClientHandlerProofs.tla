------------------------- MODULE ClientHandlerProofs -------------------------
(***************************************************************************)
(* Theorems about ClientHandler, for any number of connections, workers    *)
(* and chunks, whatever happens to the tasks.                              *)
(***************************************************************************)
EXTENDS ClientHandler, Integers, TLAPS

LEMMA PoolStepCases ==
  ASSUME [PoolNext]_poolVars
  PROVE  \/ \E c \in Clients : Accept(c) \/ Hangup(c)
         \/ \E c \in Clients, p \in Payloads : Recv(c, p)
         \/ \E c \in Clients : PushTask(c)
         \/ \E c \in Clients : NotifyOne(c)
         \/ \E w \in Workers : WorkerWait(w) \/ SpuriousWake(w)
         \/ \E w \in Workers : WorkerTake(w)
         \/ \E w \in Workers : TaskEnd(w)
         \/ \E w \in Workers : TaskHang(w) \/ TaskCrash(w)
         \/ UNCHANGED poolVars
BY Zenon DEF PoolNext

-----------------------------------------------------------------------------
(* Types                                                                   *)

(* The types, with what makes them inductive: a chunk about to be enqueued *)
(* and a task being executed are there.                                    *)
PoolDataInv ==
  /\ rpc \in [Clients -> RecvPC]
  /\ recvStr \in [Clients -> Tasks \cup {NoTask}]
  /\ chunks \in [Clients -> 0..MaxChunks]
  /\ queue \in Seq(Tasks)
  /\ mtx \in Workers \cup {Free}
  /\ wpc \in [Workers -> WorkerPC]
  /\ task \in [Workers -> Tasks \cup {NoTask}]
  /\ done \in Seq(Tasks)
  /\ \A c \in Clients : rpc[c] = "enqueue" => recvStr[c] \in Tasks
  /\ \A w \in Workers : Busy(w) => task[w] \in Tasks

LEMMA PoolDataInit == PoolInit => PoolDataInv
BY BoundAssumption DEF PoolInit, PoolDataInv, RecvPC, WorkerPC, Busy

LEMMA PoolDataStep == PoolDataInv /\ [PoolNext]_poolVars => PoolDataInv'
<1> SUFFICES ASSUME PoolDataInv, [PoolNext]_poolVars PROVE PoolDataInv'
  OBVIOUS
<1> USE DEF PoolDataInv, Busy, RecvPC, WorkerPC
<1>1. ASSUME NEW c \in Clients, Accept(c) \/ Hangup(c) PROVE PoolDataInv'
  BY <1>1 DEF Accept, Hangup
<1>2. ASSUME NEW c \in Clients, NEW p \in Payloads, Recv(c, p) PROVE PoolDataInv'
  <2>1. chunks[c] + 1 \in 1..MaxChunks
    BY <1>2, BoundAssumption DEF Recv
  <2>2. [fd |-> c, n |-> chunks[c] + 1, cmd |-> p] \in Tasks
    BY <2>1 DEF Tasks
  <2>3. chunks' \in [Clients -> 0..MaxChunks]
    BY <1>2, <2>1, BoundAssumption DEF Recv
  <2> QED BY <1>2, <2>2, <2>3 DEF Recv
<1>3. ASSUME NEW c \in Clients, PushTask(c) PROVE PoolDataInv'
  BY <1>3 DEF PushTask
<1>4. ASSUME NEW c \in Clients, NotifyOne(c) PROVE PoolDataInv'
  BY <1>4 DEF NotifyOne
<1>5. ASSUME NEW w \in Workers, WorkerWait(w) \/ SpuriousWake(w) PROVE PoolDataInv'
  BY <1>5 DEF WorkerWait, SpuriousWake
<1>6. ASSUME NEW w \in Workers, WorkerTake(w) PROVE PoolDataInv'
  <2>1. Head(queue) \in Tasks /\ Tail(queue) \in Seq(Tasks)
    BY <1>6 DEF WorkerTake
  <2> QED BY <1>6, <2>1 DEF WorkerTake
<1>7. ASSUME NEW w \in Workers, TaskEnd(w) PROVE PoolDataInv'
  <2>1. Append(done, task[w]) \in Seq(Tasks)
    BY <1>7 DEF TaskEnd
  <2> QED BY <1>7, <2>1 DEF TaskEnd
<1>8. ASSUME NEW w \in Workers, TaskHang(w) PROVE PoolDataInv'
  BY <1>8 DEF TaskHang
<1>9. ASSUME NEW w \in Workers, TaskCrash(w) PROVE PoolDataInv'
  BY <1>9, Zenon DEF TaskCrash
<1>10. CASE UNCHANGED poolVars
  BY <1>10, Zenon DEF poolVars
<1> QED
  BY <1>1, <1>2, <1>3, <1>4, <1>5, <1>6, <1>7, <1>8, <1>9, <1>10, PoolStepCases, Zenon

LEMMA CrashedStep == crashed \in BOOLEAN /\ [PoolNext]_poolVars => (crashed \in BOOLEAN)'
BY PoolStepCases, Zenon
DEF Accept, Hangup, Recv, PushTask, NotifyOne, WorkerWait, SpuriousWake, WorkerTake,
    TaskEnd, TaskHang, TaskCrash, poolVars

(* The connection threads, the queue, mtx and the workers keep their       *)
(* types.                                                                  *)
THEOREM PoolTypeCorrect == PoolSpec => []PoolTypeOK
<1>1. PoolInit => crashed \in BOOLEAN
  BY Zenon DEF PoolInit
<1>2. PoolDataInv /\ crashed \in BOOLEAN => PoolTypeOK
  BY Zenon DEF PoolDataInv, PoolTypeOK
<1> QED BY PoolDataInit, <1>1, PoolDataStep, CrashedStep, <1>2, PTL DEF PoolSpec

-----------------------------------------------------------------------------
(* mtx                                                                     *)

(* mtx is owned by the worker that executes a task, from its pop to its    *)
(* end, and by nobody else between two steps.                              *)
MutexInv == \A w \in Workers : Busy(w) <=> mtx = w

LEMMA MutexInit == PoolInit => MutexInv
BY FreeAssumption DEF PoolInit, MutexInv, Busy

LEMMA MutexStep == PoolDataInv /\ MutexInv /\ [PoolNext]_poolVars => MutexInv'
<1> SUFFICES ASSUME PoolDataInv, MutexInv, [PoolNext]_poolVars PROVE MutexInv'
  OBVIOUS
<1>0. wpc \in [Workers -> WorkerPC]
  BY DEF PoolDataInv
<1> USE <1>0, FreeAssumption DEF MutexInv, Busy
<1>1. ASSUME NEW c \in Clients, Accept(c) \/ Hangup(c) \/ PushTask(c) PROVE MutexInv'
  BY <1>1 DEF Accept, Hangup, PushTask
<1>2. ASSUME NEW c \in Clients, NEW p \in Payloads, Recv(c, p) PROVE MutexInv'
  BY <1>2 DEF Recv
<1>3. ASSUME NEW c \in Clients, NotifyOne(c) PROVE MutexInv'
  BY <1>3 DEF NotifyOne
<1>4. ASSUME NEW w \in Workers, WorkerWait(w) \/ SpuriousWake(w) PROVE MutexInv'
  BY <1>4 DEF WorkerWait, SpuriousWake
<1>5. ASSUME NEW w \in Workers, WorkerTake(w) PROVE MutexInv'
  BY <1>5 DEF WorkerTake
<1>6. ASSUME NEW w \in Workers, TaskEnd(w) PROVE MutexInv'
  BY <1>6 DEF TaskEnd
<1>7. ASSUME NEW w \in Workers, TaskHang(w) PROVE MutexInv'
  BY <1>7 DEF TaskHang
<1>8. ASSUME NEW w \in Workers, TaskCrash(w) PROVE MutexInv'
  BY <1>8, Zenon DEF TaskCrash
<1>9. CASE UNCHANGED poolVars
  BY <1>9, Zenon DEF poolVars
<1> QED
  BY <1>1, <1>2, <1>3, <1>4, <1>5, <1>6, <1>7, <1>8, <1>9, PoolStepCases, Zenon

(* The pool never executes two tasks at once: the unlocked reads of the    *)
(* database and of the slave list in a command see no other command.       *)
THEOREM OneTask == PoolSpec => []OneTaskAtATime
<1>1. MutexInv => OneTaskAtATime
  BY DEF MutexInv, OneTaskAtATime
<1> QED BY PoolDataInit, MutexInit, PoolDataStep, MutexStep, <1>1, PTL DEF PoolSpec

-----------------------------------------------------------------------------
(* Wakeups                                                                 *)

LEMMA WakeupStep ==
  PoolDataInv /\ MutexInv /\ NoLostWakeup /\ [PoolNext]_poolVars => NoLostWakeup'
<1> SUFFICES ASSUME PoolDataInv, MutexInv, NoLostWakeup, [PoolNext]_poolVars,
                    mtx' = Free, queue' # <<>>
             PROVE  \/ \E w \in Workers : wpc'[w] = "lock"
                    \/ \E c \in Clients : rpc'[c] = "notify"
  BY Zenon DEF NoLostWakeup
<1>0. wpc \in [Workers -> WorkerPC] /\ rpc \in [Clients -> RecvPC]
  BY DEF PoolDataInv
<1> DEFINE Goal == \/ \E w \in Workers : wpc'[w] = "lock"
                   \/ \E c \in Clients : rpc'[c] = "notify"
<1> USE <1>0 DEF NoLostWakeup
<1>1. ASSUME NEW c \in Clients, Accept(c) \/ Hangup(c) PROVE Goal
  BY <1>1 DEF Accept, Hangup
<1>2. ASSUME NEW c \in Clients, NEW p \in Payloads, Recv(c, p) PROVE Goal
  BY <1>2 DEF Recv
<1>3. ASSUME NEW c \in Clients, PushTask(c) PROVE Goal
  BY <1>3 DEF PushTask
<1>4. ASSUME NEW c \in Clients, NotifyOne(c) PROVE Goal
  <2>1. CASE \A w \in Workers : wpc[w] # "waiting" /\ UNCHANGED wpc
    <3>1. PICK w \in Workers : TRUE
      BY WorkersAssumption
    <3>2. ~ Busy(w)
      BY <1>4, FreeAssumption DEF NotifyOne, MutexInv
    <3>3. wpc[w] = "lock"
      BY <2>1, <3>2 DEF Busy, WorkerPC
    <3> QED BY <2>1, <3>3
  <2>2. CASE \E w \in Workers : wpc' = [wpc EXCEPT ![w] = "lock"]
    BY <2>2
  <2> QED BY <1>4, <2>1, <2>2, Zenon DEF NotifyOne
<1>5. ASSUME NEW w \in Workers, WorkerWait(w) \/ SpuriousWake(w) PROVE Goal
  BY <1>5 DEF WorkerWait, SpuriousWake
<1>6. ASSUME NEW w \in Workers, WorkerTake(w) PROVE Goal
  BY <1>6, FreeAssumption DEF WorkerTake
<1>7. ASSUME NEW w \in Workers, TaskEnd(w) PROVE Goal
  BY <1>7 DEF TaskEnd
<1>8. ASSUME NEW w \in Workers, TaskHang(w) \/ TaskCrash(w) PROVE Goal
  <2>1. mtx = w /\ UNCHANGED mtx
    BY <1>8, Zenon DEF TaskHang, TaskCrash, MutexInv, Busy
  <2> QED BY <2>1, FreeAssumption
<1>9. CASE UNCHANGED poolVars
  BY <1>9, Zenon DEF poolVars
<1> QED
  BY <1>1, <1>2, <1>3, <1>4, <1>5, <1>6, <1>7, <1>8, <1>9, PoolStepCases, Zenon

(* No task stays queued with every worker asleep, although enqueueTask     *)
(* notifies after it has released mtx.                                     *)
THEOREM WakeupKept == PoolSpec => []NoLostWakeup
<1>1. PoolInit => NoLostWakeup
  BY DEF PoolInit, NoLostWakeup
<1> QED BY PoolDataInit, MutexInit, <1>1, PoolDataStep, MutexStep, WakeupStep, PTL DEF PoolSpec

-----------------------------------------------------------------------------
(* The order of the tasks                                                  *)

LEMMA TakeKeeps ==
  ASSUME NEW S, NEW d \in Seq(S), NEW q \in Seq(S), q # <<>>
  PROVE  d \o <<>> \o q = d \o <<Head(q)>> \o Tail(q)
OBVIOUS

LEMMA EndKeeps ==
  ASSUME NEW S, NEW d \in Seq(S), NEW q \in Seq(S), NEW t \in S
  PROVE  d \o <<t>> \o q = Append(d, t) \o <<>> \o q
OBVIOUS

LEMMA PushAppends ==
  ASSUME NEW S, NEW d \in Seq(S), NEW q \in Seq(S), NEW t \in S
  PROVE  d \o <<>> \o Append(q, t) = Append(d \o <<>> \o q, t)
OBVIOUS

(* Line holds, of each connection, the chunks enqueued so far, and the     *)
(* chunk a thread is about to enqueue is the next one of its connection.   *)
LineInv ==
  /\ ServedInOrder
  /\ \A i \in 1..Len(Line) : Line[i].n <= Enqueued(Line[i].fd)
  /\ \A c \in Clients : rpc[c] = "enqueue" =>
        recvStr[c].fd = c /\ recvStr[c].n = chunks[c]

LEMMA LineType ==
  ASSUME PoolDataInv, MutexInv
  PROVE  Line \in Seq(Tasks)
<1>1. mtx # Free => <<task[mtx]>> \in Seq(Tasks)
  BY DEF PoolDataInv, MutexInv
<1> QED BY <1>1 DEF Line, PoolDataInv

LEMMA TaskFields ==
  ASSUME NEW s \in Seq(Tasks), NEW i \in 1..Len(s)
  PROVE  s[i].fd \in Clients /\ s[i].n \in Nat
<1>1. s[i] \in Tasks
  OBVIOUS
<1> QED BY <1>1, BoundAssumption DEF Tasks

(* A step that moves no task past another and enqueues none.               *)
LEMMA SameLine ==
  ASSUME LineInv, Line' = Line,
         \A c \in Clients : Enqueued(c)' = Enqueued(c),
         PoolDataInv, MutexInv,
         \A c \in Clients : rpc'[c] = "enqueue" =>
           recvStr'[c].fd = c /\ recvStr'[c].n = chunks'[c]
  PROVE  LineInv'
<1>1. \A i \in 1..Len(Line) : Line[i].fd \in Clients
  BY LineType, TaskFields
<1>2. ServedInOrder'
  BY DEF LineInv, ServedInOrder, ChunksInOrder, ChunksKept
<1>3. (\A i \in 1..Len(Line) : Line[i].n <= Enqueued(Line[i].fd))'
  BY <1>1 DEF LineInv
<1> QED BY <1>2, <1>3, Zenon DEF LineInv

(* PushTask puts the next chunk of a connection at the end of Line.        *)
LEMMA LongerLine ==
  ASSUME PoolDataInv, MutexInv, LineInv, NEW c \in Clients, PushTask(c)
  PROVE  LineInv'
<1>0. /\ rpc \in [Clients -> RecvPC] /\ chunks \in [Clients -> 0..MaxChunks]
      /\ rpc[c] = "enqueue" /\ recvStr[c] \in Tasks /\ rpc' = [rpc EXCEPT ![c] = "notify"]
      /\ UNCHANGED <<recvStr, chunks>>
  BY DEF PoolDataInv, PushTask
<1>1. Line' = Append(Line, recvStr[c])
  <2>1. Line = done \o <<>> \o queue /\ Line' = done \o <<>> \o Append(queue, recvStr[c])
    BY DEF PushTask, Line
  <2> QED BY <2>1, <1>0, PushAppends DEF PoolDataInv
<1>2. Line \in Seq(Tasks)
  BY LineType
<1>3. /\ Len(Line) \in Nat /\ Len(Line') = Len(Line) + 1
      /\ \A i \in 1..Len(Line) : Line'[i] = Line[i]
      /\ Line'[Len(Line) + 1] = recvStr[c]
  BY <1>0, <1>1, <1>2
<1>4. \A i \in 1..Len(Line) : Line[i].fd \in Clients /\ Line[i].n \in Nat
  BY <1>2, TaskFields
<1>5. recvStr[c].fd = c /\ recvStr[c].n = chunks[c] /\ recvStr[c].n \in 1..MaxChunks
  BY <1>0 DEF LineInv, Tasks
<1>6. /\ Enqueued(c) = chunks[c] - 1 /\ Enqueued(c)' = chunks[c]
      /\ \A d \in Clients : d # c => Enqueued(d)' = Enqueued(d)
      /\ \A d \in Clients : Enqueued(d) \in Int
  BY <1>0, BoundAssumption DEF Enqueued
<1>7. ASSUME NEW i \in 1..(Len(Line) + 1) PROVE i \in 1..Len(Line) \/ i = Len(Line) + 1
  BY <1>3
<1>8. ChunksInOrder'
  <2> SUFFICES ASSUME NEW i \in 1..(Len(Line) + 1), NEW j \in 1..(Len(Line) + 1), i < j,
                      Line'[i].fd = Line'[j].fd
               PROVE  Line'[i].n < Line'[j].n
    BY <1>3 DEF ChunksInOrder
  <2>1. i \in 1..Len(Line)
    BY <1>3
  <2>2. CASE j \in 1..Len(Line)
    BY <2>1, <2>2, <1>3 DEF LineInv, ServedInOrder, ChunksInOrder
  <2>3. CASE j = Len(Line) + 1
    <3>1. Line[i].fd = c /\ Line[i].n <= Enqueued(Line[i].fd)
      BY <2>1, <2>3, <1>3, <1>5 DEF LineInv
    <3>2. Line[i].n <= chunks[c] - 1 /\ chunks[c] \in Nat
      BY <3>1, <1>0, <1>6, BoundAssumption
    <3> QED BY <3>2, <2>1, <2>3, <1>3, <1>4, <1>5
  <2> QED BY <1>7, <2>2, <2>3
<1>9. ChunksKept'
  <2> SUFFICES ASSUME NEW d \in Clients, NEW m \in 1..Enqueued(d)'
               PROVE  \E i \in 1..(Len(Line) + 1) : Line'[i].fd = d /\ Line'[i].n = m
    BY <1>3 DEF ChunksKept
  <2>1. CASE m \in 1..Enqueued(d)
    <3>1. PICK i \in 1..Len(Line) : Line[i].fd = d /\ Line[i].n = m
      BY <2>1 DEF LineInv, ServedInOrder, ChunksKept
    <3>2. i \in 1..(Len(Line) + 1)
      BY <1>3
    <3> QED BY <3>1, <3>2, <1>3
  <2>2. CASE d = c /\ m = chunks[c]
    <3>1. Len(Line) + 1 \in 1..(Len(Line) + 1)
      BY <1>3
    <3> QED BY <2>2, <3>1, <1>3, <1>5
  <2>3. m \in 1..Enqueued(d) \/ (d = c /\ m = chunks[c])
    BY <1>0, <1>6, BoundAssumption
  <2> QED BY <2>1, <2>2, <2>3
<1>10. ASSUME NEW i \in 1..(Len(Line) + 1), NEW d \in Clients, Line'[i].fd = d
       PROVE  Line'[i].n <= Enqueued(d)'
  <2>1. CASE i \in 1..Len(Line)
    <3>1. Line'[i].n <= Enqueued(d) /\ Line'[i].n \in Nat
      BY <2>1, <1>3, <1>4, <1>10 DEF LineInv
    <3>2. Enqueued(d) <= Enqueued(d)' /\ Enqueued(d)' \in Int
      BY <1>0, <1>6, BoundAssumption
    <3> QED BY <3>1, <3>2, <1>6
  <2>2. CASE i = Len(Line) + 1
    BY <2>2, <1>10, <1>0, <1>3, <1>5, <1>6, BoundAssumption
  <2> QED BY <1>7, <2>1, <2>2
<1>12. \A i \in 1..(Len(Line) + 1) : Line'[i].fd \in Clients
  BY <1>3, <1>4, <1>5, <1>7
<1>13. (\A i \in 1..Len(Line) : Line[i].n <= Enqueued(Line[i].fd))'
  BY <1>3, <1>10, <1>12, Zenon
<1>11. \A d \in Clients : rpc'[d] = "enqueue" =>
         recvStr'[d].fd = d /\ recvStr'[d].n = chunks'[d]
  BY <1>0 DEF LineInv
<1> QED BY <1>8, <1>9, <1>11, <1>13, Zenon DEF LineInv, ServedInOrder

LEMMA LineStep == PoolDataInv /\ MutexInv /\ LineInv /\ [PoolNext]_poolVars => LineInv'
<1> SUFFICES ASSUME PoolDataInv, MutexInv, LineInv, [PoolNext]_poolVars PROVE LineInv'
  OBVIOUS
<1>0. rpc \in [Clients -> RecvPC] /\ chunks \in [Clients -> 0..MaxChunks]
  BY DEF PoolDataInv
<1> DEFINE Held == \A c \in Clients : rpc'[c] = "enqueue" =>
                     recvStr'[c].fd = c /\ recvStr'[c].n = chunks'[c]
           SameEnqueued == \A c \in Clients : Enqueued(c)' = Enqueued(c)
<1> USE <1>0
<1>1. ASSUME NEW c \in Clients, Accept(c) \/ Hangup(c) PROVE LineInv'
  <2>1. Line' = Line
    BY <1>1, Zenon DEF Accept, Hangup, Line
  <2>2. SameEnqueued /\ Held
    BY <1>1 DEF Accept, Hangup, Enqueued, LineInv
  <2> QED BY <2>1, <2>2, SameLine
<1>2. ASSUME NEW c \in Clients, NEW p \in Payloads, Recv(c, p) PROVE LineInv'
  <2>1. Line' = Line
    BY <1>2, Zenon DEF Recv, Line
  <2>2. SameEnqueued
    BY <1>2 DEF Recv, Enqueued
  <2>3. Held
    BY <1>2 DEF Recv, LineInv, PoolDataInv
  <2> QED BY <2>1, <2>2, <2>3, SameLine
<1>3. ASSUME NEW c \in Clients, PushTask(c) PROVE LineInv'
  BY <1>3, LongerLine
<1>4. ASSUME NEW c \in Clients, NotifyOne(c) PROVE LineInv'
  <2>1. Line' = Line
    BY <1>4, Zenon DEF NotifyOne, Line
  <2>2. SameEnqueued /\ Held
    BY <1>4 DEF NotifyOne, Enqueued, LineInv
  <2> QED BY <2>1, <2>2, SameLine
<1>5. CASE UNCHANGED <<rpc, recvStr, chunks>> /\ Line' = Line
  <2>1. SameEnqueued /\ Held
    BY <1>5, Zenon DEF Enqueued, LineInv
  <2> QED BY <1>5, <2>1, SameLine
<1>6. ASSUME NEW w \in Workers, WorkerTake(w) PROVE LineInv'
  <2>1. Line = done \o <<>> \o queue /\ queue # <<>>
    BY <1>6 DEF WorkerTake, Line
  <2>2. Line' = done \o <<Head(queue)>> \o Tail(queue)
    BY <1>6, FreeAssumption DEF WorkerTake, Line, PoolDataInv
  <2>3. Line' = Line
    BY <2>1, <2>2, TakeKeeps DEF PoolDataInv
  <2> QED BY <1>5, <1>6, <2>3, Zenon DEF WorkerTake
<1>7. ASSUME NEW w \in Workers, TaskEnd(w) PROVE LineInv'
  <2>1. mtx = w /\ task[w] \in Tasks
    BY <1>7 DEF TaskEnd, MutexInv, Busy, PoolDataInv
  <2>2. Line = done \o <<task[w]>> \o queue
    BY <2>1, FreeAssumption DEF Line
  <2>3. Line' = Append(done, task[w]) \o <<>> \o queue
    BY <1>7 DEF TaskEnd, Line
  <2>4. Line' = Line
    BY <2>1, <2>2, <2>3, EndKeeps DEF PoolDataInv
  <2> QED BY <1>5, <1>7, <2>4, Zenon DEF TaskEnd
<1>8. CASE UNCHANGED <<rpc, recvStr, chunks, done, mtx, task, queue>>
  <2>1. Line' = Line
    BY <1>8 DEF Line
  <2> QED BY <1>5, <1>8, <2>1
<1> QED
  BY <1>1, <1>2, <1>3, <1>4, <1>6, <1>7, <1>8, PoolStepCases, Zenon
  DEF WorkerWait, SpuriousWake, TaskHang, TaskCrash, poolVars

(* Every chunk received is executed once and in the order of its           *)
(* connection, however connections, workers and wakeups interleave.        *)
THEOREM TasksServedInOrder == PoolSpec => []ServedInOrder
<1>1. PoolInit => LineInv
  <2> SUFFICES ASSUME PoolInit PROVE LineInv
    OBVIOUS
  <2>0. /\ done = <<>> /\ mtx = Free /\ queue = <<>>
        /\ rpc = [c \in Clients |-> "none"] /\ chunks = [c \in Clients |-> 0]
    BY Zenon DEF PoolInit
  <2>1. Line = <<>> /\ Len(Line) = 0
    BY <2>0 DEF Line
  <2>2. \A c \in Clients : Enqueued(c) = 0 /\ rpc[c] # "enqueue"
    BY <2>0 DEF Enqueued
  <2> QED BY <2>1, <2>2 DEF LineInv, ServedInOrder, ChunksInOrder, ChunksKept
<1>2. LineInv => ServedInOrder
  BY DEF LineInv
<1> QED
  BY PoolDataInit, MutexInit, <1>1, PoolDataStep, MutexStep, LineStep, <1>2, PTL DEF PoolSpec
=============================================================================
