---------------------------- MODULE ClientHandler ----------------------------
(***************************************************************************)
(* ClientHandler: one detached thread per connection that loops on recv()  *)
(* and turns every chunk of bytes into a task, a task queue behind `mtx'   *)
(* and `cv', and a pool of worker threads.  A worker executes its task     *)
(* while it still holds mtx (the unique_lock of worker_thread lives until  *)
(* the end of the loop body), so the pool runs one task at a time and      *)
(* enqueueTask blocks meanwhile.                                           *)
(*                                                                         *)
(* What a task does is left open here: it ends, it hangs (ResponseChannel: *)
(* a lost wakeup), or it takes the process down (an uncaught exception,    *)
(* SIGPIPE).  RedisServer refines the running task.                        *)
(***************************************************************************)
EXTENDS Naturals, Sequences, FiniteSets

CONSTANTS
  Clients,     \* connections; each accept() returns a fresh descriptor, never closed
  Workers,     \* the THREAD_POOL_SIZE threads
  Payloads,    \* what one recv() may return
  MaxChunks,   \* bound: chunks received on one connection
  TaskFates,   \* how tasks may go: a subset of {"ends", "hangs", "crashes"}
  Free, NoTask \* no owner of mtx; a worker without a task

Tasks == [fd : Clients, n : 1..MaxChunks, cmd : Payloads]

ASSUME WorkersAssumption == Workers # {}
ASSUME BoundAssumption   == MaxChunks \in Nat
ASSUME FreeAssumption    == Free \notin Workers
ASSUME NoTaskAssumption  == NoTask \notin Tasks

VARIABLES
  rpc,      \* control of the thread of each connection (client_handler)
  recvStr,  \* the chunk each connection's thread holds, as a task
  chunks,   \* number of chunks received on each connection
  queue,    \* task_queue
  mtx,      \* owner of mtx: the worker that is running a task, or Free
  wpc,      \* control of each worker (worker_thread)
  task,     \* the task each worker is running
  done,     \* history: the tasks finished, in order
  crashed   \* the process is gone

poolVars == <<rpc, recvStr, chunks, queue, mtx, wpc, task, done, crashed>>

RecvPC   == {"none", "recv", "enqueue", "notify", "closed"}
WorkerPC == {"lock", "waiting", "running", "hung"}

PoolInit ==
  /\ rpc = [c \in Clients |-> "none"]
  /\ recvStr = [c \in Clients |-> NoTask]
  /\ chunks = [c \in Clients |-> 0]
  /\ queue = <<>>
  /\ mtx = Free
  /\ wpc = [w \in Workers |-> "lock"]
  /\ task = [w \in Workers |-> NoTask]
  /\ done = <<>>
  /\ crashed = FALSE

-----------------------------------------------------------------------------
(* The connection threads: client_handler_thread, client_handler,          *)
(* enqueueTask                                                             *)

(* accept() in main, and the thread it starts and detaches.                *)
Accept(c) ==
  /\ rpc[c] = "none"
  /\ rpc' = [rpc EXCEPT ![c] = "recv"]
  /\ UNCHANGED <<recvStr, chunks, queue, mtx, wpc, task, done, crashed>>

Recv(c, p) ==
  /\ rpc[c] = "recv" /\ chunks[c] < MaxChunks
  /\ rpc' = [rpc EXCEPT ![c] = "enqueue"]
  /\ chunks' = [chunks EXCEPT ![c] = @ + 1]
  /\ recvStr' = [recvStr EXCEPT ![c] = [fd |-> c, n |-> chunks[c] + 1, cmd |-> p]]
  /\ UNCHANGED <<queue, mtx, wpc, task, done, crashed>>

(* recv() returns 0 or -1: the thread ends; the descriptor stays open.     *)
Hangup(c) ==
  /\ rpc[c] = "recv"
  /\ rpc' = [rpc EXCEPT ![c] = "closed"]
  /\ UNCHANGED <<recvStr, chunks, queue, mtx, wpc, task, done, crashed>>

M_PushFront(c) ==
  /\ rpc[c] = "enqueue" /\ mtx = Free
  /\ rpc' = [rpc EXCEPT ![c] = "notify"]
  /\ queue' = <<recvStr[c]>> \o queue
  /\ UNCHANGED <<recvStr, chunks, mtx, wpc, task, done, crashed>>

(* enqueueTask: the push, under mtx ...                                    *)
PushTask(c) ==
  /\ rpc[c] = "enqueue" /\ mtx = Free
  /\ rpc' = [rpc EXCEPT ![c] = "notify"]
  /\ queue' = Append(queue, recvStr[c])
  /\ UNCHANGED <<recvStr, chunks, mtx, wpc, task, done, crashed>>

M_NotifyNobody(c) ==
  /\ rpc[c] = "notify"
  /\ rpc' = [rpc EXCEPT ![c] = "recv"]
  /\ UNCHANGED <<recvStr, chunks, queue, mtx, wpc, task, done, crashed>>

(* ... and notify_one, after mtx is released.                              *)
NotifyOne(c) ==
  /\ rpc[c] = "notify"
  /\ rpc' = [rpc EXCEPT ![c] = "recv"]
  /\ \/ /\ \A w \in Workers : wpc[w] # "waiting"
        /\ UNCHANGED wpc
     \/ \E w \in Workers :
          /\ wpc[w] = "waiting"
          /\ wpc' = [wpc EXCEPT ![w] = "lock"]
  /\ UNCHANGED <<recvStr, chunks, queue, mtx, task, done, crashed>>

-----------------------------------------------------------------------------
(* The pool: worker_thread                                                 *)

(* cv.wait(lock, pred) finds no task: mtx is released and the worker       *)
(* sleeps; on waking it takes mtx and evaluates the predicate again.       *)
WorkerWait(w) ==
  /\ wpc[w] = "lock" /\ mtx = Free /\ queue = <<>>
  /\ wpc' = [wpc EXCEPT ![w] = "waiting"]
  /\ UNCHANGED <<rpc, recvStr, chunks, queue, mtx, task, done, crashed>>

SpuriousWake(w) ==
  /\ wpc[w] = "waiting"
  /\ wpc' = [wpc EXCEPT ![w] = "lock"]
  /\ UNCHANGED <<rpc, recvStr, chunks, queue, mtx, task, done, crashed>>

M_TakeAndUnlock(w) ==
  /\ wpc[w] = "lock" /\ mtx = Free /\ queue # <<>>
  /\ task' = [task EXCEPT ![w] = Head(queue)]
  /\ queue' = Tail(queue)
  /\ wpc' = [wpc EXCEPT ![w] = "running"]
  /\ UNCHANGED <<rpc, recvStr, chunks, mtx, done, crashed>>

(* The predicate holds: the worker pops a task and starts it, mtx held.    *)
WorkerTake(w) ==
  /\ wpc[w] = "lock" /\ mtx = Free /\ queue # <<>>
  /\ mtx' = w
  /\ task' = [task EXCEPT ![w] = Head(queue)]
  /\ queue' = Tail(queue)
  /\ wpc' = [wpc EXCEPT ![w] = "running"]
  /\ UNCHANGED <<rpc, recvStr, chunks, done, crashed>>

(* response_handler returns; the end of the loop body releases mtx.        *)
TaskEnd(w) ==
  /\ "ends" \in TaskFates
  /\ wpc[w] = "running"
  /\ wpc' = [wpc EXCEPT ![w] = "lock"]
  /\ mtx' = Free
  /\ task' = [task EXCEPT ![w] = NoTask]
  /\ done' = Append(done, task[w])
  /\ UNCHANGED <<rpc, recvStr, chunks, queue, crashed>>

(* A wakeup between the handler and its parser thread is lost.             *)
TaskHang(w) ==
  /\ "hangs" \in TaskFates
  /\ wpc[w] = "running"
  /\ wpc' = [wpc EXCEPT ![w] = "hung"]
  /\ UNCHANGED <<rpc, recvStr, chunks, queue, mtx, task, done, crashed>>

(* The parser thread throws, or a send raises SIGPIPE.                     *)
TaskCrash(w) ==
  /\ "crashes" \in TaskFates
  /\ wpc[w] = "running"
  /\ crashed' = TRUE
  /\ UNCHANGED <<rpc, recvStr, chunks, queue, mtx, wpc, task, done>>

-----------------------------------------------------------------------------
PoolNext ==
  /\ ~crashed
  /\ \/ \E c \in Clients : Accept(c) \/ Hangup(c) \/ PushTask(c) \/ NotifyOne(c)
     \/ \E c \in Clients, p \in Payloads : Recv(c, p)
     \/ \E w \in Workers : WorkerWait(w) \/ SpuriousWake(w) \/ WorkerTake(w)
     \/ \E w \in Workers : TaskEnd(w) \/ TaskHang(w) \/ TaskCrash(w)

PoolSpec == PoolInit /\ [][PoolNext]_poolVars

-----------------------------------------------------------------------------
(* Properties                                                              *)

(* The types of the threads' control, the queue, mtx and the tasks.        *)
PoolTypeOK ==
  /\ rpc \in [Clients -> RecvPC]
  /\ recvStr \in [Clients -> Tasks \cup {NoTask}]
  /\ chunks \in [Clients -> 0..MaxChunks]
  /\ queue \in Seq(Tasks)
  /\ mtx \in Workers \cup {Free}
  /\ wpc \in [Workers -> WorkerPC]
  /\ task \in [Workers -> Tasks \cup {NoTask}]
  /\ done \in Seq(Tasks)
  /\ crashed \in BOOLEAN

Busy(w) == wpc[w] \in {"running", "hung"}

(* Two tasks never run at the same time.  DatabaseHandler::get, KEYS, and  *)
(* the slave list have no lock of their own that would protect them.       *)
OneTaskAtATime == \A v, w \in Workers : Busy(v) /\ Busy(w) => v = w

(* Every chunk handed to enqueueTask, in the order it is or will be        *)
(* executed: finished, running, queued.                                    *)
Line == done \o (IF mtx = Free THEN <<>> ELSE <<task[mtx]>>) \o queue

Enqueued(c) == IF rpc[c] = "enqueue" THEN chunks[c] - 1 ELSE chunks[c]

(* Tasks are neither lost, nor executed twice, nor reordered: the chunks   *)
(* of a connection are executed in the order they were received, each      *)
(* once, although connections, workers and wakeups interleave freely.      *)
ChunksInOrder ==
  \A i, j \in 1..Len(Line) :
    i < j /\ Line[i].fd = Line[j].fd => Line[i].n < Line[j].n
ChunksKept ==
  \A c \in Clients : \A n \in 1..Enqueued(c) :
    \E i \in 1..Len(Line) : Line[i].fd = c /\ Line[i].n = n
ServedInOrder == ChunksInOrder /\ ChunksKept

(* No task is left in the queue with every worker asleep: when mtx is free *)
(* and a task is queued, some worker is about to look at the queue or a    *)
(* connection's thread is about to wake one.                               *)
NoLostWakeup ==
  mtx = Free /\ queue # <<>> =>
    \/ \E w \in Workers : wpc[w] = "lock"
    \/ \E c \in Clients : rpc[c] = "notify"

(* Every chunk received is executed to its end, unless a task hangs or     *)
(* takes the process down.                                                 *)
ServedUnlessHung ==
  \A c \in Clients : \A n \in 1..MaxChunks :
    chunks[c] = n ~>
      \/ \E i \in 1..Len(done) : done[i].fd = c /\ done[i].n = n
      \/ \E w \in Workers : wpc[w] = "hung"
      \/ crashed
=============================================================================
