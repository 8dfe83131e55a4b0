-------------------------- MODULE RedisServerProofs --------------------------
(***************************************************************************)
(* Theorems about RedisServer.  The server implements the pool, so what    *)
(* ClientHandlerProofs shows of the pool holds of it: one task at a time.  *)
(* The consistency of the unlocked shared state rests on that alone.       *)
(***************************************************************************)
EXTENDS RedisServer, ClientHandlerProofs, Streams

LEMMA CommandKeepsPool ==
  ASSUME NEW w \in Workers, CommandStep(w)
  PROVE  UNCHANGED poolVars
BY Zenon
DEF CommandStep, Reads, ParseECHO, ParsePING, ParseREPLCONF, ParseUnknown, ParseCONFIG,
    ParseINFO, ParseKEYS, IgnoreText, FindKey, FetchKey, EraseKey, ParseSET, ForwardToSlave,
    EndForward, ReadSlaveCount, StoreSlaveCount, AddSlave, PSYNCOnSlave, SendReply

LEMMA PoolStepOfServer == [Next]_vars => [PoolNext]_poolVars
<1> SUFFICES ASSUME [Next]_vars PROVE PoolNext \/ UNCHANGED poolVars
  OBVIOUS
<1>1. ASSUME NEW c \in Clients, ConnectionStep(c), ~crashed PROVE PoolNext
  BY <1>1, Zenon DEF ConnectionStep, PoolNext
<1>2. ASSUME NEW w \in Workers, IdleStep(w) \/ BeginTask(w) \/ EndTask(w) \/ FailTask(w), ~crashed
      PROVE  PoolNext
  BY <1>2, Zenon DEF IdleStep, BeginTask, EndTask, FailTask, PoolNext
<1>3. CASE Tick \/ SetClockBack \/ UNCHANGED vars
  BY <1>3, Zenon DEF Tick, SetClockBack, vars
<1> QED BY <1>1, <1>2, <1>3, CommandKeepsPool, Zenon DEF Next

(* The server implements the pool: the steps of a command leave the pool   *)
(* alone, the others are steps of the pool.                                *)
THEOREM ServerImplementsPool == Spec => PoolSpec
<1>1. Init => PoolInit
  BY Zenon DEF Init
<1> QED BY <1>1, PoolStepOfServer, PTL DEF Spec, PoolSpec

-----------------------------------------------------------------------------
(* The kinds of steps                                                      *)

(* Steps of connections and idle workers, and the end of a task: no task   *)
(* begins, and none ends between the two updates of a PSYNC.               *)
Quiet ==
  /\ UNCHANGED svars
  /\ \A w \in Workers : wpc'[w] = "running" => wpc[w] = "running" /\ task'[w] = task[w]
  /\ \A w \in Workers : At(w, "addFd") => wpc'[w] = "running"

(* The commands that only read.                                            *)
ReadCommand(w) == \E op \in Ops \ {"GET", "SET"} : \E r : Reads(w, op, r)

LEMMA QuietSteps ==
  ASSUME PoolDataInv, [Next]_vars,
         \/ \E c \in Clients : ConnectionStep(c)
         \/ \E w \in Workers : IdleStep(w) \/ EndTask(w) \/ FailTask(w)
         \/ UNCHANGED vars
  PROVE  Quiet
<1>0. wpc \in [Workers -> WorkerPC] /\ task \in [Workers -> Tasks \cup {NoTask}]
  BY DEF PoolDataInv
<1> DEFINE Kept ==
             /\ \A w \in Workers :
                  wpc'[w] = "running" => wpc[w] = "running" /\ task'[w] = task[w]
             /\ \A w \in Workers : At(w, "addFd") => wpc'[w] = "running"
<1> USE DEF At
<1>1. ASSUME NEW c \in Clients, ConnectionStep(c) PROVE Quiet
  <2>1. UNCHANGED svars
    BY <1>1, Zenon DEF ConnectionStep
  <2>2. CASE UNCHANGED <<wpc, task>>
    BY <2>1, <2>2, Zenon DEF Quiet
  <2>3. CASE NotifyOne(c)
    BY <1>0, <2>1, <2>3 DEF NotifyOne, Quiet
  <2> QED
    BY <1>1, <2>2, <2>3, Zenon DEF ConnectionStep, Accept, Hangup, PushTask, Recv
<1>2. ASSUME NEW w \in Workers, IdleStep(w) PROVE Quiet
  <2>1. UNCHANGED svars
    BY <1>2, Zenon DEF IdleStep
  <2>2. Kept
    BY <1>0, <1>2 DEF IdleStep, WorkerWait, SpuriousWake
  <2> QED BY <2>1, <2>2, Zenon DEF Quiet
<1>3. ASSUME NEW w \in Workers, EndTask(w) PROVE Quiet
  <2>1. UNCHANGED svars
    BY <1>3, Zenon DEF EndTask
  <2>2. Kept
    BY <1>0, <1>3 DEF EndTask, TaskEnd
  <2> QED BY <2>1, <2>2, Zenon DEF Quiet
<1>4. ASSUME NEW w \in Workers, FailTask(w) PROVE Quiet
  <2>1. UNCHANGED svars
    BY <1>4, Zenon DEF FailTask
  <2>2. CASE TaskHang(w) /\ lpc[w] # "addFd"
    BY <1>0, <2>1, <2>2 DEF TaskHang, Quiet
  <2>3. CASE TaskCrash(w)
    BY <2>1, <2>3, Zenon DEF TaskCrash, Quiet
  <2>4. lpc[w] \in {"start", "reply"} \/ Replied(w) => lpc[w] # "addFd"
    BY DEF Replied
  <2> QED BY <1>4, <2>2, <2>3, <2>4, Zenon DEF FailTask
<1>5. CASE UNCHANGED vars
  BY <1>5, Zenon DEF vars, poolVars, Quiet
<1> QED BY <1>1, <1>2, <1>3, <1>4, <1>5, Zenon

LEMMA ServerCases ==
  ASSUME PoolDataInv, [Next]_vars
  PROVE  \/ Quiet
         \/ Tick \/ SetClockBack
         \/ \E w \in Workers : BeginTask(w)
         \/ \E w \in Workers : ReadCommand(w)
         \/ \E w \in Workers : IgnoreText(w) \/ EndForward(w)
         \/ \E w \in Workers : FindKey(w)
         \/ \E w \in Workers : FetchKey(w)
         \/ \E w \in Workers : EraseKey(w)
         \/ \E w \in Workers : ParseSET(w)
         \/ \E w \in Workers : ForwardToSlave(w)
         \/ \E w \in Workers : ReadSlaveCount(w)
         \/ \E w \in Workers : StoreSlaveCount(w)
         \/ \E w \in Workers : AddSlave(w)
         \/ \E w \in Workers : SendReply(w)
<1>1. ASSUME NEW w \in Workers,
             \/ ParseECHO(w) \/ ParsePING(w) \/ ParseREPLCONF(w) \/ ParseUnknown(w)
             \/ ParseCONFIG(w) \/ ParseINFO(w) \/ ParseKEYS(w) \/ PSYNCOnSlave(w)
      PROVE  ReadCommand(w)
  <2>1. {"ECHO", "PING", "REPLCONF", "UNKNOWN", "CONFIG", "INFO", "KEYS", "PSYNC"}
          \subseteq Ops \ {"GET", "SET"}
    BY DEF Ops
  <2> QED
    BY <1>1, <2>1, Zenon
    DEF ReadCommand, ParseECHO, ParsePING, ParseREPLCONF, ParseUnknown, ParseCONFIG,
        ParseINFO, ParseKEYS, PSYNCOnSlave
<1> QED BY <1>1, QuietSteps, Zenon DEF Next, CommandStep

-----------------------------------------------------------------------------
(* Types                                                                   *)

LEMMA CmdType ==
  ASSUME PoolDataInv, NEW w \in Workers, wpc[w] = "running"
  PROVE  Cmd(w) \in Commands /\ task[w].fd \in Clients
<1>1. task[w] \in Tasks
  BY DEF PoolDataInv, Busy
<1> QED BY <1>1, CommandsAssumption DEF Tasks, Cmd

LEMMA LocalsStep ==
  ASSUME PoolDataInv, SlavesOK, LocalsOK, [Next]_vars
  PROVE  LocalsOK'
<1> USE DEF LocalsOK, StepPC, Goto, Answer
<1>1. CASE Quiet
  BY <1>1, Zenon DEF Quiet, svars
<1>2. CASE Tick \/ SetClockBack
  BY <1>2 DEF Tick, SetClockBack, locals, shared
<1>3. ASSUME NEW w \in Workers, BeginTask(w) PROVE LocalsOK'
  BY <1>3 DEF BeginTask, shared
<1>4. ASSUME NEW w \in Workers, ReadCommand(w) PROVE LocalsOK'
  BY <1>4 DEF ReadCommand, Reads, shared
<1>5. ASSUME NEW w \in Workers, IgnoreText(w) \/ EndForward(w) PROVE LocalsOK'
  BY <1>5 DEF IgnoreText, EndForward, shared
<1>6. ASSUME NEW w \in Workers, FindKey(w) PROVE LocalsOK'
  BY <1>6 DEF FindKey, AnswerNil
<1>7. ASSUME NEW w \in Workers, FetchKey(w) PROVE LocalsOK'
  BY <1>7 DEF FetchKey
<1>8. ASSUME NEW w \in Workers, EraseKey(w) PROVE LocalsOK'
  BY <1>8 DEF EraseKey, AnswerNil
<1>9. ASSUME NEW w \in Workers, ParseSET(w) PROVE LocalsOK'
  BY <1>9 DEF ParseSET
<1>10. ASSUME NEW w \in Workers, ForwardToSlave(w) PROVE LocalsOK'
  BY <1>10 DEF ForwardToSlave
<1>11. ASSUME NEW w \in Workers, ReadSlaveCount(w) PROVE LocalsOK'
  BY <1>11 DEF ReadSlaveCount, SlavesOK, shared
<1>12. ASSUME NEW w \in Workers, StoreSlaveCount(w) \/ AddSlave(w) PROVE LocalsOK'
  BY <1>12 DEF StoreSlaveCount, AddSlave
<1>13. ASSUME NEW w \in Workers, SendReply(w) PROVE LocalsOK'
  BY <1>13 DEF SendReply
<1> QED
  BY <1>1, <1>2, <1>3, <1>4, <1>5, <1>6, <1>7, <1>8, <1>9, <1>10, <1>11, <1>12, <1>13,
     ServerCases, Zenon

LEMMA StoreStep ==
  ASSUME PoolDataInv, StoreOK, [Next]_vars
  PROVE  StoreOK'
<1> USE DEF StoreOK
<1>1. CASE Quiet
  BY <1>1, Zenon DEF Quiet, svars
<1>2. CASE Tick \/ SetClockBack
  <2>1. UNCHANGED <<database, latest, gone>>
    BY <1>2, Zenon DEF Tick, SetClockBack, shared
  <2>2. now' \in Nat /\ highest' \in Nat
    BY <1>2 DEF Tick, SetClockBack
  <2> QED BY <2>1, <2>2
<1>3. ASSUME NEW w \in Workers, \/ BeginTask(w) \/ ReadCommand(w) \/ IgnoreText(w)
                                 \/ EndForward(w) \/ ReadSlaveCount(w)
      PROVE  StoreOK'
  BY <1>3, Zenon
  DEF BeginTask, ReadCommand, Reads, IgnoreText, EndForward, ReadSlaveCount, shared, clock
<1>4. ASSUME NEW w \in Workers,
             ForwardToSlave(w) \/ StoreSlaveCount(w) \/ AddSlave(w) \/ SendReply(w)
      PROVE  StoreOK'
  BY <1>4, Zenon DEF ForwardToSlave, StoreSlaveCount, AddSlave, SendReply, clock
<1>5. ASSUME NEW w \in Workers, FetchKey(w) PROVE StoreOK'
  <2>1. Cmd(w).key \in Keys
    BY <1>5, CmdType DEF FetchKey, At, Commands
  <2>2. EntryOf(Cmd(w).key) \in Entries
    BY <2>1, EmptyAssumption DEF EntryOf, Entries
  <2> QED BY <1>5, <2>2 DEF FetchKey, clock
<1>6. ASSUME NEW w \in Workers, FindKey(w) \/ EraseKey(w) PROVE StoreOK'
  <2>1. Cmd(w).key \in Keys
    BY <1>6, CmdType DEF FindKey, EraseKey, Starts, At, Commands
  <2> QED BY <1>6, <2>1 DEF FindKey, EraseKey, AnswerNil, clock
<1>7. ASSUME NEW w \in Workers, ParseSET(w) PROVE StoreOK'
  <2>1. Cmd(w) \in Commands
    BY <1>7, CmdType DEF ParseSET, Starts, At
  <2>2. Cmd(w).px = <<>> \/ Cmd(w).px[1] \in Nat
    BY <2>1 DEF Commands
  <2>3. [value |-> Cmd(w).val, expiry_time |-> ExpiryTime(Cmd(w))] \in Entries
    BY <2>1, <2>2 DEF Commands, Entries, ExpiryTime
  <2> QED BY <1>7, <2>3 DEF ParseSET, clock
<1> QED
  BY <1>1, <1>2, <1>3, <1>4, <1>5, <1>6, <1>7, ServerCases, Zenon

LEMMA SlavesStep ==
  ASSUME PoolDataInv, SlavesOK, LocalsOK, [Next]_vars
  PROVE  SlavesOK'
<1> USE DEF SlavesOK
<1>1. CASE Quiet
  BY <1>1, Zenon DEF Quiet, svars
<1>2. CASE Tick \/ SetClockBack
  BY <1>2, Zenon DEF Tick, SetClockBack, shared
<1>3. ASSUME NEW w \in Workers, \/ BeginTask(w) \/ ReadCommand(w) \/ IgnoreText(w)
                                 \/ EndForward(w) \/ FindKey(w) \/ ReadSlaveCount(w)
      PROVE  SlavesOK'
  BY <1>3, Zenon
  DEF BeginTask, ReadCommand, Reads, IgnoreText, EndForward, FindKey, ReadSlaveCount, shared
<1>4. ASSUME NEW w \in Workers, ForwardToSlave(w) \/ FetchKey(w) \/ EraseKey(w) \/ SendReply(w)
      PROVE  SlavesOK'
  BY <1>4, Zenon DEF ForwardToSlave, FetchKey, EraseKey, SendReply
<1>5. ASSUME NEW w \in Workers, ParseSET(w) PROVE SlavesOK'
  <2>1. Cmd(w) \in Commands
    BY <1>5, CmdType DEF ParseSET, Starts, At
  <2> QED BY <1>5, <2>1 DEF ParseSET
<1>6. ASSUME NEW w \in Workers, StoreSlaveCount(w) PROVE SlavesOK'
  BY <1>6 DEF StoreSlaveCount, LocalsOK
<1>7. ASSUME NEW w \in Workers, AddSlave(w) PROVE SlavesOK'
  <2>1. task[w].fd \in Clients
    BY <1>7, CmdType DEF AddSlave, At
  <2> QED BY <1>7, <2>1 DEF AddSlave
<1> QED
  BY <1>1, <1>2, <1>3, <1>4, <1>5, <1>6, <1>7, ServerCases, Zenon

ServerInv == PoolDataInv /\ MutexInv /\ StoreOK /\ SlavesOK /\ LocalsOK

LEMMA ServerInit == Init => ServerInv
<1> SUFFICES ASSUME Init PROVE ServerInv
  OBVIOUS
<1>1. PoolDataInv /\ MutexInv
  BY PoolDataInit, MutexInit, Zenon DEF Init
<1>2. StoreOK
  BY DEF Init, StoreOK
<1>3. SlavesOK
  BY DEF Init, SlavesOK
<1>4. LocalsOK
  BY DEF Init, LocalsOK, StepPC
<1> QED BY <1>1, <1>2, <1>3, <1>4 DEF ServerInv

LEMMA ServerStep == ServerInv /\ [Next]_vars => ServerInv'
BY PoolStepOfServer, PoolDataStep, MutexStep, LocalsStep, StoreStep, SlavesStep, Zenon
DEF ServerInv

(* The database, the slave list and the locals of the tasks keep their     *)
(* types through every command.                                            *)
THEOREM ServerTypeCorrect == Spec => []ServerTypeOK
<1>1. Init => crashed \in BOOLEAN
  BY Zenon DEF Init, PoolInit
<1>2. crashed \in BOOLEAN /\ [Next]_vars => (crashed \in BOOLEAN)'
  BY PoolStepOfServer, CrashedStep
<1>3. ServerInv /\ crashed \in BOOLEAN => ServerTypeOK
  BY Zenon DEF ServerInv, ServerTypeOK, PoolDataInv, PoolTypeOK
<1> QED BY ServerInit, <1>1, ServerStep, <1>2, <1>3, PTL DEF Spec

-----------------------------------------------------------------------------
(* One command at a time                                                   *)

LEMMA Alone ==
  ASSUME ServerInv, NEW v \in Workers, NEW w \in Workers, wpc[v] = "running", wpc[w] = "running"
  PROVE  v = w
BY DEF ServerInv, MutexInv, Busy

(* When a worker takes a task no other is executing one.                   *)
LEMMA NoneRunning ==
  ASSUME ServerInv, NEW w \in Workers, BeginTask(w), NEW v \in Workers
  PROVE  wpc[v] # "running" /\ (v # w => wpc'[v] # "running")
BY FreeAssumption DEF BeginTask, WorkerTake, ServerInv, PoolDataInv, MutexInv, Busy

(* What a step of the command of w leaves alone of the other tasks.        *)
OthersIdle(w) ==
  \A v \in Workers \ {w} : wpc[v] # "running" /\ wpc'[v] # "running"

LEMMA CommandAlone ==
  ASSUME ServerInv, NEW w \in Workers, wpc[w] = "running", UNCHANGED poolVars
  PROVE  OthersIdle(w) /\ wpc'[w] = "running" /\ task' = task
<1>1. wpc' = wpc /\ task' = task
  BY Zenon DEF poolVars
<1>2. \A v \in Workers \ {w} : wpc[v] # "running"
  BY Alone
<1> QED BY <1>1, <1>2 DEF OthersIdle

-----------------------------------------------------------------------------
(* The slave list                                                          *)

(* The count is ahead of the list exactly between the two updates of a     *)
(* PSYNC, and the count a PSYNC has read is current when it is stored.     *)
SlaveInv ==
  /\ \A w \in Workers : At(w, "addFd") => connected_slaves = Len(slave_fds) + 1
  /\ (\A w \in Workers : ~At(w, "addFd")) => connected_slaves = Len(slave_fds)
  /\ \A w \in Workers : At(w, "count") => tmp[w] = connected_slaves
  /\ \A w \in Workers : At(w, "count") \/ At(w, "addFd") => Cmd(w).op = "PSYNC"

LEMMA SlaveKept ==
  ASSUME ServerInv, SlaveInv, NEW w \in Workers, wpc[w] = "running", UNCHANGED poolVars,
         lpc[w] # "addFd", lpc'[w] \notin {"count", "addFd"},
         UNCHANGED <<connected_slaves, slave_fds>>
  PROVE  SlaveInv'
<1>1. OthersIdle(w) /\ wpc'[w] = "running"
  BY CommandAlone
<1>2. \A v \in Workers : ~At(v, "addFd")
  BY <1>1 DEF OthersIdle, At
<1>3. \A v \in Workers : ~At(v, "addFd")' /\ ~At(v, "count")'
  BY <1>1 DEF OthersIdle, At
<1> QED BY <1>2, <1>3, Zenon DEF SlaveInv

LEMMA SlaveStep == ServerInv /\ SlaveInv /\ [Next]_vars => SlaveInv'
<1> SUFFICES ASSUME ServerInv, SlaveInv, [Next]_vars PROVE SlaveInv'
  OBVIOUS
<1>0. lpc \in [Workers -> StepPC] /\ tmp \in [Workers -> Nat] /\ PoolDataInv
  BY DEF ServerInv, LocalsOK
<1>1. CASE Quiet
  <2>1. UNCHANGED <<connected_slaves, slave_fds, lpc, tmp>>
    BY <1>1, Zenon DEF Quiet, svars
  <2>2. \A w \in Workers : /\ At(w, "addFd")' => At(w, "addFd") /\ Cmd(w)' = Cmd(w)
                           /\ At(w, "count")' => At(w, "count") /\ Cmd(w)' = Cmd(w)
                           /\ At(w, "addFd") => At(w, "addFd")'
    BY <1>1, <2>1, Zenon DEF Quiet, At, Cmd
  <2> QED BY <2>1, <2>2, Zenon DEF SlaveInv
<1>2. CASE Tick \/ SetClockBack
  <2>1. UNCHANGED <<connected_slaves, slave_fds, lpc, tmp, wpc, task>>
    BY <1>2, Zenon DEF Tick, SetClockBack, shared, locals, poolVars
  <2> QED BY <2>1, Zenon DEF SlaveInv, At, Cmd
<1>3. ASSUME NEW w \in Workers, BeginTask(w) PROVE SlaveInv'
  <2>1. UNCHANGED <<connected_slaves, slave_fds>> /\ lpc' = [lpc EXCEPT ![w] = "start"]
    BY <1>3, Zenon DEF BeginTask, shared, Goto
  <2>2. \A v \in Workers : ~At(v, "addFd") /\ ~At(v, "addFd")' /\ ~At(v, "count")'
    BY <1>0, <1>3, <2>1, NoneRunning DEF At
  <2> QED BY <2>1, <2>2, Zenon DEF SlaveInv
<1>4. ASSUME NEW w \in Workers, ReadCommand(w) \/ IgnoreText(w) \/ EndForward(w) \/ FindKey(w)
      PROVE  SlaveInv'
  <2>1. UNCHANGED <<poolVars, connected_slaves, slave_fds>>
    BY <1>4, Zenon DEF ReadCommand, Reads, IgnoreText, EndForward, FindKey, shared
  <2>2. wpc[w] = "running" /\ lpc[w] # "addFd" /\ lpc'[w] \notin {"count", "addFd"}
    BY <1>0, <1>4
    DEF ReadCommand, Reads, IgnoreText, EndForward, FindKey, Starts, At, Answer, AnswerNil, Goto
  <2> QED BY <2>1, <2>2, SlaveKept, Zenon
<1>5. ASSUME NEW w \in Workers,
             FetchKey(w) \/ EraseKey(w) \/ ParseSET(w) \/ ForwardToSlave(w) \/ SendReply(w)
      PROVE  SlaveInv'
  <2>1. UNCHANGED <<poolVars, connected_slaves, slave_fds>>
    BY <1>5, Zenon DEF FetchKey, EraseKey, ParseSET, ForwardToSlave, SendReply
  <2>2. wpc[w] = "running" /\ lpc[w] # "addFd" /\ lpc'[w] \notin {"count", "addFd"}
    BY <1>0, <1>5
    DEF FetchKey, EraseKey, ParseSET, ForwardToSlave, SendReply, Starts, At, Answer, AnswerNil, Goto
  <2> QED BY <2>1, <2>2, SlaveKept, Zenon
<1>6. ASSUME NEW w \in Workers, ReadSlaveCount(w) PROVE SlaveInv'
  <2>1. /\ At(w, "start") /\ Cmd(w).op = "PSYNC" /\ UNCHANGED poolVars
        /\ UNCHANGED <<connected_slaves, slave_fds>>
    BY <1>6, Zenon DEF ReadSlaveCount, Starts, shared
  <2>2. tmp'[w] = connected_slaves /\ lpc'[w] = "count"
    BY <1>0, <1>6 DEF ReadSlaveCount, Goto
  <2>3. OthersIdle(w) /\ task' = task
    BY <2>1, CommandAlone DEF At
  <2>4. \A v \in Workers : ~At(v, "addFd") /\ ~At(v, "addFd")' /\ (At(v, "count")' => v = w)
    BY <2>1, <2>2, <2>3 DEF OthersIdle, At
  <2> QED BY <2>1, <2>2, <2>3, <2>4, Zenon DEF SlaveInv, Cmd
<1>7. ASSUME NEW w \in Workers, StoreSlaveCount(w) PROVE SlaveInv'
  <2>1. /\ At(w, "count") /\ UNCHANGED poolVars /\ connected_slaves' = tmp[w] + 1
        /\ UNCHANGED slave_fds
    BY <1>7, Zenon DEF StoreSlaveCount
  <2>2. lpc'[w] = "addFd"
    BY <1>0, <1>7 DEF StoreSlaveCount, Goto
  <2>3. OthersIdle(w) /\ task' = task /\ wpc'[w] = "running"
    BY <2>1, CommandAlone DEF At
  <2>4. \A v \in Workers : ~At(v, "addFd") /\ ~At(v, "count")' /\ (At(v, "addFd")' <=> v = w)
    BY <2>1, <2>2, <2>3 DEF OthersIdle, At
  <2>5. connected_slaves' = Len(slave_fds') + 1 /\ Cmd(w).op = "PSYNC"
    BY <2>1, <2>4 DEF SlaveInv
  <2> QED BY <2>3, <2>4, <2>5, Zenon DEF SlaveInv, Cmd
<1>8. ASSUME NEW w \in Workers, AddSlave(w) PROVE SlaveInv'
  <2>1. /\ At(w, "addFd") /\ UNCHANGED poolVars /\ UNCHANGED connected_slaves
        /\ slave_fds' = Append(slave_fds, task[w].fd)
    BY <1>8, Zenon DEF AddSlave
  <2>2. lpc'[w] = "reply"
    BY <1>0, <1>8 DEF AddSlave, Answer, Goto
  <2>3. OthersIdle(w)
    BY <2>1, CommandAlone DEF At
  <2>4. \A v \in Workers : ~At(v, "count")' /\ ~At(v, "addFd")'
    BY <2>2, <2>3 DEF OthersIdle, At
  <2>5. connected_slaves' = Len(slave_fds')
    BY <2>1, CmdType, <1>0 DEF SlaveInv, ServerInv, SlavesOK, At
  <2> QED BY <2>4, <2>5, Zenon DEF SlaveInv
<1> QED
  BY <1>0, <1>1, <1>2, <1>3, <1>4, <1>5, <1>6, <1>7, <1>8, ServerCases, Zenon

LEMMA SlaveInit == Init => SlaveInv
<1> SUFFICES ASSUME Init PROVE SlaveInv
  OBVIOUS
<1>1. connected_slaves = Len(slave_fds) /\ \A w \in Workers : lpc[w] = "end"
  BY DEF Init
<1> QED BY <1>1 DEF SlaveInv, At

(* PSYNC's unlocked read, increment and store of the count, and its        *)
(* push_back, are never interleaved with another PSYNC or with the loop    *)
(* that propagates a SET: the loop never indexes past the vector.          *)
THEOREM SlaveListSafe == Spec => []SlaveListConsistent
<1>1. ServerInv /\ SlaveInv => SlaveListConsistent
  <2> SUFFICES ASSUME ServerInv, SlaveInv, NEW w \in Workers, At(w, "forward"),
                      tmp[w] < connected_slaves
               PROVE  tmp[w] < Len(slave_fds)
    BY Zenon DEF SlaveInv, SlaveListConsistent
  <2>1. \A v \in Workers : ~At(v, "addFd")
    BY Alone DEF At
  <2> QED BY <2>1 DEF SlaveInv
<1> QED BY ServerInit, SlaveInit, ServerStep, SlaveStep, <1>1, PTL DEF Spec

-----------------------------------------------------------------------------
(* The database                                                            *)

(* What GET found stays as it found it until GET has used it.              *)
StoreInv ==
  /\ \A k \in Keys :
       \/ database[k] = latest[k]
       \/ database[k] = NoEntry /\ latest[k] \in Entries /\ Expired(latest[k])
  /\ \A w \in Workers : At(w, "fetch") => database[Cmd(w).key] # NoEntry
  /\ \A w \in Workers : At(w, "erase") =>
       database[Cmd(w).key] # NoEntry /\ Expired(database[Cmd(w).key])
  /\ \A k \in gone : database[k] = NoEntry
  /\ now <= highest

LEMMA StoreKept ==
  ASSUME ServerInv, StoreInv, NEW w \in Workers, wpc[w] = "running", UNCHANGED poolVars,
         lpc'[w] \notin {"fetch", "erase"}, UNCHANGED <<database, latest, clock>>,
         gone' = gone \/ (gone' = gone \cup {Cmd(w).key} /\ database[Cmd(w).key] = NoEntry)
  PROVE  StoreInv'
<1>1. OthersIdle(w)
  BY CommandAlone
<1>2. \A v \in Workers : ~At(v, "fetch")' /\ ~At(v, "erase")'
  BY <1>1 DEF OthersIdle, At
<1>3. UNCHANGED <<now, highest>>
  BY Zenon DEF clock
<1>4. \A k \in gone' : database'[k] = NoEntry
  BY DEF StoreInv
<1> QED BY <1>2, <1>3, <1>4, Zenon DEF StoreInv, Expired, Live

(* An expired entry stays expired.                                         *)
LEMMA ExpiredStays ==
  ASSUME NEW e \in Entries, highest \in Nat, highest' \in Nat, highest' >= highest, Expired(e)
  PROVE  Expired(e)'
BY DEF Entries, Expired, Live

LEMMA StoreInvStep == ServerInv /\ StoreInv /\ [Next]_vars => StoreInv'
<1> SUFFICES ASSUME ServerInv, StoreInv, [Next]_vars PROVE StoreInv'
  OBVIOUS
<1>0. /\ lpc \in [Workers -> StepPC] /\ PoolDataInv /\ now \in Nat /\ highest \in Nat
      /\ gone \subseteq Keys /\ database \in [Keys -> Entries \cup {NoEntry}]
      /\ latest \in [Keys -> Entries \cup {NoEntry}]
  BY DEF ServerInv, LocalsOK, StoreOK
<1>1. CASE Quiet
  <2>1. UNCHANGED <<database, latest, gone, now, highest, lpc>>
    BY <1>1, Zenon DEF Quiet, svars
  <2>2. \A w \in Workers : /\ At(w, "fetch")' => At(w, "fetch") /\ Cmd(w)' = Cmd(w)
                           /\ At(w, "erase")' => At(w, "erase") /\ Cmd(w)' = Cmd(w)
    BY <1>1, <2>1, Zenon DEF Quiet, At, Cmd
  <2> QED BY <2>1, <2>2, Zenon DEF StoreInv, Expired, Live
<1>2. CASE Tick \/ SetClockBack
  <2>1. UNCHANGED <<database, latest, gone, lpc, wpc, task>>
    BY <1>2, Zenon DEF Tick, SetClockBack, shared, locals, poolVars
  <2>0. highest' \in Nat /\ highest' >= highest /\ now' <= highest'
    BY <1>0, <1>2 DEF Tick, SetClockBack, StoreInv
  <2>2. ASSUME NEW k \in Keys
        PROVE  (\/ database[k] = latest[k]
                \/ database[k] = NoEntry /\ latest[k] \in Entries /\ Expired(latest[k]))'
    BY <1>0, <2>0, <2>1, ExpiredStays DEF StoreInv
  <2>3. ASSUME NEW w \in Workers, At(w, "erase")'
        PROVE  (database[Cmd(w).key] # NoEntry /\ Expired(database[Cmd(w).key]))'
    <3>1. At(w, "erase") /\ Cmd(w)' = Cmd(w)
      BY <2>1, <2>3, Zenon DEF At, Cmd
    <3>2. Cmd(w).key \in Keys
      BY <1>0, <3>1, CmdType DEF At, Commands
    <3>3. database[Cmd(w).key] \in Entries /\ Expired(database[Cmd(w).key])
      BY <1>0, <3>1, <3>2 DEF StoreInv
    <3> QED BY <1>0, <2>0, <2>1, <3>1, <3>3, ExpiredStays, NoEntryAssumption
  <2>4. \A w \in Workers : At(w, "fetch")' => (database[Cmd(w).key] # NoEntry)'
    BY <2>1, Zenon DEF StoreInv, At, Cmd
  <2>5. \A k \in gone' : database'[k] = NoEntry
    BY <2>1, Zenon DEF StoreInv
  <2> QED BY <2>0, <2>2, <2>3, <2>4, <2>5, Zenon DEF StoreInv
<1>3. ASSUME NEW w \in Workers, BeginTask(w) PROVE StoreInv'
  <2>1. UNCHANGED <<database, latest, gone, now, highest>> /\ lpc' = [lpc EXCEPT ![w] = "start"]
    BY <1>3, Zenon DEF BeginTask, shared, clock, Goto
  <2>2. \A v \in Workers : ~At(v, "fetch")' /\ ~At(v, "erase")'
    BY <1>0, <1>3, <2>1, NoneRunning DEF At
  <2> QED BY <2>1, <2>2, Zenon DEF StoreInv, Expired, Live
<1>4. ASSUME NEW w \in Workers,
             ReadCommand(w) \/ IgnoreText(w) \/ EndForward(w) \/ ReadSlaveCount(w)
      PROVE  StoreInv'
  <2>1. UNCHANGED <<poolVars, database, latest, gone, clock>>
    BY <1>4, Zenon DEF ReadCommand, Reads, IgnoreText, EndForward, ReadSlaveCount, shared
  <2>2. wpc[w] = "running" /\ lpc'[w] \notin {"fetch", "erase"}
    BY <1>0, <1>4
    DEF ReadCommand, Reads, IgnoreText, EndForward, ReadSlaveCount, Starts, At, Answer, Goto
  <2> QED BY <2>1, <2>2, StoreKept, Zenon
<1>5. ASSUME NEW w \in Workers,
             ForwardToSlave(w) \/ StoreSlaveCount(w) \/ AddSlave(w) \/ SendReply(w)
      PROVE  StoreInv'
  <2>1. UNCHANGED <<poolVars, database, latest, gone, clock>>
    BY <1>5, Zenon DEF ForwardToSlave, StoreSlaveCount, AddSlave, SendReply
  <2>2. wpc[w] = "running" /\ lpc'[w] \notin {"fetch", "erase"}
    BY <1>0, <1>5 DEF ForwardToSlave, StoreSlaveCount, AddSlave, SendReply, At, Answer, Goto
  <2> QED BY <2>1, <2>2, StoreKept, Zenon
<1>6. ASSUME NEW w \in Workers, FindKey(w) PROVE StoreInv'
  <2>1. UNCHANGED <<poolVars, database, latest, clock>> /\ wpc[w] = "running"
    BY <1>6, Zenon DEF FindKey, Starts, At
  <2>2. \/ /\ lpc'[w] = "reply" /\ database[Cmd(w).key] = NoEntry
           /\ gone' = gone \cup {Cmd(w).key}
        \/ lpc'[w] = "fetch" /\ database[Cmd(w).key] # NoEntry /\ gone' = gone
    BY <1>0, <1>6 DEF FindKey, AnswerNil, Answer, Goto
  <2>3. CASE lpc'[w] = "reply"
    BY <2>1, <2>2, <2>3, StoreKept
  <2>4. CASE lpc'[w] = "fetch" /\ database[Cmd(w).key] # NoEntry /\ gone' = gone
    <3>1. OthersIdle(w) /\ task' = task /\ UNCHANGED <<now, highest>>
      BY <2>1, CommandAlone DEF clock
    <3>2. \A v \in Workers : ~At(v, "erase")' /\ (At(v, "fetch")' => v = w)
      BY <2>4, <3>1 DEF OthersIdle, At
    <3> QED BY <2>1, <2>4, <3>1, <3>2, Zenon DEF StoreInv, Expired, Live, Cmd
  <2> QED BY <2>2, <2>3, <2>4
<1>7. ASSUME NEW w \in Workers, FetchKey(w) PROVE StoreInv'
  <2>1. UNCHANGED <<poolVars, latest, gone, clock>> /\ At(w, "fetch")
    BY <1>7, Zenon DEF FetchKey
  <2>2. EntryOf(Cmd(w).key) = database[Cmd(w).key] /\ database[Cmd(w).key] # NoEntry
    BY <2>1 DEF EntryOf, StoreInv
  <2>3. database' = database
    BY <1>0, <1>7, <2>2 DEF FetchKey
  <2>4. Cmd(w).key \in Keys
    BY <1>0, <2>1, CmdType DEF At, Commands
  <2>5. \/ lpc'[w] = "reply"
        \/ lpc'[w] = "erase" /\ ~Live(database[Cmd(w).key], now)
    BY <1>0, <1>7, <2>2 DEF FetchKey, Answer, Goto
  <2>6. ~Live(database[Cmd(w).key], now) => Expired(database[Cmd(w).key])
    BY <1>0, <2>2, <2>4 DEF Expired, Live, Entries, StoreInv
  <2>7. CASE lpc'[w] = "reply"
    BY <2>1, <2>3, <2>7, StoreKept DEF At
  <2>8. CASE lpc'[w] = "erase" /\ Expired(database[Cmd(w).key])
    <3>1. OthersIdle(w) /\ task' = task /\ UNCHANGED <<now, highest>>
      BY <2>1, CommandAlone DEF At, clock
    <3>2. \A v \in Workers : ~At(v, "fetch")' /\ (At(v, "erase")' => v = w)
      BY <2>8, <3>1 DEF OthersIdle, At
    <3> QED BY <2>1, <2>2, <2>3, <2>8, <3>1, <3>2, Zenon DEF StoreInv, Expired, Live, Cmd
  <2> QED BY <2>5, <2>6, <2>7, <2>8
<1>8. ASSUME NEW w \in Workers, EraseKey(w) PROVE StoreInv'
  <2>1. /\ UNCHANGED <<poolVars, latest, now, highest>> /\ At(w, "erase")
        /\ database' = [database EXCEPT ![Cmd(w).key] = NoEntry]
        /\ gone' = gone \cup {Cmd(w).key}
    BY <1>8, Zenon DEF EraseKey, AnswerNil, clock
  <2>2. lpc'[w] = "reply"
    BY <1>0, <1>8 DEF EraseKey, AnswerNil, Answer, Goto
  <2>3. Cmd(w).key \in Keys
    BY <1>0, <2>1, CmdType DEF At, Commands
  <2>4. latest[Cmd(w).key] \in Entries /\ Expired(latest[Cmd(w).key])
    BY <1>0, <2>1, <2>3 DEF StoreInv
  <2>5. OthersIdle(w)
    BY <2>1, CommandAlone DEF At
  <2>6. \A v \in Workers : ~At(v, "fetch")' /\ ~At(v, "erase")'
    BY <2>2, <2>5 DEF OthersIdle, At
  <2>7. ASSUME NEW k \in Keys
        PROVE  (\/ database[k] = latest[k]
                \/ database[k] = NoEntry /\ latest[k] \in Entries /\ Expired(latest[k]))'
    BY <1>0, <2>1, <2>4 DEF StoreInv, Expired, Live
  <2>8. \A k \in gone' : database'[k] = NoEntry
    BY <1>0, <2>1, <2>3 DEF StoreInv
  <2> QED BY <2>1, <2>6, <2>7, <2>8, Zenon DEF StoreInv
<1>9. ASSUME NEW w \in Workers, ParseSET(w) PROVE StoreInv'
  <2>1. /\ UNCHANGED <<poolVars, now, highest>> /\ wpc[w] = "running"
        /\ gone' = gone \ {Cmd(w).key}
        /\ \E e : /\ database' = [database EXCEPT ![Cmd(w).key] = e]
                  /\ latest' = [latest EXCEPT ![Cmd(w).key] = e]
    BY <1>9, Zenon DEF ParseSET, Starts, At, clock
  <2>2. lpc'[w] = "reply"
    BY <1>0, <1>9 DEF ParseSET, Answer, Goto
  <2>3. OthersIdle(w)
    BY <2>1, CommandAlone
  <2>4. \A v \in Workers : ~At(v, "fetch")' /\ ~At(v, "erase")'
    BY <2>2, <2>3 DEF OthersIdle, At
  <2>5. ASSUME NEW k \in Keys
        PROVE  (\/ database[k] = latest[k]
                \/ database[k] = NoEntry /\ latest[k] \in Entries /\ Expired(latest[k]))'
    BY <1>0, <2>1 DEF StoreInv, Expired, Live
  <2>6. \A k \in gone' : database'[k] = NoEntry
    BY <1>0, <2>1 DEF StoreInv
  <2> QED BY <2>1, <2>4, <2>5, <2>6, Zenon DEF StoreInv
<1> QED
  BY <1>0, <1>1, <1>2, <1>3, <1>4, <1>5, <1>6, <1>7, <1>8, <1>9, ServerCases, Zenon

LEMMA StoreInvInit == Init => StoreInv
<1> SUFFICES ASSUME Init PROVE StoreInv
  OBVIOUS
<1>1. /\ database = latest /\ gone = {} /\ now <= highest
      /\ \A w \in Workers : lpc[w] = "end"
  BY DEF Init
<1> QED BY <1>1 DEF StoreInv, At

(* The erase of an expired entry in DatabaseHandler::get, which takes no   *)
(* lock, never removes what a SET has stored since the entry was read.     *)
THEOREM FreshKeysKept == Spec => []NoFreshKeyErased
<1>1. StoreInv => NoFreshKeyErased
  BY DEF StoreInv, NoFreshKeyErased
<1> QED BY ServerInit, StoreInvInit, ServerStep, StoreInvStep, <1>1, PTL DEF Spec

(* The answer of a GET, decided in this step, is the current one, and nil  *)
(* if it was nil before.                                                   *)
GetAnswered(w) ==
  Answers(w) =>
    LET e == latest[Cmd(w).key] IN
      /\ \/ answer'[w] = Nil /\ (e = NoEntry \/ Expired(e))
         \/ answer'[w] = Bulk(e.value) /\ e # NoEntry /\ Live(e, now)
      /\ Cmd(w).key \in gone => answer'[w] = Nil

LEMMA GetStep ==
  ASSUME ServerInv, SlaveInv, StoreInv, [Next]_vars, NEW w \in Workers
  PROVE  GetAnswered(w)
<1> DEFINE e == latest[Cmd(w).key]
<1> SUFFICES ASSUME Running(w, "GET"), lpc[w] # "reply", lpc'[w] = "reply"
             PROVE  /\ \/ answer'[w] = Nil /\ (e = NoEntry \/ Expired(e))
                       \/ answer'[w] = Bulk(e.value) /\ e # NoEntry /\ Live(e, now)
                    /\ Cmd(w).key \in gone => answer'[w] = Nil
  BY Zenon DEF GetAnswered, Answers
<1>0. /\ lpc \in [Workers -> StepPC] /\ PoolDataInv /\ DOMAIN answer = Workers
      /\ Cmd(w).key \in Keys /\ wpc[w] = "running" /\ Cmd(w).op = "GET"
  BY CmdType DEF ServerInv, LocalsOK, Running, Commands
<1>1. ~Quiet /\ ~Tick /\ ~SetClockBack
  BY Zenon DEF Quiet, svars, Tick, SetClockBack, locals
<1>2. \A v \in Workers : ~BeginTask(v)
  BY <1>0, NoneRunning
<1>3. \A v \in Workers :
        ReadCommand(v) \/ IgnoreText(v) \/ ParseSET(v) \/ ReadSlaveCount(v) => v # w
  BY <1>0, Zenon DEF ReadCommand, Reads, IgnoreText, ParseSET, ReadSlaveCount, Starts
<1>4. ASSUME NEW v \in Workers,
             \/ ReadCommand(v) \/ IgnoreText(v) \/ EndForward(v) \/ ParseSET(v)
             \/ ForwardToSlave(v) \/ ReadSlaveCount(v) \/ StoreSlaveCount(v) \/ AddSlave(v)
             \/ SendReply(v) \/ FindKey(v) \/ FetchKey(v) \/ EraseKey(v)
      PROVE  v = w
  <2>1. wpc[v] = "running"
    BY <1>4, Zenon
    DEF ReadCommand, Reads, IgnoreText, EndForward, ParseSET, ForwardToSlave, ReadSlaveCount,
        StoreSlaveCount, AddSlave, SendReply, FindKey, FetchKey, EraseKey, Starts, At
  <2> QED BY <1>0, <2>1, Alone
<1>5. ~EndForward(w) /\ ~ForwardToSlave(w)
  BY <1>0 DEF EndForward, ForwardToSlave, Goto
<1>6. ~StoreSlaveCount(w) /\ ~AddSlave(w)
  BY <1>0 DEF StoreSlaveCount, AddSlave, At, SlaveInv
<1>7. ~SendReply(w)
  BY Zenon DEF SendReply, At
<1>8. FindKey(w) \/ FetchKey(w) \/ EraseKey(w)
  BY <1>0, <1>1, <1>2, <1>3, <1>4, <1>5, <1>6, <1>7, ServerCases, Zenon
<1>9. CASE FindKey(w)
  <2>1. database[Cmd(w).key] = NoEntry /\ answer'[w] = Nil
    BY <1>0, <1>9 DEF FindKey, AnswerNil, Answer, Goto
  <2>2. latest[Cmd(w).key] = NoEntry \/ Expired(latest[Cmd(w).key])
    BY <1>0, <2>1 DEF StoreInv
  <2> QED BY <2>1, <2>2
<1>10. CASE FetchKey(w)
  <2>1. /\ EntryOf(Cmd(w).key) = latest[Cmd(w).key] /\ latest[Cmd(w).key] # NoEntry
        /\ Cmd(w).key \notin gone
    BY <1>0, <1>10 DEF FetchKey, EntryOf, StoreInv
  <2>2. /\ Live(latest[Cmd(w).key], now)
        /\ answer'[w] = Bulk(latest[Cmd(w).key].value)
    BY <1>0, <1>10, <2>1 DEF FetchKey, Answer, Goto
  <2> QED BY <2>1, <2>2
<1>11. CASE EraseKey(w)
  <2>1. answer'[w] = Nil
    BY <1>0, <1>11 DEF EraseKey, AnswerNil, Answer
  <2>2. Expired(latest[Cmd(w).key])
    BY <1>0, <1>11 DEF EraseKey, StoreInv
  <2> QED BY <2>1, <2>2
<1> QED BY <1>8, <1>9, <1>10, <1>11

(* GET answers with the value of the last SET of its key, or with nil once *)
(* that has expired, although it reads, re-reads and erases without a lock *)
(* and the clock may be set back meanwhile.                                *)
THEOREM GetAnswersCurrent == Spec => GetAnswerCurrent
<1>1. ServerInv /\ SlaveInv /\ StoreInv /\ [Next]_vars
        => [\A w \in Workers : Answers(w) =>
              LET e == latest[Cmd(w).key] IN
                \/ answer'[w] = Nil /\ (e = NoEntry \/ Expired(e))
                \/ answer'[w] = Bulk(e.value) /\ e # NoEntry /\ Live(e, now)]_vars
  BY GetStep, Zenon DEF GetAnswered
<1> QED
  BY ServerInit, SlaveInit, StoreInvInit, ServerStep, SlaveStep, StoreInvStep, <1>1, PTL
  DEF Spec, GetAnswerCurrent

(* What GET has answered nil for was erased: it does not come back when    *)
(* the clock is set back, only with the next SET.                          *)
THEOREM NilStaysNil == Spec => NilUntilSet
<1>1. ServerInv /\ SlaveInv /\ StoreInv /\ [Next]_vars
        => [\A w \in Workers :
              Answers(w) /\ Cmd(w).key \in gone => answer'[w] = Nil]_vars
  BY GetStep, Zenon DEF GetAnswered
<1> QED
  BY ServerInit, SlaveInit, StoreInvInit, ServerStep, SlaveStep, StoreInvStep, <1>1, PTL
  DEF Spec, NilUntilSet

-----------------------------------------------------------------------------
(* What is written to a connection                                         *)

(* The RDB file has been written to c; it is still owed to a slave that is *)
(* registered while the task of its PSYNC waits for the reply to be sent.  *)
HasRdb(c) == \E j \in 1..Len(out[c]) : out[c][j] = RdbFile
Owes(w, c) ==
  Busy(w) /\ lpc[w] = "reply" /\ answer[w] \in {FullResync, RdbFile} /\ task[w].fd = c

OutInv ==
  /\ \A c \in Clients : IsSeq(out[c])
  /\ \A w \in Workers : answer[w][1] # "set"
  /\ RdbBeforeCommands
  /\ \A n \in 1..Len(slave_fds) :
       HasRdb(slave_fds[n]) \/ \E w \in Workers : Owes(w, slave_fds[n])

(* The steps that neither write nor register.                              *)
Silent == UNCHANGED <<out, slave_fds>> /\ \A w \in Workers : answer'[w][1] # "set"

LEMMA SilentKeepsOut ==
  ASSUME OutInv, Silent,
         \A w \in Workers : \A c \in Clients : Owes(w, c) => Owes(w, c)', SlavesOK
  PROVE  OutInv'
<1>1. \A n \in 1..Len(slave_fds) : slave_fds[n] \in Clients
  BY DEF SlavesOK
<1>2. \A c \in Clients : HasRdb(c)' <=> HasRdb(c)
  BY DEF Silent, HasRdb
<1>3. RdbBeforeCommands' <=> RdbBeforeCommands
  BY Zenon DEF Silent, RdbBeforeCommands
<1>4. ASSUME NEW n \in 1..Len(slave_fds)
      PROVE  HasRdb(slave_fds[n])' \/ \E w \in Workers : Owes(w, slave_fds[n])'
  <2>1. slave_fds[n] \in Clients /\ slave_fds' = slave_fds
    BY <1>1 DEF Silent
  <2> QED BY <1>2, <2>1 DEF OutInv, Silent
<1>5. \A c \in Clients : IsSeq(out'[c])
  BY DEF OutInv, Silent
<1>6. \A n \in 1..Len(slave_fds)' :
        HasRdb(slave_fds[n])' \/ \E w \in Workers : Owes(w, slave_fds[n])'
  BY <1>4 DEF Silent
<1> QED BY <1>3, <1>5, <1>6 DEF OutInv, Silent

(* A step of the pool: it leaves a task that waits for its reply alone.    *)
LEMMA PoolStepKeepsOut ==
  ASSUME ServerInv, OutInv, UNCHANGED svars,
         \/ \E c \in Clients : ConnectionStep(c)
         \/ \E w \in Workers : IdleStep(w) \/ EndTask(w) \/ FailTask(w)
         \/ UNCHANGED poolVars
  PROVE  OutInv'
<1>0. wpc \in [Workers -> WorkerPC] /\ task \in [Workers -> Tasks \cup {NoTask}] /\ SlavesOK
  BY DEF ServerInv, PoolDataInv
<1>1. UNCHANGED <<out, slave_fds, lpc, answer>>
  BY Zenon DEF svars
<1>2. Silent
  BY <1>1 DEF Silent, OutInv
<1>3. ASSUME NEW w \in Workers, Busy(w), lpc[w] = "reply"
      PROVE  Busy(w)' /\ task'[w] = task[w]
  <2>1. ASSUME NEW c \in Clients, ConnectionStep(c) PROVE Busy(w)' /\ task'[w] = task[w]
    <3>1. CASE UNCHANGED <<wpc, task>>
      BY <1>3, <3>1 DEF Busy
    <3>2. CASE NotifyOne(c)
      BY <1>0, <1>3, <3>2 DEF NotifyOne, Busy
    <3> QED BY <2>1, <3>1, <3>2, Zenon DEF ConnectionStep, Accept, Hangup, PushTask, Recv
  <2>2. ASSUME NEW v \in Workers, IdleStep(v) PROVE Busy(w)' /\ task'[w] = task[w]
    BY <1>0, <1>3, <2>2 DEF IdleStep, WorkerWait, SpuriousWake, Busy
  <2>3. ASSUME NEW v \in Workers, EndTask(v) PROVE Busy(w)' /\ task'[w] = task[w]
    BY <1>0, <1>3, <2>3 DEF EndTask, TaskEnd, Busy
  <2>4. ASSUME NEW v \in Workers, FailTask(v) PROVE Busy(w)' /\ task'[w] = task[w]
    BY <1>0, <1>3, <2>4 DEF FailTask, TaskHang, TaskCrash, Busy
  <2>5. CASE UNCHANGED poolVars
    BY <1>3, <2>5 DEF poolVars, Busy
  <2> QED BY <2>1, <2>2, <2>3, <2>4, <2>5
<1>4. \A w \in Workers : \A c \in Clients : Owes(w, c) => Owes(w, c)'
  BY <1>1, <1>3 DEF Owes
<1> QED BY <1>0, <1>2, <1>4, SilentKeepsOut

(* The task that runs waits for no reply: every slave has its file.        *)
LEMMA NoneOwed ==
  ASSUME ServerInv, OutInv,
         \/ \E w \in Workers : wpc[w] = "running" /\ lpc[w] # "reply"
         \/ mtx = Free
  PROVE  /\ \A w \in Workers : \A c \in Clients : ~Owes(w, c)
         /\ \A n \in 1..Len(slave_fds) : HasRdb(slave_fds[n])
<1>1. \A v \in Workers : Busy(v) => lpc[v] # "reply"
  BY FreeAssumption DEF ServerInv, MutexInv, Busy
<1>2. \A n \in 1..Len(slave_fds) : slave_fds[n] \in Clients
  BY DEF ServerInv, SlavesOK
<1> QED BY <1>1, <1>2 DEF Owes, OutInv

LEMMA SilentCommands ==
  ASSUME ServerInv, OutInv, NEW w \in Workers,
         \/ ParseECHO(w) \/ ParsePING(w) \/ ParseREPLCONF(w) \/ ParseUnknown(w)
         \/ ParseCONFIG(w) \/ ParseINFO(w) \/ ParseKEYS(w) \/ IgnoreText(w)
         \/ FindKey(w) \/ FetchKey(w) \/ EraseKey(w) \/ ParseSET(w) \/ EndForward(w)
         \/ ReadSlaveCount(w) \/ StoreSlaveCount(w) \/ PSYNCOnSlave(w) \/ BeginTask(w)
  PROVE  OutInv'
<1>0. DOMAIN answer = Workers /\ SlavesOK
  BY DEF ServerInv, LocalsOK
<1>1. UNCHANGED <<out, slave_fds>>
  BY Zenon
  DEF ParseECHO, ParsePING, ParseREPLCONF, ParseUnknown, ParseCONFIG, ParseINFO, ParseKEYS,
      IgnoreText, FindKey, FetchKey, EraseKey, ParseSET, EndForward, ReadSlaveCount,
      StoreSlaveCount, PSYNCOnSlave, BeginTask, Reads, shared
<1>2. ASSUME NEW r, r[1] # "set", answer' = [answer EXCEPT ![w] = r] PROVE Silent
  BY <1>0, <1>1, <1>2 DEF Silent, OutInv
<1>3. ASSUME answer' = answer PROVE Silent
  BY <1>1, <1>3 DEF Silent, OutInv
<1>4. Silent
  <2>1. \A v : Bulk(v)[1] # "set" /\ Simple(v)[1] # "set"
    BY DEF Bulk, Simple
  <2>2. Nil[1] # "set" /\ FullResync[1] # "set"
    BY DEF Nil, FullResync
  <2>3. CASE ParseECHO(w) \/ ParsePING(w) \/ ParseREPLCONF(w) \/ ParseUnknown(w) \/ PSYNCOnSlave(w)
    BY <1>2, <2>1, <2>2, <2>3
    DEF ParseECHO, ParsePING, ParseREPLCONF, ParseUnknown, PSYNCOnSlave, Reads, Answer
  <2>4. CASE ParseCONFIG(w) \/ ParseINFO(w) \/ ParseKEYS(w)
    <3>1. PICK r : answer' = [answer EXCEPT ![w] = r] /\ r[1] \in {"config", "info", "array", "nil"}
      <4>1. CASE ParseCONFIG(w)
        <5>1. Nil[1] = "nil" /\ <<"config", Cmd(w).key>>[1] = "config"
          BY DEF Nil
        <5> QED BY <4>1, <5>1 DEF ParseCONFIG, Reads, Answer
      <4>2. CASE ParseINFO(w)
        <5>1. <<"info", connected_slaves>>[1] = "info"
          OBVIOUS
        <5> QED BY <4>2, <5>1 DEF ParseINFO, Reads, Answer
      <4>3. CASE ParseKEYS(w)
        <5> DEFINE r == <<"array", {k \in Matches[Cmd(w).key] : database[k] # NoEntry}>>
        <5>1. r[1] = "array"
          OBVIOUS
        <5>2. answer' = [answer EXCEPT ![w] = r]
          BY <4>3, Zenon DEF ParseKEYS, Reads, Answer
        <5> QED BY <5>1, <5>2
      <4> QED BY <2>4, <4>1, <4>2, <4>3
    <3> QED BY <1>2, <3>1
  <2>5. CASE IgnoreText(w) \/ EndForward(w) \/ ReadSlaveCount(w) \/ StoreSlaveCount(w) \/ BeginTask(w)
    <3>1. answer' = answer
      BY <2>5, Zenon DEF IgnoreText, EndForward, ReadSlaveCount, StoreSlaveCount, BeginTask
    <3> QED BY <1>3, <3>1
  <2>6. CASE FindKey(w) \/ EraseKey(w)
    BY <1>2, <1>3, <2>2, <2>6 DEF FindKey, EraseKey, AnswerNil, Answer
  <2>7. CASE FetchKey(w)
    BY <1>2, <1>3, <2>1, <2>7 DEF FetchKey, Answer
  <2>8. CASE ParseSET(w)
    BY <1>2, <2>1, <2>8 DEF ParseSET, Answer
  <2> QED BY <2>3, <2>4, <2>5, <2>6, <2>7, <2>8
<1>5. mtx = Free \/ (wpc[w] = "running" /\ lpc[w] # "reply")
  BY Zenon
  DEF ParseECHO, ParsePING, ParseREPLCONF, ParseUnknown, ParseCONFIG, ParseINFO, ParseKEYS,
      IgnoreText, FindKey, FetchKey, EraseKey, ParseSET, EndForward, ReadSlaveCount,
      StoreSlaveCount, PSYNCOnSlave, BeginTask, WorkerTake, Reads, Starts, At
<1> QED BY <1>0, <1>4, <1>5, NoneOwed, SilentKeepsOut

(* One message more to one connection.                                     *)
LEMMA WriteKeepsOut ==
  ASSUME ServerInv, OutInv, NEW c \in Clients, NEW m,
         out' = [out EXCEPT ![c] = Append(@, m)],
         m[1] = "set" => HasRdb(c)
  PROVE  /\ \A d \in Clients : IsSeq(out'[d]) /\ (HasRdb(d) => HasRdb(d)')
         /\ RdbBeforeCommands'
         /\ m = RdbFile => HasRdb(c)'
<1>0. /\ DOMAIN out = Clients /\ IsSeq(out[c])
      /\ \A d \in Clients : d # c => out'[d] = out[d]
      /\ out'[c] = Append(out[c], m)
  BY DEF ServerInv, LocalsOK, OutInv
<1>1. /\ IsSeq(Append(out[c], m)) /\ Len(Append(out[c], m)) = Len(out[c]) + 1
      /\ \A n \in 1..Len(out[c]) : Append(out[c], m)[n] = out[c][n]
      /\ Append(out[c], m)[Len(out[c]) + 1] = m
      /\ Len(out[c]) \in Nat
  BY <1>0, AppendIsSeq
<1>2. /\ Len(out'[c]) = Len(out[c]) + 1 /\ out'[c][Len(out[c]) + 1] = m
      /\ \A n \in 1..Len(out[c]) : out'[c][n] = out[c][n]
  BY <1>0, <1>1
<1>3. \A d \in Clients : IsSeq(out'[d])
  BY <1>0, <1>1 DEF OutInv
<1>4. ASSUME NEW d \in Clients, HasRdb(d) PROVE HasRdb(d)'
  <2>1. CASE d # c
    BY <1>0, <1>4, <2>1 DEF HasRdb
  <2>2. CASE d = c
    <3>1. PICK j \in 1..Len(out[c]) : out[c][j] = RdbFile
      BY <1>4, <2>2 DEF HasRdb
    <3>2. j \in 1..Len(out'[c]) /\ out'[c][j] = RdbFile
      BY <1>1, <1>2, <3>1
    <3> QED BY <2>2, <3>2 DEF HasRdb
  <2> QED BY <2>1, <2>2
<1>5. ASSUME NEW d \in Clients, NEW i \in 1..Len(out'[d]), out'[d][i][1] = "set"
      PROVE  \E j \in 1..(i - 1) : out'[d][j] = RdbFile
  <2>1. CASE d # c
    <3>1. out'[d] = out[d]
      BY <1>0, <2>1
    <3> QED BY <1>5, <3>1 DEF OutInv, RdbBeforeCommands
  <2>2. CASE d = c /\ i \in 1..Len(out[c])
    <3>1. PICK j \in 1..(i - 1) : out[c][j] = RdbFile
      BY <1>2, <1>5, <2>2 DEF OutInv, RdbBeforeCommands
    <3>2. j \in 1..Len(out[c])
      BY <1>1, <2>2
    <3> QED BY <1>2, <2>2, <3>1, <3>2
  <2>3. CASE d = c /\ i = Len(out[c]) + 1
    <3>1. HasRdb(c)
      BY <1>2, <1>5, <2>3
    <3>2. PICK j \in 1..Len(out[c]) : out[c][j] = RdbFile
      BY <3>1 DEF HasRdb
    <3>3. j \in 1..(i - 1)
      BY <1>1, <2>3
    <3> QED BY <1>2, <2>3, <3>2, <3>3
  <2>4. d = c => i \in 1..Len(out[c]) \/ i = Len(out[c]) + 1
    BY <1>1, <1>2
  <2> QED BY <2>1, <2>2, <2>3, <2>4
<1>6. ASSUME m = RdbFile PROVE HasRdb(c)'
  <2>1. Len(out[c]) + 1 \in 1..Len(out'[c])
    BY <1>1, <1>2
  <2> QED BY <1>2, <1>6, <2>1 DEF HasRdb
<1> QED BY <1>3, <1>4, <1>5, <1>6 DEF RdbBeforeCommands

LEMMA ForwardKeepsOut ==
  ASSUME ServerInv, SlaveInv, OutInv, NEW w \in Workers, ForwardToSlave(w)
  PROVE  OutInv'
<1> DEFINE fd == slave_fds[tmp[w] + 1]
<1>0. /\ slave_fds \in Seq(Clients) /\ tmp[w] \in Nat /\ wpc[w] = "running" /\ lpc[w] = "forward"
      /\ UNCHANGED <<slave_fds, answer>>
  BY DEF ServerInv, SlavesOK, LocalsOK, ForwardToSlave, At
<1>1. tmp[w] < Len(slave_fds)
  <2>1. \A v \in Workers : ~At(v, "addFd")
    BY <1>0, Alone DEF At
  <2> QED BY <1>0, <2>1 DEF SlaveInv, ForwardToSlave
<1>2. tmp[w] + 1 \in 1..Len(slave_fds) /\ fd \in Clients
  BY <1>0, <1>1
<1>3. \A n \in 1..Len(slave_fds) : HasRdb(slave_fds[n]) /\ slave_fds[n] \in Clients
  BY <1>0, NoneOwed
<1>4. HasRdb(fd)
  BY <1>2, <1>3
<1>5. out' = [out EXCEPT ![fd] = Append(@, <<"set", Cmd(w)>>)]
  BY DEF ForwardToSlave
<1> HIDE DEF fd
<1>6. /\ \A d \in Clients : IsSeq(out'[d]) /\ (HasRdb(d) => HasRdb(d)')
      /\ RdbBeforeCommands'
  BY <1>2, <1>4, <1>5, WriteKeepsOut
<1>7. \A n \in 1..Len(slave_fds)' : HasRdb(slave_fds[n])'
  BY <1>0, <1>3, <1>6
<1> QED BY <1>0, <1>6, <1>7 DEF OutInv

LEMMA AddSlaveKeepsOut ==
  ASSUME ServerInv, OutInv, NEW w \in Workers, AddSlave(w)
  PROVE  OutInv'
<1>0. /\ wpc[w] = "running" /\ lpc[w] = "addFd" /\ out' = out /\ UNCHANGED <<wpc, task>>
      /\ slave_fds' = Append(slave_fds, task[w].fd) /\ slave_fds \in Seq(Clients)
      /\ task[w].fd \in Clients
  BY CmdType DEF ServerInv, SlavesOK, AddSlave, At, poolVars
<1>1. /\ answer' = [answer EXCEPT ![w] = FullResync] /\ lpc' = [lpc EXCEPT ![w] = "reply"]
      /\ DOMAIN answer = Workers /\ lpc \in [Workers -> StepPC]
  BY DEF AddSlave, Answer, Goto, ServerInv, LocalsOK
<1>2. \A v \in Workers : answer'[v][1] # "set"
  BY <1>1 DEF OutInv, FullResync
<1>3. Owes(w, task[w].fd)'
  BY <1>0, <1>1 DEF Owes, Busy
<1>4. \A n \in 1..Len(slave_fds) : HasRdb(slave_fds[n]) /\ slave_fds'[n] = slave_fds[n]
  BY <1>0, NoneOwed
<1>5. Len(slave_fds') = Len(slave_fds) + 1 /\ slave_fds'[Len(slave_fds) + 1] = task[w].fd
      /\ Len(slave_fds) \in Nat
  BY <1>0
<1>6. ASSUME NEW n \in 1..Len(slave_fds')
      PROVE  HasRdb(slave_fds[n])' \/ \E v \in Workers : Owes(v, slave_fds[n])'
  <2>1. CASE n \in 1..Len(slave_fds)
    BY <1>0, <1>4, <2>1 DEF HasRdb
  <2>2. CASE n = Len(slave_fds) + 1
    BY <1>0, <1>3, <1>5, <2>2
  <2> QED BY <1>5, <2>1, <2>2
<1>7. RdbBeforeCommands' /\ \A c \in Clients : IsSeq(out'[c])
  BY <1>0 DEF OutInv, RdbBeforeCommands
<1> QED BY <1>2, <1>6, <1>7 DEF OutInv

LEMMA SendReplyKeepsOut ==
  ASSUME ServerInv, OutInv, NEW w \in Workers, SendReply(w)
  PROVE  OutInv'
<1>0. /\ wpc[w] = "running" /\ lpc[w] = "reply" /\ UNCHANGED <<wpc, task, slave_fds>>
      /\ task[w].fd \in Clients /\ answer[w][1] # "set" /\ DOMAIN answer = Workers
      /\ lpc \in [Workers -> StepPC]
      /\ out' = [out EXCEPT ![task[w].fd] = Append(@, answer[w])]
  BY CmdType DEF ServerInv, LocalsOK, SendReply, At, poolVars, OutInv
<1> PICK fd \in Clients : fd = task[w].fd
  BY <1>0
<1> PICK m : m = answer[w]
  OBVIOUS
<1>1. /\ \A d \in Clients : IsSeq(out'[d]) /\ (HasRdb(d) => HasRdb(d)')
      /\ RdbBeforeCommands'
      /\ m = RdbFile => HasRdb(fd)'
  <2>1. out' = [out EXCEPT ![fd] = Append(@, m)] /\ m[1] # "set"
    BY <1>0
  <2> QED BY <2>1, WriteKeepsOut
<1>2. \/ m = FullResync /\ Answer(w, RdbFile)
      \/ m # FullResync /\ answer' = answer
  BY DEF SendReply
<1>3. \A v \in Workers : answer'[v][1] # "set"
  BY <1>0, <1>2 DEF Answer, OutInv, RdbFile
<1>4. m = FullResync => Owes(w, fd)'
  BY <1>0, <1>2 DEF Answer, Goto, Owes, Busy
<1>5. \A v \in Workers : Busy(v) => v = w
  BY <1>0 DEF ServerInv, MutexInv, Busy
<1>6. ASSUME NEW n \in 1..Len(slave_fds)
      PROVE  HasRdb(slave_fds[n])' \/ \E v \in Workers : Owes(v, slave_fds[n])'
  <2>1. PICK d \in Clients : d = slave_fds[n]
    BY DEF ServerInv, SlavesOK
  <2>2. slave_fds'[n] = d
    BY <1>0, <2>1
  <2>3. HasRdb(d) \/ \E v \in Workers : Owes(v, d)
    BY <2>1 DEF OutInv
  <2>4. (\E v \in Workers : Owes(v, d)) => d = fd /\ (m = FullResync \/ m = RdbFile)
    BY <1>5 DEF Owes
  <2>5. HasRdb(d)' \/ Owes(w, d)'
    BY <1>1, <1>4, <2>3, <2>4
  <2> QED BY <2>2, <2>5 DEF HasRdb, Owes
<1>7. \A n \in 1..Len(slave_fds)' :
        HasRdb(slave_fds[n])' \/ \E v \in Workers : Owes(v, slave_fds[n])'
  BY <1>0, <1>6
<1> QED BY <1>1, <1>3, <1>7 DEF OutInv

LEMMA OutStep == ServerInv /\ SlaveInv /\ OutInv /\ [Next]_vars => OutInv'
<1> SUFFICES ASSUME ServerInv, SlaveInv, OutInv, [Next]_vars PROVE OutInv'
  OBVIOUS
<1>1. CASE (\E c \in Clients : ConnectionStep(c)) \/ UNCHANGED vars
           \/ \E w \in Workers : IdleStep(w) \/ EndTask(w) \/ FailTask(w)
  <2>1. UNCHANGED svars
    BY <1>1, Zenon DEF ConnectionStep, IdleStep, EndTask, FailTask, vars
  <2>2. UNCHANGED vars => UNCHANGED poolVars
    BY Zenon DEF vars
  <2> QED BY <1>1, <2>1, <2>2, PoolStepKeepsOut
<1>2. CASE Tick \/ SetClockBack
  <2>1. UNCHANGED <<out, slave_fds, answer, lpc, wpc, task>>
    BY <1>2, Zenon DEF Tick, SetClockBack, shared, locals, poolVars
  <2>2. Silent
    BY <2>1 DEF Silent, OutInv
  <2>3. \A w \in Workers : \A c \in Clients : Owes(w, c) => Owes(w, c)'
    BY <2>1 DEF Owes, Busy
  <2>4. SlavesOK
    BY DEF ServerInv
  <2> QED BY <2>2, <2>3, <2>4, SilentKeepsOut
<1>3. ASSUME NEW w \in Workers, BeginTask(w) \/ CommandStep(w) PROVE OutInv'
  BY <1>3, SilentCommands, ForwardKeepsOut, AddSlaveKeepsOut, SendReplyKeepsOut, Zenon DEF CommandStep
<1> QED BY <1>1, <1>2, <1>3, Zenon DEF Next

LEMMA OutInit == Init => OutInv
<1> SUFFICES ASSUME Init PROVE OutInv
  OBVIOUS
<1>1. /\ \A c \in Clients : out[c] = <<>> /\ Len(out[c]) = 0
      /\ \A w \in Workers : answer[w] = Nil
      /\ Len(slave_fds) = 0
  BY DEF Init
<1>2. \A c \in Clients : IsSeq(out[c])
  BY <1>1, EmptyIsSeq
<1>3. RdbBeforeCommands
  BY <1>1 DEF RdbBeforeCommands
<1>4. \A w \in Workers : answer[w][1] # "set"
  BY <1>1 DEF Nil
<1> QED BY <1>1, <1>2, <1>3, <1>4 DEF OutInv

(* parsePSYNCCommand registers the descriptor before FULLRESYNC and the    *)
(* file are sent; no SET is propagated to it in between, because the task  *)
(* that propagates would have to run while the PSYNC's still does.         *)
THEOREM RdbSentFirst == Spec => []RdbBeforeCommands
<1>1. OutInv => RdbBeforeCommands
  BY DEF OutInv
<1> QED BY ServerInit, SlaveInit, OutInit, ServerStep, SlaveStep, OutStep, <1>1, PTL DEF Spec

-----------------------------------------------------------------------------
(* FlattenSeq, for sequences of any length                                 *)

(* What FlattenSeq builds: the concatenation of the first i, for each i.   *)
IsFlatten(f, ss) ==
  f = [i \in 1..Len(ss) |-> IF i = 1 THEN ss[i] ELSE f[i - 1] \o ss[i]]

LEMMA FlattenExists ==
  ASSUME NEW ss, Len(ss) \in Nat
  PROVE  \E f : IsFlatten(f, ss)
<1> DEFINE Upto(f, n) == f = [i \in 1..n |-> IF i = 1 THEN ss[i] ELSE f[i - 1] \o ss[i]]
           S == {n \in Nat : \E f : Upto(f, n)}
<1>1. 0 \in S
  <2>1. Upto([i \in 1..0 |-> 0], 0)
    OBVIOUS
  <2> QED BY <2>1
<1>2. ASSUME NEW n \in Nat, n \in S PROVE n + 1 \in S
  <2>1. PICK f : Upto(f, n)
    BY <1>2
  <2> DEFINE g == [i \in 1..(n + 1) |->
                     IF i \in 1..n THEN f[i] ELSE IF i = 1 THEN ss[i] ELSE f[i - 1] \o ss[i]]
  <2>2. \A i \in 1..n : f[i] = IF i = 1 THEN ss[i] ELSE f[i - 1] \o ss[i]
    BY <2>1
  <2>3. \A i \in 1..(n + 1) : g[i] = IF i = 1 THEN ss[i] ELSE g[i - 1] \o ss[i]
    <3> TAKE i \in 1..(n + 1)
    <3>1. CASE i \in 1..n
      <4>1. g[i] = f[i] /\ (i # 1 => g[i - 1] = f[i - 1])
        BY <3>1
      <4> HIDE DEF g
      <4> QED BY <2>2, <3>1, <4>1
    <3>2. CASE i = n + 1
      <4>1. i # 1 => g[i - 1] = f[i - 1]
        BY <3>2
      <4>2. g[i] = IF i = 1 THEN ss[i] ELSE f[i - 1] \o ss[i]
        BY <3>2
      <4> HIDE DEF g
      <4> QED BY <4>1, <4>2
    <3> QED BY <3>1, <3>2
  <2>4. Upto(g, n + 1)
    BY <2>3
  <2> HIDE DEF g, Upto
  <2> QED BY <2>4
<1> HIDE DEF S
<1>3. Nat \subseteq S
  BY <1>1, <1>2, SetInduction
<1>4. Len(ss) \in S
  BY <1>3
<1> QED BY <1>4 DEF S, IsFlatten

LEMMA FlattenIs ==
  ASSUME NEW ss, Len(ss) \in Nat \ {0}
  PROVE  \E f : IsFlatten(f, ss) /\ SeqX!FlattenSeq(ss) = f[Len(ss)]
<1> DEFINE flatten[i \in 1..Len(ss)] == IF i = 1 THEN ss[i] ELSE flatten[i - 1] \o ss[i]
<1>1. \E f : f = [i \in 1..Len(ss) |-> IF i = 1 THEN ss[i] ELSE f[i - 1] \o ss[i]]
  BY FlattenExists DEF IsFlatten
<1>2. flatten = [i \in 1..Len(ss) |-> IF i = 1 THEN ss[i] ELSE flatten[i - 1] \o ss[i]]
  BY <1>1
<1>3. SeqX!FlattenSeq(ss) = flatten[Len(ss)]
  BY DEF SeqX!FlattenSeq
<1> HIDE DEF flatten
<1> QED BY <1>2, <1>3 DEF IsFlatten

LEMMA IsSeqLen ==
  ASSUME NEW s, IsSeq(s)
  PROVE  Len(s) \in Nat /\ (Len(s) = 0 => s = <<>>)
BY DEF IsSeq

LEMMA FlattenType ==
  ASSUME NEW S, NEW ss, IsSeq(ss), \A i \in 1..Len(ss) : ss[i] \in Seq(S)
  PROVE  SeqX!FlattenSeq(ss) \in Seq(S)
<1> PICK n \in Nat : n = Len(ss) /\ (n = 0 => ss = <<>>)
  BY IsSeqLen
<1>1. CASE n = 0
  BY <1>1 DEF SeqX!FlattenSeq
<1>2. CASE n # 0
  <2>1. PICK f : IsFlatten(f, ss) /\ SeqX!FlattenSeq(ss) = f[n]
    BY <1>2, FlattenIs
  <2>2. \A i \in 1..n : f[i] = IF i = 1 THEN ss[i] ELSE f[i - 1] \o ss[i]
    BY <2>1 DEF IsFlatten
  <2> DEFINE T == {i \in 1..n : f[i] \in Seq(S)}
  <2>3. 1 \in T
    BY <1>2, <2>2
  <2>4. \A k \in 1..(n - 1) : k \in T => k + 1 \in T
    <3> SUFFICES ASSUME NEW k \in 1..(n - 1), f[k] \in Seq(S) PROVE k + 1 \in T
      OBVIOUS
    <3>1. k + 1 \in 1..n /\ k + 1 # 1 /\ (k + 1) - 1 = k
      OBVIOUS
    <3>2. f[k + 1] = f[k] \o ss[k + 1] /\ ss[k + 1] \in Seq(S)
      BY <2>2, <3>1
    <3>3. \A x, y \in Seq(S) : x \o y \in Seq(S)
      OBVIOUS
    <3>4. f[k + 1] \in Seq(S)
      BY <3>2, <3>3, Zenon
    <3> QED BY <3>1, <3>4
  <2> HIDE DEF T
  <2>5. 1..n \subseteq T
    BY <2>3, <2>4, IntervalInduction
  <2>6. n \in T
    BY <1>2, <2>5
  <2> QED BY <2>1, <2>6 DEF T
<1> QED BY <1>1, <1>2

(* What is appended comes after what there was.                            *)
LEMMA FlattenAppend ==
  ASSUME NEW S, NEW ss, IsSeq(ss), \A i \in 1..Len(ss) : ss[i] \in Seq(S), NEW t \in Seq(S)
  PROVE  SeqX!FlattenSeq(Append(ss, t)) = SeqX!FlattenSeq(ss) \o t
<1> PICK n \in Nat : n = Len(ss) /\ (n = 0 => ss = <<>>)
  BY IsSeqLen
<1> DEFINE more == Append(ss, t)
<1>0. /\ Len(more) = n + 1 /\ more[n + 1] = t
      /\ \A i \in 1..n : more[i] = ss[i]
  BY AppendIsSeq
<1> HIDE DEF more
<1>1. PICK g : IsFlatten(g, more) /\ SeqX!FlattenSeq(more) = g[n + 1]
  BY <1>0, FlattenIs
<1>2. \A i \in 1..(n + 1) : g[i] = IF i = 1 THEN more[i] ELSE g[i - 1] \o more[i]
  BY <1>0, <1>1 DEF IsFlatten
<1>3. CASE n = 0
  <2>1. g[1] = t
    BY <1>0, <1>2, <1>3
  <2>2. SeqX!FlattenSeq(ss) = <<>>
    BY <1>3 DEF SeqX!FlattenSeq
  <2>3. <<>> \o t = t
    OBVIOUS
  <2> QED BY <1>1, <1>3, <2>1, <2>2, <2>3 DEF more
<1>4. CASE n # 0
  <2>1. PICK f : IsFlatten(f, ss) /\ SeqX!FlattenSeq(ss) = f[n]
    BY <1>4, FlattenIs
  <2>2. \A i \in 1..n : f[i] = IF i = 1 THEN ss[i] ELSE f[i - 1] \o ss[i]
    BY <2>1 DEF IsFlatten
  <2> DEFINE T == {i \in 1..n : g[i] = f[i]}
  <2>3. 1 \in T
    <3>1. 1 \in 1..n /\ 1 \in 1..(n + 1)
      BY <1>4
    <3>2. g[1] = more[1] /\ f[1] = ss[1] /\ more[1] = ss[1]
      BY <1>0, <1>2, <2>2, <3>1
    <3> QED BY <3>1, <3>2
  <2>4. \A k \in 1..(n - 1) : k \in T => k + 1 \in T
    <3> SUFFICES ASSUME NEW k \in 1..(n - 1), g[k] = f[k] PROVE k + 1 \in T
      OBVIOUS
    <3>1. k + 1 \in 1..n /\ k + 1 \in 1..(n + 1) /\ k + 1 # 1 /\ (k + 1) - 1 = k
      OBVIOUS
    <3>2. g[k + 1] = g[k] \o more[k + 1]
      BY <1>2, <3>1
    <3>3. f[k + 1] = f[k] \o ss[k + 1]
      BY <2>2, <3>1
    <3>4. more[k + 1] = ss[k + 1]
      BY <1>0, <3>1
    <3> QED BY <3>1, <3>2, <3>3, <3>4
  <2> HIDE DEF T
  <2>5. 1..n \subseteq T
    BY <2>3, <2>4, IntervalInduction
  <2>6. g[n] = f[n]
    <3>1. n \in T
      BY <1>4, <2>5
    <3> QED BY <3>1 DEF T
  <2>7. g[n + 1] = g[n] \o t
    <3>1. n + 1 \in 1..(n + 1) /\ n + 1 # 1 /\ (n + 1) - 1 = n
      BY <1>4
    <3> QED BY <1>0, <1>2, <3>1
  <2> QED BY <1>1, <2>1, <2>6, <2>7 DEF more
<1> QED BY <1>3, <1>4

-----------------------------------------------------------------------------
(* What each slave has been sent                                           *)

(* The slaves, of the first n descriptors, that c is.                      *)
Sent(c, n) == Cardinality({j \in 1..n : slave_fds[j] = c})

(* Between a SET's execution and the end of its propagation c has been     *)
(* sent everything before it, and it once per registration passed.         *)
HalfFed(w) ==
  /\ Len(setLog) # 0 /\ setLog[Len(setLog)] = Cmd(w)
  /\ \A j \in 1..Len(since) : since[j] < Len(setLog)
  /\ tmp[w] <= Len(slave_fds) /\ (lpc[w] # "forward" => tmp[w] = 0)
  /\ \A c \in Clients :
       SetsIn(out[c]) =
         Feed(c, Len(setLog) - 1) \o [j \in 1..Sent(c, tmp[w]) |-> <<"set", Cmd(w)>>]

FeedInv ==
  /\ Len(since) = Len(slave_fds)
  /\ \A j \in 1..Len(since) : since[j] <= Len(setLog)
  /\ Role # "master" => Len(slave_fds) = 0
  /\ \A w \in Workers : At(w, "count") \/ At(w, "addFd") => Role = "master"
  /\ \A w \in Workers : Busy(w) /\ lpc[w] = "forward" => Cmd(w).op = "SET"
  /\ \A w \in Workers : InSet(w) => HalfFed(w)
  /\ FeedComplete

Messages == {"set"} \X Commands

LEMMA SentType ==
  ASSUME NEW c, NEW n \in Nat
  PROVE  Sent(c, n) \in Nat /\ IsFiniteSet({j \in 1..n : slave_fds[j] = c})
<1>1. IsFiniteSet(1..n)
  BY FS_Interval
<1>2. IsFiniteSet({j \in 1..n : slave_fds[j] = c})
  BY <1>1, FS_Subset
<1> QED BY <1>2, FS_CardinalityType DEF Sent

LEMMA SentNext ==
  ASSUME NEW c, NEW n \in Nat
  PROVE  Sent(c, n + 1) = IF slave_fds[n + 1] = c THEN Sent(c, n) + 1 ELSE Sent(c, n)
<1> DEFINE S == {j \in 1..n : slave_fds[j] = c}
           T == {j \in 1..(n + 1) : slave_fds[j] = c}
<1>1. CASE slave_fds[n + 1] # c
  <2>1. T = S
    BY <1>1
  <2> QED BY <1>1, <2>1 DEF Sent
<1>2. CASE slave_fds[n + 1] = c
  <2>1. T = S \cup {n + 1} /\ n + 1 \notin S
    BY <1>2
  <2>2. IsFiniteSet(S)
    BY SentType
  <2>3. Sent(c, n) = Cardinality(S) /\ Sent(c, n + 1) = Cardinality(T)
    BY DEF Sent
  <2> HIDE DEF S, T
  <2>4. Cardinality(T) = Cardinality(S) + 1
    BY <2>1, <2>2, FS_AddElement
  <2> QED BY <1>2, <2>3, <2>4
<1> QED BY <1>1, <1>2

LEMMA SentNone ==
  ASSUME NEW c
  PROVE  Sent(c, 0) = 0
<1>1. {j \in 1..0 : slave_fds[j] = c} = {}
  OBVIOUS
<1> QED BY <1>1, FS_EmptySet DEF Sent

LEMMA CopiesType ==
  ASSUME SlavesOK, NEW c, NEW i
  PROVE  Copies(c, i) \in Nat
<1> PICK n \in Nat : n = Len(slave_fds)
  BY DEF SlavesOK
<1>1. IsFiniteSet(1..n)
  BY FS_Interval
<1>2. {j \in 1..n : slave_fds[j] = c /\ since[j] < i} \subseteq 1..n
  OBVIOUS
<1>3. IsFiniteSet({j \in 1..n : slave_fds[j] = c /\ since[j] < i})
  BY <1>1, <1>2, FS_Subset
<1> QED BY <1>3, FS_CardinalityType DEF Copies

LEMMA FeedSame ==
  ASSUME NEW c, NEW n \in Nat,
         \A i \in 1..n : Copies(c, i)' = Copies(c, i) /\ setLog'[i] = setLog[i]
  PROVE  Feed(c, n)' = Feed(c, n)
<1>1. [i \in 1..n |-> [j \in 1..Copies(c, i)' |-> <<"set", setLog'[i]>>]]
        = [i \in 1..n |-> [j \in 1..Copies(c, i) |-> <<"set", setLog[i]>>]]
  OBVIOUS
<1> QED BY <1>1, Zenon DEF Feed

LEMMA RepeatedIsSeq ==
  ASSUME NEW S, NEW m \in S, NEW n \in Nat
  PROVE  [j \in 1..n |-> m] \in Seq(S) /\ Len([j \in 1..n |-> m]) = n
OBVIOUS

LEMMA FeedType ==
  ASSUME SlavesOK, NEW c, NEW n \in Nat, n <= Len(setLog)
  PROVE  Feed(c, n) \in Seq(Messages)
<1> DEFINE part(i) == [j \in 1..Copies(c, i) |-> <<"set", setLog[i]>>]
           parts == [i \in 1..n |-> part(i)]
<1>1. \A i \in 1..n : part(i) \in Seq(Messages)
  <2> TAKE i \in 1..n
  <2>1. <<"set", setLog[i]>> \in Messages
    BY DEF SlavesOK, Messages
  <2>2. Copies(c, i) \in Nat
    BY CopiesType
  <2> QED BY <2>1, <2>2, RepeatedIsSeq
<1>2. Feed(c, n) = SeqX!FlattenSeq(parts)
  BY Zenon DEF Feed
<1> HIDE DEF part
<1>3. Len(parts) = n /\ \A i \in 1..n : parts[i] = part(i)
  OBVIOUS
<1>4. IsSeq(parts)
  <2>1. parts \in Seq({part(i) : i \in 1..n})
    OBVIOUS
  <2> QED BY <2>1 DEF IsSeq
<1> HIDE DEF parts
<1> QED BY <1>1, <1>2, <1>3, <1>4, FlattenType

(* What one more SET adds.                                                 *)
LEMMA FeedNext ==
  ASSUME SlavesOK, NEW c, NEW n \in Nat, n + 1 <= Len(setLog)
  PROVE  Feed(c, n + 1) = Feed(c, n) \o [j \in 1..Copies(c, n + 1) |-> <<"set", setLog[n + 1]>>]
<1> DEFINE part(i) == [j \in 1..Copies(c, i) |-> <<"set", setLog[i]>>]
           parts(k) == [i \in 1..k |-> part(i)]
<1>1. \A i \in 1..(n + 1) : part(i) \in Seq(Messages)
  <2> TAKE i \in 1..(n + 1)
  <2>1. <<"set", setLog[i]>> \in Messages
    BY DEF SlavesOK, Messages
  <2>2. Copies(c, i) \in Nat
    BY CopiesType
  <2> QED BY <2>1, <2>2, RepeatedIsSeq
<1>2. Feed(c, n) = SeqX!FlattenSeq(parts(n)) /\ Feed(c, n + 1) = SeqX!FlattenSeq(parts(n + 1))
  BY Zenon DEF Feed
<1> HIDE DEF part
<1>3. Len(parts(n)) = n /\ \A i \in 1..n : parts(n)[i] = part(i)
  OBVIOUS
<1>4. IsSeq(parts(n))
  <2>1. parts(n) \in Seq({part(i) : i \in 1..n})
    OBVIOUS
  <2> QED BY <2>1 DEF IsSeq
<1>5. Append(parts(n), part(n + 1)) = parts(n + 1)
  BY <1>3 
<1> HIDE DEF parts
<1>6. SeqX!FlattenSeq(Append(parts(n), part(n + 1))) = SeqX!FlattenSeq(parts(n)) \o part(n + 1)
  <2>1. part(n + 1) \in Seq(Messages)
    BY <1>1
  <2> QED BY <1>1, <1>3, <1>4, <2>1, FlattenAppend
<1> QED BY <1>2, <1>5, <1>6 DEF part

LEMMA AppendIs ==
  ASSUME NEW s, IsSeq(s), NEW e, NEW n \in Nat, n = Len(s)
  PROVE  Append(s, e) = [i \in 1..(n + 1) |-> IF i = n + 1 THEN e ELSE s[i]]
<1>1. PICK S : s \in Seq(S)
  BY DEF IsSeq
<1>2. s \in Seq(S \cup {e})
  BY <1>1
<1>3. /\ Append(s, e) \in Seq(S \cup {e}) /\ Len(Append(s, e)) = n + 1
      /\ \A i \in 1..n : Append(s, e)[i] = s[i]
      /\ Append(s, e)[n + 1] = e
  BY <1>2
<1> DEFINE more == Append(s, e)
<1> HIDE DEF more
<1>4. more \in [1..(n + 1) -> S \cup {e}]
  <2>1. more \in Seq(S \cup {e}) /\ Len(more) = n + 1
    BY <1>3 DEF more
  <2>2. more \in [1..Len(more) -> S \cup {e}]
    BY <2>1
  <2> QED BY <2>1, <2>2
<1>5. more = [i \in 1..(n + 1) |-> more[i]]
  BY <1>4
<1>6. \A i \in 1..(n + 1) : more[i] = IF i = n + 1 THEN e ELSE s[i]
  BY <1>3 DEF more
<1>7. more = [i \in 1..(n + 1) |-> IF i = n + 1 THEN e ELSE s[i]]
  BY <1>5, <1>6
<1> QED BY <1>7 DEF more

LEMMA OneIsSeq ==
  ASSUME NEW S, NEW x \in S
  PROVE  (IF IsSetMessage(x) THEN <<x>> ELSE <<>>) \in Seq(S)
<1>1. <<x>> \in Seq(S) /\ <<>> \in Seq(S)
  OBVIOUS
<1> QED BY <1>1, Zenon

LEMMA SetsInAppend ==
  ASSUME NEW s, IsSeq(s), NEW m
  PROVE  /\ m[1] # "set" => SetsIn(Append(s, m)) = SetsIn(s)
         /\ m[1] = "set" => SetsIn(Append(s, m)) = SetsIn(s) \o <<m>>
<1> PICK n \in Nat : n = Len(s)
  BY IsSeqLen
<1> DEFINE one(x) == IF IsSetMessage(x) THEN <<x>> ELSE <<>>
           ones == [i \in 1..n |-> one(s[i])]
           more == Append(s, m)
<1>0. Len(more) = n + 1 /\ more[n + 1] = m /\ \A i \in 1..n : more[i] = s[i]
  BY AppendIsSeq
<1> HIDE DEF more
<1>1. PICK S : s \in Seq(S)
  BY DEF IsSeq
<1>2. \A i \in 1..n : one(s[i]) \in Seq(S \cup {m})
  <2> TAKE i \in 1..n
  <2>1. s[i] \in S \cup {m}
    BY <1>1
  <2> QED BY <2>1, OneIsSeq
<1>3. one(m) \in Seq(S \cup {m})
  BY OneIsSeq
<1>4. SetsIn(s) = SeqX!FlattenSeq(ones)
  BY Zenon DEF SetsIn
<1>5. SetsIn(more) = SeqX!FlattenSeq([i \in 1..(n + 1) |-> one(more[i])])
  BY <1>0 DEF SetsIn
<1> DEFINE last == one(m)
<1>10. m[1] = "set" => last = <<m>>
  BY DEF IsSetMessage
<1>11. m[1] # "set" => last = <<>>
  BY DEF IsSetMessage
<1> HIDE DEF one
<1>6. Len(ones) = n /\ IsSeq(ones) /\ \A i \in 1..n : ones[i] = one(s[i])
  <2>1. ones \in Seq({one(s[i]) : i \in 1..n}) /\ Len(ones) = n
    OBVIOUS
  <2>2. \A i \in 1..n : ones[i] = one(s[i])
    OBVIOUS
  <2> HIDE DEF ones
  <2>3. IsSeq(ones)
    BY <2>1 DEF IsSeq
  <2> QED BY <2>1, <2>2, <2>3
<1>7. [i \in 1..(n + 1) |-> one(more[i])] = Append(ones, last)
  <2>1. \A i \in 1..(n + 1) : one(more[i]) = IF i = n + 1 THEN last ELSE ones[i]
    <3> TAKE i \in 1..(n + 1)
    <3>1. CASE i = n + 1
      BY <1>0, <3>1
    <3>2. CASE i \in 1..n
      BY <1>0, <1>6, <3>2
    <3> QED BY <3>1, <3>2
  <2> HIDE DEF ones, last
  <2>2. Append(ones, last) = [i \in 1..(n + 1) |-> IF i = n + 1 THEN last ELSE ones[i]]
    BY <1>6, AppendIs
  <2> QED BY <2>1, <2>2
<1> HIDE DEF ones, last
<1>8. SeqX!FlattenSeq(Append(ones, last)) = SeqX!FlattenSeq(ones) \o last
  <2>1. last \in Seq(S \cup {m})
    BY <1>3 DEF last
  <2> QED BY <1>2, <1>6, <2>1, FlattenAppend
<1>9. SetsIn(more) = SetsIn(s) \o last /\ SetsIn(s) \in Seq(S \cup {m})
  BY <1>2, <1>4, <1>5, <1>6, <1>7, <1>8, FlattenType
<1>12. \A t \in Seq(S \cup {m}) : t \o <<>> = t
  OBVIOUS
<1> QED BY <1>9, <1>10, <1>11, <1>12 DEF more

(* The steps that execute no SET, propagate none and register nobody.      *)
LEMMA FeedKept ==
  ASSUME FeedInv, UNCHANGED <<slave_fds, since, setLog>>,
         \A c \in Clients : SetsIn(out[c])' = SetsIn(out[c]),
         \A w \in Workers : InSet(w)' <=> InSet(w),
         \A w \in Workers : InSet(w) => /\ Cmd(w)' = Cmd(w) /\ tmp'[w] = tmp[w]
                                        /\ lpc'[w] # "forward" => lpc[w] # "forward",
         \A w \in Workers : (At(w, "count") \/ At(w, "addFd"))' => Role = "master",
         \A w \in Workers : (Busy(w) /\ lpc[w] = "forward")' => Cmd(w)'.op = "SET"
  PROVE  FeedInv'
<1>1. \A c, n : Feed(c, n)' = Feed(c, n) /\ Sent(c, n)' = Sent(c, n)
  BY Zenon DEF Feed, Copies, Sent
<1>2. ASSUME NEW w \in Workers, InSet(w)' PROVE HalfFed(w)'
  <2>1. HalfFed(w) /\ Cmd(w)' = Cmd(w) /\ tmp'[w] = tmp[w]
    BY <1>2 DEF FeedInv
  <2>2. lpc'[w] # "forward" => tmp'[w] = 0
    BY <1>2, <2>1 DEF HalfFed
  <2>3. \A c \in Clients :
          SetsIn(out[c])' = Feed(c, Len(setLog) - 1)'
                              \o [j \in 1..Sent(c, tmp[w])' |-> <<"set", Cmd(w)'>>]
    BY <1>1, <2>1 DEF HalfFed
  <2> QED BY <2>1, <2>2, <2>3 DEF HalfFed
<1>3. FeedComplete'
  BY <1>1 DEF FeedInv, FeedComplete
<1> QED BY <1>2, <1>3 DEF FeedInv

LEMMA PoolKeepsFeed ==
  ASSUME ServerInv, FeedInv, [Next]_vars, UNCHANGED svars,
         \/ \E c \in Clients : ConnectionStep(c)
         \/ \E w \in Workers : IdleStep(w) \/ EndTask(w) \/ FailTask(w)
         \/ UNCHANGED vars
  PROVE  FeedInv'
<1>0. wpc \in [Workers -> WorkerPC] /\ task \in [Workers -> Tasks \cup {NoTask}] /\ PoolDataInv
  BY DEF ServerInv, PoolDataInv
<1>1. UNCHANGED <<out, slave_fds, since, setLog, lpc, tmp>>
  BY Zenon DEF svars
<1>2. ASSUME NEW w \in Workers
      PROVE  /\ Busy(w)' => Busy(w) /\ task'[w] = task[w]
             /\ Busy(w) /\ lpc[w] # "end" => Busy(w)'
  <2> DEFINE Goal == /\ Busy(w)' => Busy(w) /\ task'[w] = task[w]
                     /\ Busy(w) /\ lpc[w] # "end" => Busy(w)'
  <2>1. ASSUME NEW c \in Clients, ConnectionStep(c) PROVE Goal
    <3>1. CASE UNCHANGED <<wpc, task>>
      BY <3>1 DEF Busy
    <3>2. CASE NotifyOne(c)
      BY <1>0, <3>2 DEF NotifyOne, Busy
    <3> QED BY <2>1, <3>1, <3>2, Zenon DEF ConnectionStep, Accept, Hangup, PushTask, Recv
  <2>2. ASSUME NEW v \in Workers, IdleStep(v) PROVE Goal
    BY <1>0, <2>2 DEF IdleStep, WorkerWait, SpuriousWake, Busy
  <2>3. ASSUME NEW v \in Workers, EndTask(v) PROVE Goal
    BY <1>0, <2>3 DEF EndTask, TaskEnd, Busy
  <2>4. ASSUME NEW v \in Workers, FailTask(v) PROVE Goal
    BY <1>0, <2>4 DEF FailTask, TaskHang, TaskCrash, Busy
  <2>5. CASE UNCHANGED vars
    BY <2>5 DEF vars, poolVars, Busy
  <2> QED BY <2>1, <2>2, <2>3, <2>4, <2>5
<1>3. \A w \in Workers : Busy(w)' => Cmd(w)' = Cmd(w)
  BY <1>2 DEF Cmd
<1>4. \A w \in Workers : InSet(w)' <=> InSet(w)
  BY <1>1, <1>2, <1>3 DEF InSet
<1>5. \A w \in Workers : InSet(w) => Cmd(w)' = Cmd(w)
  BY <1>3, <1>4 DEF InSet
<1>6. Quiet
  BY <1>0, QuietSteps
<1>7. \A w \in Workers : (At(w, "count") \/ At(w, "addFd"))' => Role = "master"
  BY <1>1, <1>6 DEF Quiet, At, FeedInv
<1>8. \A w \in Workers : (Busy(w) /\ lpc[w] = "forward")' => Cmd(w)'.op = "SET"
  BY <1>1, <1>2, <1>3 DEF FeedInv
<1>9. \A c \in Clients : SetsIn(out[c])' = SetsIn(out[c])
  BY <1>1, Zenon
<1> QED BY <1>1, <1>4, <1>5, <1>7, <1>8, <1>9, FeedKept

(* The worker that runs a command is the only one with a task.             *)
LEMMA OnlyBusy ==
  ASSUME ServerInv, NEW w \in Workers, wpc[w] = "running", UNCHANGED poolVars
  PROVE  /\ \A v \in Workers : Busy(v)' <=> v = w
         /\ \A v \in Workers : Busy(v) <=> v = w
         /\ \A v \in Workers : Cmd(v)' = Cmd(v)
         /\ \A v \in Workers : \A pc : At(v, pc)' => v = w /\ lpc'[w] = pc
<1>1. wpc' = wpc /\ task' = task
  BY Zenon DEF poolVars
<1>2. \A v \in Workers : Busy(v) <=> v = w
  BY DEF ServerInv, MutexInv, Busy
<1> QED BY <1>1, <1>2 DEF Busy, Cmd, At

LEMMA CommandKeepsFeed ==
  ASSUME ServerInv, FeedInv, NEW w \in Workers, wpc[w] = "running", UNCHANGED poolVars,
         UNCHANGED <<slave_fds, since, setLog>>,
         \A c \in Clients : SetsIn(out[c])' = SetsIn(out[c]),
         Cmd(w).op = "SET" =>
           /\ lpc[w] \in {"start", "end"} <=> lpc'[w] \in {"start", "end"}
           /\ tmp'[w] = tmp[w] /\ (lpc'[w] # "forward" => lpc[w] # "forward"),
         lpc'[w] = "forward" => Cmd(w).op = "SET",
         lpc'[w] \in {"count", "addFd"} => Role = "master"
  PROVE  FeedInv'
<1>1. /\ \A v \in Workers : Busy(v)' <=> v = w
      /\ \A v \in Workers : Busy(v) <=> v = w
      /\ \A v \in Workers : Cmd(v)' = Cmd(v)
      /\ \A v \in Workers : \A pc : At(v, pc)' => v = w /\ lpc'[w] = pc
  BY OnlyBusy
<1>2. \A v \in Workers : InSet(v)' <=> InSet(v)
  BY <1>1 DEF InSet
<1>3. \A v \in Workers : InSet(v) => /\ Cmd(v)' = Cmd(v) /\ tmp'[v] = tmp[v]
                                     /\ lpc'[v] # "forward" => lpc[v] # "forward"
  BY <1>1 DEF InSet
<1>4. \A v \in Workers : (At(v, "count") \/ At(v, "addFd"))' => Role = "master"
  BY <1>1
<1>5. \A v \in Workers : (Busy(v) /\ lpc[v] = "forward")' => Cmd(v)'.op = "SET"
  BY <1>1
<1> QED BY <1>2, <1>3, <1>4, <1>5, FeedKept

LEMMA OthersKeepFeed ==
  ASSUME ServerInv, SlaveInv, OutInv, FeedInv, NEW w \in Workers,
         \/ ReadCommand(w) \/ IgnoreText(w) \/ FindKey(w) \/ FetchKey(w) \/ EraseKey(w)
         \/ ReadSlaveCount(w) \/ StoreSlaveCount(w)
  PROVE  FeedInv'
<1>0. lpc \in [Workers -> StepPC] /\ tmp \in [Workers -> Nat]
  BY DEF ServerInv, LocalsOK
<1>1. UNCHANGED <<poolVars, out, slave_fds, since, setLog>> /\ wpc[w] = "running"
  BY Zenon
  DEF ReadCommand, Reads, IgnoreText, FindKey, FetchKey, EraseKey, ReadSlaveCount,
      StoreSlaveCount, shared, Starts, At
<1>2. \A c \in Clients : SetsIn(out[c])' = SetsIn(out[c])
  BY <1>1, Zenon
<1>3. CASE FetchKey(w) \/ EraseKey(w)
  <2>1. lpc[w] \in {"fetch", "erase"} /\ lpc'[w] \in {"reply", "erase"} /\ tmp' = tmp
    BY <1>0, <1>3 DEF FetchKey, EraseKey, AnswerNil, Answer, Goto, At
  <2> QED BY <1>1, <1>2, <2>1, CommandKeepsFeed
<1>4. CASE ReadCommand(w) \/ IgnoreText(w) \/ FindKey(w)
  <2>1. Cmd(w).op # "SET" /\ lpc'[w] \in {"reply", "fetch", "end"}
    BY <1>0, <1>4 DEF ReadCommand, Reads, IgnoreText, FindKey, AnswerNil, Answer, Goto, Starts
  <2> QED BY <1>1, <1>2, <2>1, CommandKeepsFeed
<1>5. CASE ReadSlaveCount(w)
  <2>1. Cmd(w).op # "SET" /\ lpc'[w] = "count" /\ Role = "master"
    BY <1>0, <1>5 DEF ReadSlaveCount, Goto, Starts
  <2> QED BY <1>1, <1>2, <2>1, CommandKeepsFeed
<1>6. CASE StoreSlaveCount(w)
  <2>1. At(w, "count") /\ lpc'[w] = "addFd"
    BY <1>0, <1>6 DEF StoreSlaveCount, Goto
  <2>2. Cmd(w).op # "SET" /\ Role = "master"
    BY <2>1 DEF SlaveInv, FeedInv
  <2> QED BY <1>1, <1>2, <2>1, <2>2, CommandKeepsFeed
<1> QED BY <1>3, <1>4, <1>5, <1>6

(* The clocks move: nothing here depends on them.                          *)
LEMMA ClockKeepsFeed ==
  ASSUME FeedInv, Tick \/ SetClockBack
  PROVE  FeedInv'
<1>1. UNCHANGED <<out, slave_fds, since, setLog, lpc, tmp, wpc, task>>
  BY Zenon DEF Tick, SetClockBack, shared, locals, poolVars
<1>2. \A w \in Workers : (InSet(w)' <=> InSet(w)) /\ Cmd(w)' = Cmd(w)
  BY <1>1 DEF InSet, Busy, Cmd
<1>3. \A c \in Clients : SetsIn(out[c])' = SetsIn(out[c])
  BY <1>1, Zenon
<1>4. \A w \in Workers : (At(w, "count") \/ At(w, "addFd"))' => Role = "master"
  BY <1>1 DEF FeedInv, At
<1>5. \A w \in Workers : (Busy(w) /\ lpc[w] = "forward")' => Cmd(w)'.op = "SET"
  BY <1>1, <1>2 DEF FeedInv, Busy
<1> QED BY <1>1, <1>2, <1>3, <1>4, <1>5, FeedKept

LEMMA BeginKeepsFeed ==
  ASSUME ServerInv, FeedInv, NEW w \in Workers, BeginTask(w)
  PROVE  FeedInv'
<1>1. /\ UNCHANGED <<out, slave_fds, since, setLog, tmp>> /\ mtx = Free
      /\ lpc' = [lpc EXCEPT ![w] = "start"] /\ wpc' = [wpc EXCEPT ![w] = "running"]
      /\ lpc \in [Workers -> StepPC] /\ wpc \in [Workers -> WorkerPC]
  BY DEF BeginTask, WorkerTake, Goto, shared, ServerInv, LocalsOK, PoolDataInv
<1>2. \A v \in Workers : ~Busy(v)
  BY <1>1, FreeAssumption DEF ServerInv, MutexInv
<1>3. \A v \in Workers : Busy(v)' => v = w /\ lpc'[v] = "start"
  BY <1>1, <1>2 DEF Busy
<1>4. \A v \in Workers : ~InSet(v) /\ ~InSet(v)'
  BY <1>2, <1>3 DEF InSet
<1>5. \A v \in Workers : (At(v, "count") \/ At(v, "addFd"))' => Role = "master"
  BY <1>3 DEF At, Busy
<1>6. \A v \in Workers : (Busy(v) /\ lpc[v] = "forward")' => Cmd(v)'.op = "SET"
  BY <1>3
<1>7. \A c \in Clients : SetsIn(out[c])' = SetsIn(out[c])
  BY <1>1, Zenon
<1> QED BY <1>1, <1>4, <1>5, <1>6, <1>7, FeedKept

LEMMA SendReplyKeepsFeed ==
  ASSUME ServerInv, OutInv, FeedInv, NEW w \in Workers, SendReply(w)
  PROVE  FeedInv'
<1>0. /\ wpc[w] = "running" /\ lpc[w] = "reply" /\ UNCHANGED poolVars
      /\ UNCHANGED <<slave_fds, since, setLog, tmp>>
      /\ task[w].fd \in Clients /\ answer[w][1] # "set" /\ DOMAIN out = Clients
      /\ lpc \in [Workers -> StepPC]
      /\ out' = [out EXCEPT ![task[w].fd] = Append(@, answer[w])]
  BY CmdType DEF ServerInv, LocalsOK, SendReply, At, OutInv
<1> PICK fd \in Clients : fd = task[w].fd
  BY <1>0
<1> PICK m : m = answer[w]
  OBVIOUS
<1>1. ASSUME NEW c \in Clients PROVE SetsIn(out[c])' = SetsIn(out[c])
  <2>1. CASE c # fd
    <3>1. out'[c] = out[c]
      BY <1>0, <2>1
    <3> QED BY <3>1, Zenon
  <2>2. CASE c = fd
    <3>1. PICK s : s = out[c]
      OBVIOUS
    <3>2. IsSeq(s) /\ m[1] # "set"
      BY <1>0, <3>1 DEF OutInv
    <3>3. SetsIn(Append(s, m)) = SetsIn(s)
      BY <3>2, SetsInAppend
    <3>4. out'[c] = Append(s, m)
      BY <1>0, <2>2, <3>1
    <3> QED BY <3>1, <3>3, <3>4
  <2> QED BY <2>1, <2>2
<1>2. \/ lpc'[w] = "reply"
      \/ lpc'[w] = "forward" /\ Cmd(w).op = "SET"
      \/ lpc'[w] = "end" /\ Cmd(w).op # "SET"
  BY <1>0 DEF SendReply, Answer, Goto
<1> QED BY <1>0, <1>1, <1>2, CommandKeepsFeed

(* The loop ends with every descriptor of the vector passed: each slave    *)
(* has been sent the SET as often as it is registered.                     *)
LEMMA EndForwardKeepsFeed ==
  ASSUME ServerInv, SlaveInv, FeedInv, NEW w \in Workers, EndForward(w)
  PROVE  FeedInv'
<1>0. /\ wpc[w] = "running" /\ lpc[w] = "forward" /\ UNCHANGED poolVars
      /\ UNCHANGED <<slave_fds, since, setLog, tmp, out>>
      /\ lpc' = [lpc EXCEPT ![w] = "end"] /\ lpc \in [Workers -> StepPC]
      /\ tmp[w] \in Nat /\ (Role = "slave" \/ tmp[w] >= connected_slaves)
  BY DEF EndForward, At, Goto, shared, ServerInv, LocalsOK
<1>1. /\ \A v \in Workers : Busy(v)' <=> v = w
      /\ \A v \in Workers : Busy(v) <=> v = w
      /\ \A v \in Workers : Cmd(v)' = Cmd(v)
      /\ \A v \in Workers : \A pc : At(v, pc)' => v = w /\ lpc'[w] = pc
  BY <1>0, OnlyBusy
<1>2. Cmd(w).op = "SET" /\ InSet(w) /\ HalfFed(w)
  BY <1>0, <1>1 DEF FeedInv, InSet
<1> PICK n : n = Len(slave_fds)
  OBVIOUS
<1> PICK l \in Nat : l + 1 = Len(setLog)
  <2>1. Len(setLog) \in Nat /\ Len(setLog) # 0
    BY <1>2 DEF HalfFed, ServerInv, SlavesOK
  <2> QED BY <2>1
<1>3. tmp[w] = n /\ n \in Nat
  <2>1. n \in Nat /\ connected_slaves \in Nat
    BY DEF ServerInv, SlavesOK
  <2>2. \A v \in Workers : ~At(v, "addFd")
    BY <1>0, Alone DEF At
  <2>3. connected_slaves = n
    BY <2>2 DEF SlaveInv
  <2>4. Role = "slave" => n = 0
    BY DEF FeedInv
  <2> QED BY <1>0, <1>2, <2>1, <2>3, <2>4 DEF HalfFed, ServerInv, LocalsOK
<1>4. \A c \in Clients : Copies(c, l + 1) = Sent(c, n)
  <2> TAKE c \in Clients
  <2>1. \A j \in 1..n : since[j] < l + 1
    BY <1>2 DEF HalfFed, FeedInv
  <2>2. {j \in 1..n : slave_fds[j] = c /\ since[j] < l + 1} = {j \in 1..n : slave_fds[j] = c}
    BY <2>1
  <2> QED BY <2>2, Zenon DEF Copies, Sent
<1>5. ASSUME NEW c \in Clients PROVE SetsIn(out[c]) = Feed(c, Len(setLog))
  <2>1. SetsIn(out[c]) = Feed(c, Len(setLog) - 1)
                           \o [j \in 1..Sent(c, tmp[w]) |-> <<"set", Cmd(w)>>]
    BY <1>2 DEF HalfFed
  <2>2. Len(setLog) - 1 = l /\ setLog[l + 1] = Cmd(w) /\ l + 1 <= Len(setLog)
    BY <1>2 DEF HalfFed
  <2>3. Feed(c, l + 1) = Feed(c, l) \o [j \in 1..Copies(c, l + 1) |-> <<"set", setLog[l + 1]>>]
    BY <2>2, FeedNext DEF ServerInv
  <2>4. SetsIn(out[c]) = Feed(c, l) \o [j \in 1..Sent(c, n) |-> <<"set", Cmd(w)>>]
    BY <1>3, <2>1, <2>2
  <2>5. Copies(c, l + 1) = Sent(c, n)
    BY <1>4
  <2> QED BY <2>2, <2>3, <2>4, <2>5
<1>6. FeedComplete'
  <2>1. ASSUME NEW c \in Clients PROVE SetsIn(out[c])' = Feed(c, Len(setLog))'
    <3>1. Feed(c, Len(setLog))' = Feed(c, Len(setLog)) /\ SetsIn(out[c])' = SetsIn(out[c])
      BY <1>0, Zenon DEF Feed, Copies
    <3> QED BY <1>5, <3>1
  <2> QED BY <2>1 DEF FeedComplete
<1>7. \A v \in Workers : ~InSet(v)'
  BY <1>0, <1>1 DEF InSet
<1>8. /\ \A v \in Workers : (At(v, "count") \/ At(v, "addFd"))' => Role = "master"
      /\ \A v \in Workers : (Busy(v) /\ lpc[v] = "forward")' => Cmd(v)'.op = "SET"
  BY <1>0, <1>1
<1> QED BY <1>0, <1>6, <1>7, <1>8 DEF FeedInv

(* The loop: one more descriptor passed, and sent the SET.                 *)
Times(m, n) == [j \in 1..n |-> m]

LEMMA RepeatNext ==
  ASSUME NEW a, IsSeq(a), NEW m, NEW n \in Nat
  PROVE  (a \o Times(m, n)) \o <<m>> = a \o Times(m, n + 1)
<1>1. PICK S : a \in Seq(S)
  BY DEF IsSeq
<1>2. a \in Seq(S \cup {m})
  BY <1>1
<1> DEFINE r == [j \in 1..n |-> m]
           q == [j \in 1..(n + 1) |-> m]
<1>3. r \in Seq(S \cup {m}) /\ q \in Seq(S \cup {m}) /\ <<m>> \in Seq(S \cup {m})
  BY RepeatedIsSeq
<1>4. r \o <<m>> = q
  <2>1. /\ Len(r) = n /\ Len(q) = n + 1
        /\ \A j \in 1..n : r[j] = m
        /\ \A j \in 1..(n + 1) : q[j] = m
    OBVIOUS
  <2> HIDE DEF r, q
  <2>2. r \o <<m>> \in Seq(S \cup {m}) /\ Len(r \o <<m>>) = n + 1
    BY <1>3, <2>1
  <2>3. \A j \in 1..(n + 1) : (r \o <<m>>)[j] = q[j]
    BY <1>3, <2>1
  <2> QED BY <1>3, <2>1, <2>2, <2>3
<1> HIDE DEF r, q
<1>5. (a \o r) \o <<m>> = a \o (r \o <<m>>)
  BY <1>2, <1>3
<1>6. r = Times(m, n) /\ q = Times(m, n + 1)
  BY Zenon DEF r, q, Times
<1> QED BY <1>4, <1>5, <1>6

LEMMA ForwardKeepsFeed ==
  ASSUME ServerInv, SlaveInv, OutInv, FeedInv, NEW w \in Workers, ForwardToSlave(w)
  PROVE  FeedInv'
<1>0. /\ wpc[w] = "running" /\ lpc[w] = "forward" /\ UNCHANGED poolVars
      /\ UNCHANGED <<slave_fds, since, setLog, lpc>> /\ DOMAIN out = Clients
      /\ tmp' = [tmp EXCEPT ![w] = @ + 1] /\ tmp \in [Workers -> Nat]
      /\ tmp[w] < connected_slaves /\ slave_fds \in Seq(Clients)
      /\ out' = [out EXCEPT ![slave_fds[tmp[w] + 1]] = Append(@, <<"set", Cmd(w)>>)]
  BY DEF ForwardToSlave, At, ServerInv, LocalsOK, SlavesOK
<1>1. /\ \A v \in Workers : Busy(v)' <=> v = w
      /\ \A v \in Workers : Busy(v) <=> v = w
      /\ \A v \in Workers : Cmd(v)' = Cmd(v)
      /\ \A v \in Workers : \A pc : At(v, pc)' => v = w /\ lpc'[w] = pc
  BY <1>0, OnlyBusy
<1>2. Cmd(w).op = "SET" /\ InSet(w) /\ HalfFed(w)
  BY <1>0, <1>1 DEF FeedInv, InSet
<1> PICK n \in Nat : n = tmp[w]
  BY <1>0
<1>3. n < Len(slave_fds)
  <2>1. \A v \in Workers : ~At(v, "addFd")
    BY <1>0, Alone DEF At
  <2> QED BY <1>0, <2>1 DEF SlaveInv
<1> PICK fd \in Clients : fd = slave_fds[n + 1]
  BY <1>0, <1>3
<1> PICK m : m = <<"set", Cmd(w)>>
  OBVIOUS
<1>4. ASSUME NEW c \in Clients
      PROVE  SetsIn(out[c])' = Feed(c, Len(setLog) - 1)' \o [j \in 1..Sent(c, n + 1) |-> m]
  <2>1. Feed(c, Len(setLog) - 1)' = Feed(c, Len(setLog) - 1)
    BY <1>0, Zenon DEF Feed, Copies
  <2> PICK a : a = Feed(c, Len(setLog) - 1)
    OBVIOUS
  <2> PICK k \in Nat : k = Sent(c, n)
    BY SentType
  <2>2. SetsIn(out[c]) = a \o [j \in 1..k |-> m]
    BY <1>2 DEF HalfFed
  <2>3. CASE c # fd
    <3>1. Sent(c, n + 1) = k
      BY <2>3, SentNext
    <3>2. out'[c] = out[c]
      BY <1>0, <2>3
    <3>3. SetsIn(out[c])' = SetsIn(out[c])
      BY <3>2, Zenon
    <3> QED BY <2>1, <2>2, <3>1, <3>3
  <2>4. CASE c = fd
    <3>1. Sent(c, n + 1) = k + 1
      BY <2>4, SentNext
    <3>2. IsSeq(a)
      <4>1. Len(setLog) \in Nat /\ Len(setLog) # 0
        BY <1>2 DEF HalfFed, ServerInv, SlavesOK
      <4> PICK l \in Nat : l = Len(setLog) - 1
        BY <4>1
      <4>2. SlavesOK /\ l <= Len(setLog)
        BY <4>1 DEF ServerInv
      <4>3. Feed(c, l) \in Seq(Messages)
        BY <4>2, FeedType
      <4> QED BY <4>3 DEF IsSeq
    <3> PICK s : s = out[c]
      OBVIOUS
    <3>3. IsSeq(s) /\ m[1] = "set"
      BY DEF OutInv
    <3>4. SetsIn(Append(s, m)) = SetsIn(s) \o <<m>>
      BY <3>3, SetsInAppend
    <3>5. out'[c] = Append(s, m)
      BY <1>0, <2>4
    <3>6. (a \o Times(m, k)) \o <<m>> = a \o Times(m, k + 1)
      BY <3>2, RepeatNext
    <3>7. SetsIn(out[c])' = SetsIn(Append(s, m))
      BY <3>5, Zenon
    <3>8. SetsIn(out[c])' = a \o Times(m, k + 1)
      BY <2>2, <3>4, <3>6, <3>7, Zenon DEF Times
    <3> QED BY <2>1, <3>1, <3>8 DEF Times
  <2> QED BY <2>3, <2>4
<1>5. HalfFed(w)'
  <2>1. tmp'[w] = n + 1 /\ Cmd(w)' = Cmd(w) /\ n + 1 <= Len(slave_fds)
    BY <1>0, <1>1, <1>3
  <2>2. \A c \in Clients : Sent(c, tmp[w])' = Sent(c, n + 1)
    BY <1>0, <2>1 DEF Sent
  <2>3. \A c \in Clients :
          SetsIn(out[c])' = Feed(c, Len(setLog) - 1)'
                              \o [j \in 1..Sent(c, tmp[w])' |-> <<"set", Cmd(w)'>>]
    BY <1>4, <2>1, <2>2
  <2>4. /\ Len(setLog') # 0 /\ setLog'[Len(setLog')] = Cmd(w)'
        /\ \A j \in 1..Len(since') : since'[j] < Len(setLog')
        /\ tmp'[w] <= Len(slave_fds') /\ (lpc'[w] # "forward" => tmp'[w] = 0)
    BY <1>0, <1>2, <2>1 DEF HalfFed
  <2> QED BY <2>1, <2>3, <2>4 DEF HalfFed
<1>6. InSet(w)'
  BY <1>0, <1>1, <1>2 DEF InSet
<1>7. FeedComplete'
  BY <1>6 DEF FeedComplete
<1>8. \A v \in Workers : InSet(v)' => HalfFed(v)'
  BY <1>1, <1>5 DEF InSet
<1>9. /\ \A v \in Workers : (At(v, "count") \/ At(v, "addFd"))' => Role = "master"
      /\ \A v \in Workers : (Busy(v) /\ lpc[v] = "forward")' => Cmd(v)'.op = "SET"
  BY <1>0, <1>1, <1>2
<1> QED BY <1>0, <1>7, <1>8, <1>9 DEF FeedInv

(* A SET begins: what came before it has been sent to everyone.            *)
LEMMA SetKeepsFeed ==
  ASSUME ServerInv, FeedInv, NEW w \in Workers, ParseSET(w)
  PROVE  FeedInv'
<1>0. /\ wpc[w] = "running" /\ lpc[w] = "start" /\ Cmd(w).op = "SET"
      /\ UNCHANGED poolVars /\ UNCHANGED <<slave_fds, since, out>>
      /\ setLog' = Append(setLog, Cmd(w)) /\ setLog \in Seq(Commands) /\ Cmd(w) \in Commands
      /\ tmp' = [tmp EXCEPT ![w] = 0] /\ tmp \in [Workers -> Nat]
      /\ lpc' = [lpc EXCEPT ![w] = "reply"] /\ lpc \in [Workers -> StepPC]
      /\ since \in Seq(Nat) /\ SlavesOK
  BY CmdType DEF ParseSET, Starts, At, Answer, Goto, ServerInv, LocalsOK, SlavesOK
<1>1. /\ \A v \in Workers : Busy(v)' <=> v = w
      /\ \A v \in Workers : Busy(v) <=> v = w
      /\ \A v \in Workers : Cmd(v)' = Cmd(v)
      /\ \A v \in Workers : \A pc : At(v, pc)' => v = w /\ lpc'[w] = pc
  BY <1>0, OnlyBusy
<1>2. \A v \in Workers : ~InSet(v)
  BY <1>0, <1>1 DEF InSet
<1> PICK l \in Nat : l = Len(setLog)
  BY <1>0
<1>3. /\ Len(setLog') = l + 1 /\ setLog'[l + 1] = Cmd(w)
      /\ \A i \in 1..l : setLog'[i] = setLog[i]
      /\ lpc'[w] = "reply" /\ tmp'[w] = 0
  BY <1>0
<1>4. ASSUME NEW c \in Clients PROVE SetsIn(out[c])' = Feed(c, l)' /\ Feed(c, l)' \in Seq(Messages)
  <2>1. \A i \in 1..l : Copies(c, i)' = Copies(c, i) /\ setLog'[i] = setLog[i]
    <3>1. \A i \in 1..l : Copies(c, i)' = Copies(c, i)
      BY <1>0, Zenon DEF Copies
    <3> QED BY <1>3, <3>1
  <2>2. Feed(c, l)' = Feed(c, l)
    BY <2>1, FeedSame
  <2>3. SetsIn(out[c]) = Feed(c, l)
    BY <1>2 DEF FeedInv, FeedComplete
  <2>4. SetsIn(out[c])' = SetsIn(out[c])
    BY <1>0, Zenon
  <2>5. Feed(c, l) \in Seq(Messages)
    BY <1>0, FeedType
  <2> QED BY <2>2, <2>3, <2>4, <2>5
<1>5. HalfFed(w)'
  <2>1. /\ Len(setLog') # 0 /\ setLog'[Len(setLog')] = Cmd(w)'
        /\ tmp'[w] <= Len(slave_fds') /\ (lpc'[w] # "forward" => tmp'[w] = 0)
    BY <1>0, <1>1, <1>3 DEF SlavesOK
  <2>2. \A j \in 1..Len(since') : since'[j] < Len(setLog')
    <3>1. \A j \in 1..Len(since) : since[j] \in Nat /\ since[j] <= l
      BY <1>0 DEF FeedInv
    <3> QED BY <1>0, <1>3, <3>1
  <2>3. ASSUME NEW c \in Clients
        PROVE SetsIn(out[c])' = Feed(c, Len(setLog) - 1)'
                                  \o [j \in 1..Sent(c, tmp[w])' |-> <<"set", Cmd(w)'>>]
    <3>1. Feed(c, Len(setLog) - 1)' = Feed(c, l)'
      <4>1. Len(setLog') - 1 = l
        BY <1>3
      <4> QED BY <4>1, Zenon DEF Feed
    <3>2. Sent(c, tmp[w])' = 0
      <4>1. Sent(c, 0) = 0
        BY SentNone
      <4>2. Sent(c, tmp[w])' = Sent(c, 0)
        BY <1>0, <1>3, Zenon DEF Sent
      <4> QED BY <4>1, <4>2
    <3> PICK f \in Seq(Messages) : f = Feed(c, l)'
      BY <1>4
    <3>3. f \o [j \in 1..0 |-> <<"set", Cmd(w)'>>] = f
      <4> PICK m : m = <<"set", Cmd(w)'>>
        OBVIOUS
      <4>1. [j \in 1..0 |-> m] = <<>>
        OBVIOUS
      <4>2. f \o <<>> = f
        OBVIOUS
      <4> QED BY <4>1, <4>2
    <3> QED BY <1>4, <3>1, <3>2, <3>3
  <2> QED BY <2>1, <2>2, <2>3 DEF HalfFed
<1>6. InSet(w)'
  BY <1>0, <1>1, <1>3 DEF InSet
<1>7. FeedComplete'
  BY <1>6 DEF FeedComplete
<1>8. \A v \in Workers : InSet(v)' => HalfFed(v)'
  BY <1>1, <1>5 DEF InSet
<1>9. /\ \A v \in Workers : (At(v, "count") \/ At(v, "addFd"))' => Role = "master"
      /\ \A v \in Workers : (Busy(v) /\ lpc[v] = "forward")' => Cmd(v)'.op = "SET"
  BY <1>1, <1>3
<1>10. /\ Len(since') = Len(slave_fds') /\ (Role # "master" => Len(slave_fds') = 0)
       /\ \A j \in 1..Len(since') : since'[j] <= Len(setLog')
  <2>1. \A j \in 1..Len(since) : since[j] \in Nat /\ since[j] <= l
    BY <1>0 DEF FeedInv
  <2> QED BY <1>0, <1>3, <2>1 DEF FeedInv
<1> QED BY <1>7, <1>8, <1>9, <1>10 DEF FeedInv

(* A slave is registered: it is owed nothing of what was executed before.  *)
LEMMA AddSlaveKeepsFeed ==
  ASSUME ServerInv, SlaveInv, FeedInv, NEW w \in Workers, AddSlave(w)
  PROVE  FeedInv'
<1>0. /\ wpc[w] = "running" /\ lpc[w] = "addFd" /\ UNCHANGED poolVars
      /\ UNCHANGED <<setLog, out, tmp>>
      /\ slave_fds' = Append(slave_fds, task[w].fd) /\ since' = Append(since, Len(setLog))
      /\ slave_fds \in Seq(Clients) /\ since \in Seq(Nat) /\ task[w].fd \in Clients
      /\ setLog \in Seq(Commands) /\ Len(since) = Len(slave_fds)
      /\ lpc' = [lpc EXCEPT ![w] = "reply"] /\ lpc \in [Workers -> StepPC]
  BY CmdType DEF AddSlave, At, Answer, Goto, ServerInv, LocalsOK, SlavesOK, FeedInv
<1>1. /\ \A v \in Workers : Busy(v)' <=> v = w
      /\ \A v \in Workers : Busy(v) <=> v = w
      /\ \A v \in Workers : Cmd(v)' = Cmd(v)
      /\ \A v \in Workers : \A pc : At(v, pc)' => v = w /\ lpc'[w] = pc
  BY <1>0, OnlyBusy
<1>2. Cmd(w).op = "PSYNC" /\ Role = "master" /\ lpc'[w] = "reply"
  BY <1>0 DEF SlaveInv, FeedInv, At
<1>3. \A v \in Workers : ~InSet(v) /\ ~InSet(v)'
  BY <1>1, <1>2 DEF InSet
<1> PICK n \in Nat : n = Len(slave_fds)
  BY <1>0
<1> PICK l \in Nat : l = Len(setLog)
  BY <1>0
<1>4. /\ Len(slave_fds') = n + 1 /\ Len(since') = n + 1 /\ since'[n + 1] = l
      /\ \A j \in 1..n : slave_fds'[j] = slave_fds[j] /\ since'[j] = since[j]
  BY <1>0
<1>5. ASSUME NEW c \in Clients PROVE SetsIn(out[c])' = Feed(c, Len(setLog))'
  <2>1. ASSUME NEW i \in 1..l PROVE Copies(c, i)' = Copies(c, i)
    <3>1. \A j \in 1..(n + 1) : (slave_fds'[j] = c /\ since'[j] < i) =>
                                  j \in 1..n /\ slave_fds[j] = c /\ since[j] < i
      BY <1>4
    <3>2. {j \in 1..(n + 1) : slave_fds'[j] = c /\ since'[j] < i}
            = {j \in 1..n : slave_fds[j] = c /\ since[j] < i}
      BY <1>4, <3>1
    <3> QED BY <1>4, <3>2, Zenon DEF Copies
  <2>2. Feed(c, l)' = Feed(c, l)
    BY <1>0, <2>1, FeedSame
  <2>3. SetsIn(out[c]) = Feed(c, l)
    BY <1>3 DEF FeedInv, FeedComplete
  <2>4. SetsIn(out[c])' = SetsIn(out[c])
    BY <1>0, Zenon
  <2>5. Feed(c, Len(setLog))' = Feed(c, l)'
    BY <1>0, Zenon DEF Feed
  <2> QED BY <2>2, <2>3, <2>4, <2>5
<1>6. FeedComplete'
  BY <1>5 DEF FeedComplete
<1>7. /\ \A v \in Workers : (At(v, "count") \/ At(v, "addFd"))' => Role = "master"
      /\ \A v \in Workers : (Busy(v) /\ lpc[v] = "forward")' => Cmd(v)'.op = "SET"
  BY <1>1, <1>2
<1>8. \A j \in 1..Len(since') : since'[j] <= Len(setLog')
  <2>1. \A j \in 1..n : since[j] <= l
    BY <1>0 DEF FeedInv
  <2>2. \A j \in 1..(n + 1) : j \in 1..n \/ j = n + 1
    OBVIOUS
  <2> QED BY <1>0, <1>4, <2>1, <2>2
<1> QED BY <1>2, <1>3, <1>4, <1>6, <1>7, <1>8 DEF FeedInv

LEMMA FeedStep == ServerInv /\ SlaveInv /\ OutInv /\ FeedInv /\ [Next]_vars => FeedInv'
<1> SUFFICES ASSUME ServerInv, SlaveInv, OutInv, FeedInv, [Next]_vars PROVE FeedInv'
  OBVIOUS
<1>1. CASE (\E c \in Clients : ConnectionStep(c)) \/ UNCHANGED vars
           \/ \E w \in Workers : IdleStep(w) \/ EndTask(w) \/ FailTask(w)
  <2>1. UNCHANGED svars
    BY <1>1, Zenon DEF ConnectionStep, IdleStep, EndTask, FailTask, vars
  <2> QED BY <1>1, <2>1, PoolKeepsFeed
<1>2. ASSUME NEW w \in Workers,
             \/ ParseECHO(w) \/ ParsePING(w) \/ ParseREPLCONF(w) \/ ParseUnknown(w)
             \/ ParseCONFIG(w) \/ ParseINFO(w) \/ ParseKEYS(w) \/ PSYNCOnSlave(w)
      PROVE  FeedInv'
  <2>1. {"ECHO", "PING", "REPLCONF", "UNKNOWN", "CONFIG", "INFO", "KEYS", "PSYNC"}
          \subseteq Ops \ {"GET", "SET"}
    BY DEF Ops
  <2>2. ReadCommand(w)
    BY <1>2, <2>1, Zenon
    DEF ReadCommand, ParseECHO, ParsePING, ParseREPLCONF, ParseUnknown, ParseCONFIG,
        ParseINFO, ParseKEYS, PSYNCOnSlave
  <2> QED BY <2>2, OthersKeepFeed
<1>3. ASSUME NEW w \in Workers, CommandStep(w) PROVE FeedInv'
  BY <1>2, <1>3, OthersKeepFeed, SetKeepsFeed, ForwardKeepsFeed, EndForwardKeepsFeed,
     AddSlaveKeepsFeed, SendReplyKeepsFeed, Zenon DEF CommandStep
<1> QED BY <1>1, <1>3, ClockKeepsFeed, BeginKeepsFeed, Zenon DEF Next

LEMMA FeedInit == Init => FeedInv
<1> SUFFICES ASSUME Init PROVE FeedInv
  OBVIOUS
<1>1. /\ \A c \in Clients : out[c] = <<>>
      /\ setLog = <<>> /\ Len(since) = 0 /\ Len(slave_fds) = 0
      /\ \A w \in Workers : wpc[w] = "lock"
  BY DEF Init, PoolInit
<1>2. \A w \in Workers : ~Busy(w)
  BY <1>1 DEF Busy
<1>3. ASSUME NEW c \in Clients PROVE SetsIn(out[c]) = Feed(c, Len(setLog))
  <2>1. Len(out[c]) = 0 /\ Len(setLog) = 0
    BY <1>1
  <2>2. SetsIn(out[c]) = SeqX!FlattenSeq(<<>>)
    <3>1. [i \in 1..0 |-> IF IsSetMessage(out[c][i]) THEN <<out[c][i]>> ELSE <<>>] = <<>>
      OBVIOUS
    <3> QED BY <2>1, <3>1 DEF SetsIn
  <2>3. Feed(c, Len(setLog)) = SeqX!FlattenSeq(<<>>)
    <3>1. [i \in 1..0 |-> [j \in 1..Copies(c, i) |-> <<"set", setLog[i]>>]] = <<>>
      OBVIOUS
    <3> QED BY <2>1, <3>1 DEF Feed
  <2> QED BY <2>2, <2>3
<1>4. \A w \in Workers : ~InSet(w) /\ ~At(w, "count") /\ ~At(w, "addFd")
  BY <1>2 DEF InSet, At, Busy
<1> QED BY <1>1, <1>2, <1>3, <1>4 DEF FeedInv, FeedComplete

(* Every slave is sent every SET executed since parsePSYNCCommand appended *)
(* its descriptor, once per registration and in the order of execution:    *)
(* the task that executes a SET passes the whole vector, to which no other *)
(* task can append, before the next one starts.                            *)
THEOREM SlavesFedInOrder == Spec => []FeedComplete
<1>1. FeedInv => FeedComplete
  BY DEF FeedInv
<1> QED
  BY ServerInit, SlaveInit, OutInit, FeedInit, ServerStep, SlaveStep, OutStep, FeedStep, <1>1, PTL
  DEF Spec

-----------------------------------------------------------------------------
(* The contract of a task                                                  *)

(* What the task of a worker is, by where it has got to: the reply on its  *)
(* way says whether a second one follows.                                  *)
PhaseOf(w) ==
  /\ lpc[w] = "reply" =>
       /\ Cmd(w).op # "TEXT"
       /\ Cmd(w).op = "PSYNC" <=> answer[w] \in {FullResync, RdbFile}
  /\ lpc[w] \in {"count", "addFd"} => Cmd(w).op = "PSYNC"
  /\ lpc[w] \in {"fetch", "erase"} => Cmd(w).op = "GET"
  /\ lpc[w] = "forward" => Cmd(w).op = "SET"

PhaseInv == \A w \in Workers : Busy(w) => PhaseOf(w)

(* Before a command has been executed.                                     *)
Before == {"start", "fetch", "erase", "count", "addFd"}

OthersFree(w) == \A v \in Workers \ {w} : ~Busy(v) /\ ~Busy(v)'

(* A step of the one task leaves the other workers without one.            *)
LEMMA OthersAreFree ==
  ASSUME MutexInv, MutexInv', NEW w \in Workers, mtx \in {w, Free}, mtx' \in {w, Free}
  PROVE  OthersFree(w)
BY FreeAssumption DEF MutexInv, OthersFree

SameTask(w) ==
  /\ wpc'[w] = wpc[w] /\ lpc'[w] = lpc[w] /\ answer'[w] = answer[w] /\ task'[w] = task[w]
  /\ crashed' = crashed

LEMMA Unaffected ==
  ASSUME NEW w \in Workers, SameTask(w) \/ (~Busy(w) /\ ~Busy(w)')
  PROVE  UNCHANGED Contract(w)!state
<1>1. CASE SameTask(w)
  <2>1. /\ Busy(w)' <=> Busy(w)
        /\ Ran(w)' <=> Ran(w)
        /\ Cmd(w)' = Cmd(w)
    BY <1>1 DEF SameTask, Busy, Ran, Cmd
  <2>2. Handled(w)' = Handled(w) /\ Owed(w)' = Owed(w) /\ Stage(w)' = Stage(w)
    BY <1>1, <2>1 DEF SameTask, Handled, Owed, Stage, FullResync, RdbFile
  <2> QED BY <1>1, <2>1, <2>2 DEF SameTask, Contract!state, Contract!work
<1>2. CASE ~Busy(w) /\ ~Busy(w)'
  <2>1. ~Ran(w) /\ ~Ran(w)'
    BY <1>2 DEF Ran
  <2>2. Handled(w) = 0 /\ Handled(w)' = 0 /\ Owed(w) = 0 /\ Owed(w)' = 0
    BY <1>2, <2>1 DEF Handled, Owed
  <2>3. Stage(w) = "idle" /\ Stage(w)' = "idle"
    BY <1>2 DEF Stage, Busy
  <2> QED BY <1>2, <2>1, <2>2, <2>3 DEF Contract!state, Contract!work
<1> QED BY <1>1, <1>2

LEMMA OthersUnaffected ==
  ASSUME NEW w \in Workers, OthersFree(w), NEW v \in Workers, v # w
  PROVE  UNCHANGED Contract(v)!state
BY Unaffected DEF OthersFree

Works(w) == wpc[w] = "running" /\ ~crashed

LEMMA WorksIs ==
  ASSUME NEW w \in Workers, Works(w)
  PROVE  Busy(w) /\ Stage(w) = "working"
BY DEF Works, Busy, Stage

LEMMA WorksNext ==
  ASSUME NEW w \in Workers, Works(w)'
  PROVE  Busy(w)' /\ Stage(w)' = "working"
BY DEF Works, Busy, Stage

(* A task is at its first command and has nothing behind it.               *)
LEMMA BeforeIs ==
  ASSUME NEW w \in Workers, Works(w), lpc[w] \in Before
  PROVE  ~Ran(w) /\ Owed(w) = 0 /\ Handled(w) = 0
BY DEF Ran, Owed, Handled, Before

(* The reply of w is r.                                                    *)
Executes(w) ==
  \/ /\ lpc'[w] = "reply" /\ Cmd(w).op # "TEXT"
     /\ \/ Cmd(w).op = "PSYNC" /\ answer'[w] = FullResync
        \/ Cmd(w).op # "PSYNC" /\ answer'[w] \notin {FullResync, RdbFile}
  \/ lpc'[w] = "end" /\ Cmd(w).op = "TEXT"

LEMMA TaskExecutes ==
  ASSUME NEW w \in Workers, Works(w), lpc[w] \in Before, Works(w)', task'[w] = task[w], Executes(w)
  PROVE  Contract(w)!Execute
<1>1. Stage(w) = "working" /\ Stage(w)' = "working" /\ Busy(w) /\ Busy(w)'
  BY WorksIs, WorksNext
<1>2. ~Ran(w) /\ Owed(w) = 0 /\ Handled(w) = 0
  BY BeforeIs
<1>3. Cmd(w)' = Cmd(w)
  BY DEF Cmd
<1>4. Ran(w)'
  BY <1>1 DEF Executes, Ran
<1>5. FullResync # RdbFile
  BY DEF FullResync, RdbFile
<1>6. Handled(w)' = 0
  BY <1>3, <1>4, <1>5 DEF Executes, Handled, RdbFile
<1>7. Owed(w)' = IF Cmd(w).op = "TEXT" THEN 0 ELSE IF Cmd(w).op = "PSYNC" THEN 2 ELSE 1
  BY <1>1, <1>3 DEF Executes, Owed, FullResync
<1>8. lpc'[w] # "end" \/ Cmd(w).op # "SET"
  BY DEF Executes
<1>9. Contract(w)!Replies(Cmd(w).op) = Owed(w)'
  BY <1>7 DEF Contract!Replies
<1>10. <<Cmd(w).op>>[0 + 1] = Cmd(w).op
  OBVIOUS
<1>11. Contract(w)!MoreToRun
  BY <1>2 DEF Contract!MoreToRun
<1>12. lpc[w] # "end" /\ (lpc'[w] = "end" => Cmd(w)'.op # "SET")
  BY <1>3 DEF Before, Executes
<1>13. (IF Busy(w) THEN <<Cmd(w).op>> ELSE <<>>) = <<Cmd(w).op>>
  BY <1>1
<1>14. (IF Ran(w) THEN 1 ELSE 0) = 0 /\ (IF Ran(w)' THEN 1 ELSE 0) = 1
  BY <1>2, <1>4
<1> QED
  BY <1>1, <1>2, <1>3, <1>4, <1>6, <1>9, <1>10, <1>11, <1>12, <1>13, <1>14 DEF Contract!Execute

(* SendReply: PSYNC's first reply is followed by a second.                 *)
LEMMA TaskReplies ==
  ASSUME NEW w \in Workers, Works(w), PhaseOf(w), lpc[w] = "reply", Works(w)',
         task'[w] = task[w],
         \/ answer[w] = FullResync /\ lpc'[w] = "reply" /\ answer'[w] = RdbFile
         \/ /\ answer[w] # FullResync
            /\ lpc'[w] = IF Cmd(w).op = "SET" THEN "forward" ELSE "end"
  PROVE  Contract(w)!Reply
<1>1. Stage(w) = "working" /\ Stage(w)' = "working" /\ Busy(w) /\ Busy(w)'
  BY WorksIs, WorksNext
<1>2. Cmd(w)' = Cmd(w)
  BY DEF Cmd
<1>3. Ran(w) /\ Ran(w)'
  BY <1>1 DEF Ran
<1>4. FullResync # RdbFile
  BY DEF FullResync, RdbFile
<1>5. CASE answer[w] = FullResync
  <2>1. Owed(w) = 2 /\ Owed(w)' = 1 /\ Handled(w) = 0 /\ Handled(w)' = 1
    BY <1>1, <1>3, <1>4, <1>5 DEF Owed, Handled
  <2>2. [i \in 1..1 |-> i] = Append([i \in 1..0 |-> i], 1)
    OBVIOUS
  <2> QED BY <1>1, <1>2, <1>3, <1>5, <2>1, <2>2 DEF Contract!Reply
<1>6. CASE answer[w] # FullResync
  <2>1. Owed(w) = 1 /\ Owed(w)' = 0
    BY <1>1, <1>3, <1>6 DEF Owed
  <2>2. Handled(w) = (IF answer[w] = RdbFile THEN 1 ELSE 0)
    BY <1>3 DEF Handled
  <2>3. Cmd(w).op # "TEXT" /\ (Cmd(w).op = "PSYNC" <=> answer[w] = RdbFile)
    BY <1>6 DEF PhaseOf
  <2>4. Handled(w)' = (IF Cmd(w).op = "PSYNC" THEN 2 ELSE 1)
    BY <1>2, <1>3, <1>6, <2>3 DEF Handled
  <2>5. Handled(w)' = Handled(w) + 1 /\ Handled(w) \in Nat
    BY <2>2, <2>3, <2>4
  <2>6. [i \in 1..Handled(w)' |-> i] = Append([i \in 1..Handled(w) |-> i], Handled(w)')
    BY <2>5
  <2>7. ~(Busy(w)' /\ lpc'[w] = "end" /\ Cmd(w)'.op = "SET")
    BY <1>2, <1>6
  <2> QED BY <1>1, <1>2, <1>3, <2>1, <2>5, <2>6, <2>7 DEF Contract!Reply
<1> QED BY <1>5, <1>6

LEMMA NothingBehind ==
  ASSUME NEW w \in Workers, Ran(w)
  PROVE  ~Contract(w)!MoreToRun
BY DEF Contract!MoreToRun, Ran

LEMMA TaskForwards ==
  ASSUME NEW w \in Workers, Works(w), PhaseOf(w), lpc[w] = "forward", Works(w)',
         task'[w] = task[w], lpc'[w] = "end"
  PROVE  Contract(w)!Forward
<1>1. Stage(w) = "working" /\ Stage(w)' = "working" /\ Busy(w) /\ Busy(w)'
  BY WorksIs, WorksNext
<1>2. Cmd(w)' = Cmd(w) /\ Cmd(w).op = "SET"
  BY DEF Cmd, PhaseOf
<1>3. Ran(w) /\ Ran(w)'
  BY <1>1 DEF Ran
<1>4. Owed(w) = 0 /\ Owed(w)' = 0 /\ Handled(w) = 1 /\ Handled(w)' = 1
  BY <1>2, <1>3 DEF Owed, Handled
<1> QED BY <1>1, <1>2, <1>3, <1>4, NothingBehind DEF Contract!Forward

LEMMA TaskEnds ==
  ASSUME NEW w \in Workers, Works(w), lpc[w] = "end", wpc'[w] = "lock"
  PROVE  Contract(w)!End
<1>1. Stage(w) = "working" /\ Busy(w)
  BY WorksIs
<1>2. ~Busy(w)' /\ Stage(w)' = "idle"
  BY DEF Busy, Stage
<1>3. Ran(w) /\ ~Ran(w)'
  BY <1>1, <1>2 DEF Ran
<1>4. Owed(w) = 0 /\ Owed(w)' = 0 /\ Handled(w)' = 0
  BY <1>2, <1>3 DEF Owed, Handled
<1>5. [i \in 1..0 |-> i] = <<>>
  OBVIOUS
<1> QED
  BY <1>1, <1>2, <1>3, <1>4, <1>5, NothingBehind DEF Contract!End, Contract!Cleared

LEMMA TaskBegins ==
  ASSUME NEW w \in Workers, ~Busy(w), Works(w)', lpc'[w] = "start", task'[w].cmd \in Payloads
  PROVE  Contract(w)!Begin
<1>1. Stage(w)' = "working" /\ Busy(w)'
  BY WorksNext
<1>2. Stage(w) = "idle"
  BY DEF Busy, Stage
<1>3. ~Ran(w) /\ ~Ran(w)'
  BY <1>1 DEF Ran
<1>4. Owed(w)' = 0 /\ Handled(w)' = 0
  BY <1>1, <1>3 DEF Owed, Handled
<1>5. [i \in 1..0 |-> i] = <<>>
  OBVIOUS
<1>6. <<Cmd(w)'.op>> \in {<<p.op>> : p \in Payloads}
  BY DEF Cmd
<1> QED BY <1>1, <1>2, <1>3, <1>4, <1>5, <1>6 DEF Contract!Begin, Contract!Cleared

(* A task that hangs or dies leaves everything else as it was.             *)
LEMMA SameWork ==
  ASSUME NEW w \in Workers, Works(w), wpc'[w] \in {"running", "hung"}, lpc'[w] = lpc[w],
         answer'[w] = answer[w], task'[w] = task[w]
  PROVE  UNCHANGED Contract(w)!work
<1>1. Busy(w) /\ Busy(w)'
  BY WorksIs DEF Busy
<1>2. (Ran(w)' <=> Ran(w)) /\ Cmd(w)' = Cmd(w)
  BY <1>1 DEF Ran, Cmd
<1>3. Handled(w)' = Handled(w) /\ Owed(w)' = Owed(w)
  BY <1>1, <1>2 DEF Handled, Owed, FullResync, RdbFile
<1> QED BY <1>1, <1>2, <1>3 DEF Contract!work

LEMMA TaskHangs ==
  ASSUME NEW w \in Workers, Works(w), PhaseOf(w), wpc'[w] = "hung", lpc'[w] = lpc[w],
         answer'[w] = answer[w], task'[w] = task[w],
         lpc[w] \in {"start", "reply"} \/ Replied(w)
  PROVE  Contract(w)!Hang
<1>1. Stage(w) = "working" /\ Stage(w)' = "hung" /\ Busy(w)
  BY WorksIs DEF Stage
<1>2. CASE lpc[w] = "start"
  BY <1>1, <1>2, SameWork DEF Contract!Hang, Ran
<1>3. CASE lpc[w] = "reply"
  <2>1. Owed(w) > 0
    BY <1>1, <1>3 DEF Owed
  <2> QED BY <1>1, <2>1, SameWork DEF Contract!Hang
<1>4. CASE lpc[w] \notin {"start", "reply"}
  <2>1. lpc[w] = "forward" \/ (lpc[w] = "end" /\ Cmd(w).op \notin {"TEXT", "SET"})
    BY <1>4 DEF Replied, At
  <2>2. Ran(w)
    BY <1>1, <2>1 DEF Ran
  <2>3. Handled(w) > 0
    BY <2>1, <2>2 DEF Handled, PhaseOf
  <2>4. ~(lpc[w] = "end" /\ Cmd(w).op = "SET")
    BY <2>1
  <2> QED BY <1>1, <2>3, <2>4, SameWork DEF Contract!Hang
<1> QED BY <1>2, <1>3, <1>4

LEMMA TaskDies ==
  ASSUME NEW w \in Workers, Works(w), PhaseOf(w), wpc'[w] = wpc[w], lpc'[w] = lpc[w],
         answer'[w] = answer[w], task'[w] = task[w], crashed',
         lpc[w] \in {"start", "reply", "forward"}
  PROVE  Contract(w)!Die
<1>1. Stage(w) = "working" /\ Stage(w)' = "dead" /\ Busy(w)
  BY WorksIs DEF Stage, Works
<1>2. UNCHANGED Contract(w)!work
  BY SameWork DEF Works
<1>3. CASE lpc[w] = "start"
  <2>1. Contract(w)!MoreToRun /\ Owed(w) = 0
    BY <1>3 DEF Contract!MoreToRun, Ran, Owed
  <2> QED BY <1>1, <1>2, <2>1 DEF Contract!Die
<1>4. CASE lpc[w] = "reply"
  <2>1. Owed(w) > 0
    BY <1>1, <1>4 DEF Owed
  <2> QED BY <1>1, <1>2, <2>1 DEF Contract!Die
<1>5. CASE lpc[w] = "forward"
  <2>1. Ran(w) /\ Cmd(w).op = "SET"
    BY <1>1, <1>5 DEF Ran, PhaseOf
  <2> QED BY <1>1, <1>2, <1>5, <2>1 DEF Contract!Die
<1> QED BY <1>3, <1>4, <1>5

LEMMA ControlIs ==
  ASSUME LocalsOK, NEW w \in Workers
  PROVE  /\ \A pc : Goto(w, pc) => lpc'[w] = pc
         /\ \A r : Answer(w, r) => lpc'[w] = "reply" /\ answer'[w] = r
         /\ UNCHANGED answer => answer'[w] = answer[w]
BY DEF LocalsOK, Goto, Answer

(* A step at which a command is executed.                                  *)
LEMMA ExecutionIs ==
  ASSUME NEW w \in Workers, Works(w), Works(w)', task'[w] = task[w], PhaseOf(w),
         lpc[w] \in Before, Executes(w)
  PROVE  PhaseOf(w)' /\ Contract(w)!Next
<1>1. Contract(w)!Next
  BY TaskExecutes DEF Contract!Next
<1>2. PhaseOf(w)'
  BY DEF PhaseOf, Executes, Cmd, FullResync, RdbFile
<1> QED BY <1>1, <1>2

(* A step between two of the contract's.                                   *)
LEMMA BetweenIs ==
  ASSUME NEW w \in Workers, Works(w), Works(w)', task'[w] = task[w], answer'[w] = answer[w],
         lpc[w] \in Before, lpc'[w] \in Before
  PROVE  UNCHANGED Contract(w)!state
<1>1. Stage(w) = "working" /\ Stage(w)' = "working" /\ Busy(w) /\ Busy(w)'
  BY WorksIs, WorksNext
<1>2. ~Ran(w) /\ ~Ran(w)' /\ Cmd(w)' = Cmd(w)
  BY DEF Before, Ran, Cmd
<1>3. Owed(w) = 0 /\ Owed(w)' = 0 /\ Handled(w) = 0 /\ Handled(w)' = 0
  BY <1>2 DEF Before, Owed, Handled
<1>4. lpc[w] # "end" /\ lpc'[w] # "end"
  BY DEF Before
<1> QED BY <1>1, <1>2, <1>3, <1>4 DEF Contract!state, Contract!work

Plain(r) == r \notin {FullResync, RdbFile}

LEMMA PlainAnswers ==
  /\ Plain(Nil) /\ \A x : Plain(Bulk(x)) /\ Plain(Simple(x))
  /\ \A x : Plain(<<"config", x>>) /\ Plain(<<"info", x>>) /\ Plain(<<"array", x>>)
BY DEF Plain, Nil, Bulk, Simple, FullResync, RdbFile

(* What every step of a command does for the contract.                     *)
Keeps(w) == PhaseOf(w)' /\ (Contract(w)!Next \/ UNCHANGED Contract(w)!state)

LEMMA ReadKeeps ==
  ASSUME ServerInv, NEW w \in Workers, Works(w), Works(w)', task'[w] = task[w], PhaseOf(w),
         \/ ParseECHO(w) \/ ParsePING(w) \/ ParseREPLCONF(w) \/ ParseUnknown(w)
         \/ ParseCONFIG(w) \/ ParseINFO(w) \/ ParseKEYS(w) \/ PSYNCOnSlave(w) \/ IgnoreText(w)
  PROVE  Keeps(w)
<1>0. LocalsOK
  BY DEF ServerInv
<1>1. lpc[w] \in Before
  BY DEF ParseECHO, ParsePING, ParseREPLCONF, ParseUnknown, ParseCONFIG, ParseINFO, ParseKEYS,
         PSYNCOnSlave, IgnoreText, Reads, Starts, At, Before
<1>2. \A op, r : Reads(w, op, r) => Cmd(w).op = op /\ lpc'[w] = "reply" /\ answer'[w] = r
  BY <1>0, ControlIs, Zenon DEF Reads, Starts
<1>3. Executes(w)
  <2>1. CASE ParseECHO(w) \/ ParsePING(w) \/ ParseREPLCONF(w) \/ ParseUnknown(w) \/ ParseINFO(w)
             \/ ParseKEYS(w)
    <3>1. /\ lpc'[w] = "reply" /\ Plain(answer'[w])
          /\ Cmd(w).op \in {"ECHO", "PING", "REPLCONF", "UNKNOWN", "INFO", "KEYS"}
      BY <1>2, <2>1, PlainAnswers, Zenon
      DEF ParseECHO, ParsePING, ParseREPLCONF, ParseUnknown, ParseINFO, ParseKEYS
    <3> QED BY <3>1 DEF Executes, Plain
  <2>2. CASE ParseCONFIG(w)
    <3>1. lpc'[w] = "reply" /\ Plain(answer'[w]) /\ Cmd(w).op = "CONFIG"
      BY <1>2, <2>2, PlainAnswers, Zenon DEF ParseCONFIG
    <3> QED BY <3>1 DEF Executes, Plain
  <2>3. CASE PSYNCOnSlave(w)
    BY <1>2, <2>3 DEF PSYNCOnSlave, Executes
  <2>4. CASE IgnoreText(w)
    BY <1>0, <2>4, ControlIs DEF IgnoreText, Starts, Executes
  <2> QED BY <2>1, <2>2, <2>3, <2>4
<1> QED BY <1>1, <1>3, ExecutionIs DEF Keeps

LEMMA BetweenKeeps ==
  ASSUME NEW w \in Workers, Works(w), Works(w)', task'[w] = task[w], answer'[w] = answer[w],
         lpc[w] \in Before, lpc'[w] \in Before \ {"start"},
         Cmd(w).op = IF lpc'[w] \in {"count", "addFd"} THEN "PSYNC" ELSE "GET"
  PROVE  Keeps(w)
<1>1. PhaseOf(w)'
  BY DEF PhaseOf, Cmd, Before
<1> QED BY <1>1, BetweenIs DEF Keeps

LEMMA GetSetKeeps ==
  ASSUME ServerInv, NEW w \in Workers, Works(w), Works(w)', task'[w] = task[w], PhaseOf(w),
         FindKey(w) \/ FetchKey(w) \/ EraseKey(w) \/ ParseSET(w)
  PROVE  Keeps(w)
<1>0. LocalsOK
  BY DEF ServerInv
<1>1. lpc[w] \in Before
  BY DEF FindKey, FetchKey, EraseKey, ParseSET, Starts, At, Before
<1>2. Cmd(w).op \in {"GET", "SET"}
  BY DEF FindKey, FetchKey, EraseKey, ParseSET, Starts, At, PhaseOf
<1>3. ASSUME NEW r, Answer(w, r), Plain(r) PROVE Executes(w)
  BY <1>0, <1>2, <1>3, ControlIs DEF Executes, Plain
<1>4. CASE \E r : Answer(w, r) /\ Plain(r)
  BY <1>1, <1>3, <1>4, ExecutionIs DEF Keeps
<1>5. CASE Goto(w, "fetch") /\ UNCHANGED answer /\ Cmd(w).op = "GET"
  <2>1. lpc'[w] = "fetch" /\ answer'[w] = answer[w]
    BY <1>0, <1>5, ControlIs
  <2> QED BY <1>1, <1>5, <2>1, BetweenKeeps DEF Before
<1>6. CASE Goto(w, "erase") /\ UNCHANGED answer /\ Cmd(w).op = "GET"
  <2>1. lpc'[w] = "erase" /\ answer'[w] = answer[w]
    BY <1>0, <1>6, ControlIs
  <2> QED BY <1>1, <1>6, <2>1, BetweenKeeps DEF Before
<1>7. CASE FindKey(w)
  BY <1>4, <1>5, <1>7, PlainAnswers, Zenon DEF FindKey, AnswerNil, Starts
<1>8. CASE FetchKey(w)
  <2>1. Cmd(w).op = "GET"
    BY <1>8 DEF FetchKey, At, PhaseOf
  <2> QED BY <1>4, <1>6, <1>8, <2>1, PlainAnswers, Zenon DEF FetchKey
<1>9. CASE EraseKey(w)
  BY <1>4, <1>9, PlainAnswers, Zenon DEF EraseKey, AnswerNil
<1>10. CASE ParseSET(w)
  BY <1>4, <1>10, PlainAnswers, Zenon DEF ParseSET
<1> QED BY <1>7, <1>8, <1>9, <1>10

LEMMA PSYNCKeeps ==
  ASSUME ServerInv, NEW w \in Workers, Works(w), Works(w)', task'[w] = task[w], PhaseOf(w),
         ReadSlaveCount(w) \/ StoreSlaveCount(w) \/ AddSlave(w)
  PROVE  Keeps(w)
<1>0. LocalsOK
  BY DEF ServerInv
<1>1. Cmd(w).op = "PSYNC" /\ lpc[w] \in Before
  BY DEF ReadSlaveCount, StoreSlaveCount, AddSlave, Starts, At, PhaseOf, Before
<1>2. CASE ReadSlaveCount(w) \/ StoreSlaveCount(w)
  <2>1. lpc'[w] \in {"count", "addFd"} /\ answer'[w] = answer[w]
    BY <1>0, <1>2, ControlIs DEF ReadSlaveCount, StoreSlaveCount
  <2> QED BY <1>1, <2>1, BetweenKeeps DEF Before
<1>3. CASE AddSlave(w)
  <2>1. lpc'[w] = "reply" /\ answer'[w] = FullResync
    BY <1>0, <1>3, ControlIs DEF AddSlave
  <2>2. Executes(w)
    BY <1>1, <2>1 DEF Executes
  <2> QED BY <1>1, <2>2, ExecutionIs DEF Keeps
<1> QED BY <1>2, <1>3

LEMMA SendKeeps ==
  ASSUME ServerInv, NEW w \in Workers, Works(w), Works(w)', task'[w] = task[w], PhaseOf(w),
         SendReply(w) \/ EndForward(w) \/ ForwardToSlave(w), crashed' = crashed,
         wpc'[w] = wpc[w]
  PROVE  Keeps(w)
<1>0. LocalsOK
  BY DEF ServerInv
<1>1. CASE SendReply(w)
  <2>1. lpc[w] = "reply"
    BY <1>1 DEF SendReply, At
  <2>2. \/ answer[w] = FullResync /\ lpc'[w] = "reply" /\ answer'[w] = RdbFile
        \/ /\ answer[w] # FullResync
           /\ lpc'[w] = IF Cmd(w).op = "SET" THEN "forward" ELSE "end"
    <3>1. CASE answer[w] = FullResync
      BY <1>0, <1>1, <3>1, ControlIs, Zenon DEF SendReply
    <3>2. CASE answer[w] # FullResync /\ Cmd(w).op = "SET"
      BY <1>0, <1>1, <3>2, ControlIs, Zenon DEF SendReply
    <3>3. CASE answer[w] # FullResync /\ Cmd(w).op # "SET"
      BY <1>0, <1>1, <3>3, ControlIs, Zenon DEF SendReply
    <3> QED BY <3>1, <3>2, <3>3
  <2>3. PhaseOf(w)'
    BY <2>1, <2>2 DEF PhaseOf, Cmd
  <2> QED BY <2>1, <2>2, <2>3, TaskReplies DEF Keeps, Contract!Next
<1>2. CASE EndForward(w)
  <2>1. lpc[w] = "forward" /\ lpc'[w] = "end"
    BY <1>0, <1>2, ControlIs DEF EndForward, At
  <2>2. PhaseOf(w)'
    BY <2>1 DEF PhaseOf
  <2> QED BY <2>1, <2>2, TaskForwards DEF Keeps, Contract!Next
<1>3. CASE ForwardToSlave(w)
  <2>1. UNCHANGED <<lpc, answer>>
    BY <1>3, Zenon DEF ForwardToSlave
  <2>2. SameTask(w)
    BY <2>1 DEF SameTask
  <2>3. PhaseOf(w)'
    BY <2>1 DEF PhaseOf, Cmd, FullResync, RdbFile
  <2> QED BY <2>2, <2>3, Unaffected DEF Keeps
<1> QED BY <1>1, <1>2, <1>3

(* A step of one worker: the others have no task before or after it.       *)
LEMMA OwnStep ==
  ASSUME NEW w \in Workers, OthersFree(w), Busy(w)' => PhaseOf(w)',
         Contract(w)!Next \/ UNCHANGED Contract(w)!state
  PROVE  PhaseInv' /\ \A v \in Workers : Contract(v)!Next \/ UNCHANGED Contract(v)!state
<1>1. PhaseInv'
  BY DEF PhaseInv, OthersFree
<1>2. ASSUME NEW v \in Workers PROVE Contract(v)!Next \/ UNCHANGED Contract(v)!state
  BY OthersUnaffected
<1> QED BY <1>1, <1>2

LEMMA CommandKeeps ==
  ASSUME ServerInv, PhaseInv, ~crashed, NEW w \in Workers, CommandStep(w)
  PROVE  OthersFree(w) /\ Keeps(w)
<1>1. UNCHANGED poolVars
  BY CommandKeepsPool
<1>2. wpc' = wpc /\ task' = task /\ crashed' = crashed /\ mtx' = mtx
  BY <1>1 DEF poolVars
<1>3. wpc[w] = "running"
  BY Zenon
  DEF CommandStep, Reads, ParseECHO, ParsePING, ParseREPLCONF, ParseUnknown, ParseCONFIG,
      ParseINFO, ParseKEYS, IgnoreText, FindKey, FetchKey, EraseKey, ParseSET, ForwardToSlave,
      EndForward, ReadSlaveCount, StoreSlaveCount, AddSlave, PSYNCOnSlave, SendReply, Starts, At
<1>4. Works(w) /\ Works(w)' /\ Busy(w)
  BY <1>2, <1>3 DEF Works, Busy
<1>5. PhaseOf(w)
  BY <1>4 DEF PhaseInv
<1>6. mtx = w /\ MutexInv /\ MutexInv'
  BY <1>2, <1>4 DEF ServerInv, MutexInv, Busy
<1>7. OthersFree(w)
  BY <1>2, <1>6, OthersAreFree
<1>8. Keeps(w)
  BY <1>2, <1>4, <1>5, ReadKeeps, GetSetKeeps, PSYNCKeeps, SendKeeps DEF CommandStep
<1> QED BY <1>7, <1>8

LEMMA PoolTasks ==
  ASSUME ServerInv, MutexInv', PhaseInv, ~crashed, NEW w \in Workers,
         BeginTask(w) \/ EndTask(w) \/ FailTask(w)
  PROVE  OthersFree(w) /\ (Busy(w)' => PhaseOf(w)')
         /\ (Contract(w)!Next \/ UNCHANGED Contract(w)!state)
<1>0. LocalsOK /\ PoolDataInv /\ MutexInv
  BY DEF ServerInv
<1>t. wpc \in [Workers -> WorkerPC] /\ task \in [Workers -> Tasks \cup {NoTask}]
  BY <1>0 DEF PoolDataInv
<1>1. CASE BeginTask(w)
  <2>1. /\ mtx = Free /\ mtx' = w /\ wpc'[w] = "running" /\ task'[w] = Head(queue)
        /\ queue # <<>> /\ crashed' = crashed /\ lpc'[w] = "start"
    BY <1>0, <1>t, <1>1, ControlIs DEF BeginTask, WorkerTake
  <2>2. OthersFree(w) /\ ~Busy(w)
    BY <1>0, <2>1, OthersAreFree, FreeAssumption DEF MutexInv
  <2>3. Head(queue) \in Tasks
    BY <1>0, <2>1 DEF PoolDataInv
  <2>4. task'[w].cmd \in Payloads
    BY <2>1, <2>3 DEF Tasks
  <2>5. Works(w)'
    BY <2>1 DEF Works
  <2>6. PhaseOf(w)'
    BY <2>1 DEF PhaseOf
  <2> QED BY <2>1, <2>2, <2>4, <2>5, <2>6, TaskBegins DEF Contract!Next
<1>2. CASE EndTask(w)
  <2>1. /\ wpc[w] = "running" /\ wpc'[w] = "lock" /\ mtx' = Free /\ lpc[w] = "end"
    BY <1>t, <1>2 DEF EndTask, TaskEnd
  <2>2. mtx = w
    BY <1>0, <2>1 DEF MutexInv, Busy
  <2>3. OthersFree(w) /\ ~Busy(w)' /\ Works(w)
    BY <1>0, <2>1, <2>2, OthersAreFree DEF Busy, Works
  <2> QED BY <2>1, <2>3, TaskEnds DEF Contract!Next
<1>3. CASE FailTask(w)
  <2>1. /\ wpc[w] = "running" /\ UNCHANGED svars /\ mtx' = mtx /\ task' = task
    BY <1>3, Zenon DEF FailTask, TaskHang, TaskCrash
  <2>2. mtx = w /\ Works(w) /\ Busy(w)
    BY <1>0, <2>1 DEF MutexInv, Busy, Works
  <2>3. OthersFree(w) /\ PhaseOf(w)
    BY <1>0, <2>1, <2>2, OthersAreFree DEF PhaseInv
  <2>4. lpc' = lpc /\ answer' = answer
    BY <2>1 DEF svars
  <2>5. PhaseOf(w)'
    BY <2>1, <2>3, <2>4 DEF PhaseOf, Cmd, FullResync, RdbFile
  <2>6. \/ /\ wpc'[w] = "hung" /\ (lpc[w] \in {"start", "reply"} \/ Replied(w))
        \/ wpc'[w] = wpc[w] /\ crashed' /\ lpc[w] \in {"start", "reply", "forward"}
    BY <1>t, <1>3 DEF FailTask, TaskHang, TaskCrash
  <2>7. CASE wpc'[w] = "hung" /\ (lpc[w] \in {"start", "reply"} \/ Replied(w))
    BY <2>1, <2>2, <2>3, <2>4, <2>5, <2>7, TaskHangs DEF Contract!Next
  <2>8. CASE wpc'[w] = wpc[w] /\ crashed' /\ lpc[w] \in {"start", "reply", "forward"}
    BY <2>1, <2>2, <2>3, <2>4, <2>5, <2>8, TaskDies DEF Contract!Next
  <2> QED BY <2>6, <2>7, <2>8
<1> QED BY <1>1, <1>2, <1>3

(* The steps in which no task takes part.                                  *)
Apart ==
  /\ UNCHANGED <<lpc, answer, crashed>>
  /\ \A v \in Workers : (Busy(v)' <=> Busy(v)) /\ (Busy(v) => wpc'[v] = wpc[v])
                        /\ task'[v] = task[v]

LEMMA ApartSteps ==
  ASSUME PoolDataInv,
         \/ \E c \in Clients : ConnectionStep(c)
         \/ \E w \in Workers : IdleStep(w)
         \/ Tick \/ SetClockBack \/ UNCHANGED vars
  PROVE  Apart
<1>0. wpc \in [Workers -> WorkerPC]
  BY DEF PoolDataInv
<1>1. ASSUME NEW c \in Clients, ConnectionStep(c) PROVE Apart
  <2>1. UNCHANGED <<lpc, answer, task, crashed>>
    BY <1>1, Zenon
    DEF ConnectionStep, svars, Accept, Hangup, PushTask, Recv, NotifyOne
  <2>2. wpc' = wpc \/ NotifyOne(c)
    BY <1>1, Zenon DEF ConnectionStep, Accept, Hangup, PushTask, Recv
  <2>3. CASE wpc' = wpc
    BY <2>1, <2>3 DEF Apart, Busy
  <2>4. CASE NotifyOne(c)
    BY <1>0, <2>1, <2>4 DEF NotifyOne, Apart, Busy
  <2> QED BY <2>2, <2>3, <2>4
<1>2. ASSUME NEW w \in Workers, IdleStep(w) PROVE Apart
  <2>1. UNCHANGED <<lpc, answer, task, crashed>>
    BY <1>2, Zenon DEF IdleStep, svars, WorkerWait, SpuriousWake
  <2> QED BY <1>0, <1>2, <2>1 DEF IdleStep, WorkerWait, SpuriousWake, Apart, Busy
<1>3. CASE Tick \/ SetClockBack \/ UNCHANGED vars
  <2>1. UNCHANGED <<lpc, answer, task, crashed, wpc>>
    BY <1>3, Zenon DEF Tick, SetClockBack, vars, svars, locals, poolVars
  <2> QED BY <2>1 DEF Apart, Busy
<1> QED BY <1>1, <1>2, <1>3

LEMMA ApartKeeps ==
  ASSUME PhaseInv, Apart
  PROVE  PhaseInv' /\ \A v \in Workers : Contract(v)!Next \/ UNCHANGED Contract(v)!state
<1>1. ASSUME NEW v \in Workers PROVE UNCHANGED Contract(v)!state
  <2>1. SameTask(v) \/ (~Busy(v) /\ ~Busy(v)')
    BY DEF Apart, SameTask
  <2> QED BY <2>1, Unaffected
<1>2. ASSUME NEW v \in Workers, Busy(v)' PROVE PhaseOf(v)'
  <2>1. PhaseOf(v) /\ task'[v] = task[v] /\ lpc' = lpc /\ answer' = answer
    BY <1>2 DEF Apart, PhaseInv
  <2> QED BY <2>1 DEF PhaseOf, Cmd, FullResync, RdbFile
<1> QED BY <1>1, <1>2 DEF PhaseInv

LEMMA TasksStep ==
  ASSUME ServerInv, PhaseInv, [Next]_vars
  PROVE  PhaseInv' /\ \A v \in Workers : Contract(v)!Next \/ UNCHANGED Contract(v)!state
<1>1. ASSUME NEW w \in Workers, ~crashed, CommandStep(w)
      PROVE  PhaseInv' /\ \A v \in Workers : Contract(v)!Next \/ UNCHANGED Contract(v)!state
  BY <1>1, CommandKeeps, OwnStep DEF Keeps
<1>2. ASSUME NEW w \in Workers, ~crashed, BeginTask(w) \/ EndTask(w) \/ FailTask(w)
      PROVE  PhaseInv' /\ \A v \in Workers : Contract(v)!Next \/ UNCHANGED Contract(v)!state
  <2>1. MutexInv'
    BY ServerStep DEF ServerInv
  <2> QED BY <1>2, <2>1, PoolTasks, OwnStep
<1>3. CASE \/ \E c \in Clients : ConnectionStep(c)
           \/ \E w \in Workers : IdleStep(w)
           \/ Tick \/ SetClockBack \/ UNCHANGED vars
  BY <1>3, ApartSteps, ApartKeeps DEF ServerInv
<1> QED BY <1>1, <1>2, <1>3, Zenon DEF Next

LEMMA TasksInit == Init => PhaseInv /\ \A w \in Workers : Contract(w)!Init
<1> SUFFICES ASSUME Init, NEW w \in Workers PROVE ~Busy(w) /\ Contract(w)!Init
  BY DEF PhaseInv
<1>1. ~Busy(w)
  BY DEF Init, PoolInit, Busy
<1>2. ~Ran(w)
  BY <1>1 DEF Ran
<1>3. Owed(w) = 0 /\ Handled(w) = 0 /\ Stage(w) = "idle"
  BY <1>1, <1>2 DEF Owed, Handled, Stage, Busy
<1>4. [i \in 1..0 |-> i] = <<>>
  OBVIOUS
<1> QED BY <1>1, <1>2, <1>3, <1>4 DEF Contract!Init

(* Every task of the server does what the contract allows: each command    *)
(* is answered by the replies it owes, in order, a SET is acknowledged     *)
(* before it is propagated, and a task hangs or dies only where the two    *)
(* threads of ResponseChannel may.                                         *)
THEOREM TasksKept == Spec => TasksKeepContract
<1>1. ServerInv /\ PhaseInv /\ [Next]_vars =>
        /\ PhaseInv'
        /\ [\A w \in Workers : Contract(w)!Next \/ UNCHANGED Contract(w)!state]_vars
  BY TasksStep
<1> QED BY ServerInit, ServerStep, TasksInit, <1>1, PTL DEF Spec, TasksKeepContract
=============================================================================
