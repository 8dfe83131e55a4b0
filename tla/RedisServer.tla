----------------------------- MODULE RedisServer -----------------------------
(***************************************************************************)
(* The server: the connection threads and the pool of ClientHandler, and   *)
(* what the running tasks do to the state they share: DatabaseHandler's    *)
(* map of keys to values with an expiry time, and ServerInfo's list of     *)
(* connected slaves.  A running task is the command handlers of            *)
(* RedisParser, in the steps other threads could interleave with.  Each    *)
(* chunk holds one command here; ResponseChannel has the pipelined inputs  *)
(* and the way a reply gets from the parser thread to the socket.          *)
(***************************************************************************)
EXTENDS ClientHandler

SeqX == INSTANCE SequencesExt

CONSTANTS
  Keys, Values,   \* small sets of keys and values
  ConfigNames,    \* the configuration variables CONFIG GET knows
  Matches,        \* the keys each pattern of KEYS matches (std::regex_match)
  Role,           \* ServerInfo::role
  Stalled,        \* slaves that read nothing: send() to them blocks for ever
  MaxTime,        \* bound: the clock
  EmptyString,    \* the value of a DBValue built without arguments
  NoEntry         \* a key that is not in the database

Ops == {"ECHO", "PING", "SET", "GET", "CONFIG", "KEYS", "INFO", "REPLCONF", "PSYNC",
        "UNKNOWN", "TEXT"}

(* px is <<>> without, <<t>> with a PX option.                             *)
Commands == [op : Ops, key : Keys, val : Values, px : {s \in Seq(Nat) : Len(s) <= 1}]
Entries  == [value : Values, expiry_time : Nat]

ASSUME CommandsAssumption == Payloads \subseteq Commands
ASSUME EmptyAssumption    == EmptyString \in Values
ASSUME MatchesAssumption  == Matches \in [Keys -> SUBSET Keys]
ASSUME RoleAssumption     == Role \in {"master", "slave"}
ASSUME NoEntryAssumption  == NoEntry \notin Entries
ASSUME TimeAssumption     == MaxTime \in Nat

VARIABLES
  database,          \* DatabaseHandler::database
  connected_slaves,  \* ServerInfo::connected_slaves
  slave_fds,         \* ServerInfo::connected_slaves_fd
  now,               \* get_current_time_milli, the wall clock
  lpc, tmp, answer,  \* per running task: control, an int local, the reply
  out,               \* everything written to each descriptor, in order
  latest,            \* history: what the last SET of each key stored
  gone,              \* history: keys a GET has answered nil for since their last SET
  highest,           \* history: the latest time the clock has shown
  setLog,            \* history: the SET commands executed, in order
  since              \* history: Len(setLog) when each of slave_fds was appended

shared == <<database, connected_slaves, slave_fds, out, latest, gone, setLog, since>>
locals == <<lpc, tmp, answer>>
clock  == <<now, highest>>
svars  == <<database, connected_slaves, slave_fds, now, lpc, tmp, answer, out,
            latest, gone, highest, setLog, since>>
vars   == <<poolVars, svars>>

StepPC == {"start", "fetch", "erase", "count", "addFd", "reply", "forward", "end"}

Nil        == <<"nil">>
Bulk(v)    == <<"bulk", v>>
Simple(s)  == <<"simple", s>>
FullResync == <<"fullresync">>
RdbFile    == <<"rdb">>

Init ==
  /\ PoolInit
  /\ database = [k \in Keys |-> NoEntry]
  /\ connected_slaves = 0 /\ slave_fds = <<>>
  /\ now = 1 /\ highest = 1
  /\ lpc = [w \in Workers |-> "end"]
  /\ tmp = [w \in Workers |-> 0]
  /\ answer = [w \in Workers |-> Nil]
  /\ out = [c \in Clients |-> <<>>]
  /\ latest = [k \in Keys |-> NoEntry]
  /\ gone = {}
  /\ setLog = <<>> /\ since = <<>>

-----------------------------------------------------------------------------
Cmd(w) == task[w].cmd

At(w, pc) == wpc[w] = "running" /\ lpc[w] = pc
Starts(w, op) == At(w, "start") /\ Cmd(w).op = op
Goto(w, pc) == lpc' = [lpc EXCEPT ![w] = pc]

(* enqueueMessage: the reply is on its way to the client.                  *)
Answer(w, r) == Goto(w, "reply") /\ answer' = [answer EXCEPT ![w] = r]

(* DatabaseHandler::get serves an entry without expiry, or before it.      *)
Live(e, t) == e.expiry_time = 0 \/ t < e.expiry_time

(* A command that only reads: no shared state changes.                     *)
Reads(w, op, r) ==
  /\ Starts(w, op) /\ Answer(w, r)
  /\ UNCHANGED <<poolVars, shared, clock, tmp>>

ParseECHO(w)     == Reads(w, "ECHO", Bulk(Cmd(w).val))
ParsePING(w)     == Reads(w, "PING", Simple("PONG"))
ParseREPLCONF(w) == Reads(w, "REPLCONF", Simple("OK"))
ParseUnknown(w)  == Reads(w, "UNKNOWN", Nil)
ParseCONFIG(w)   ==
  Reads(w, "CONFIG", IF Cmd(w).key \in ConfigNames THEN <<"config", Cmd(w).key>> ELSE Nil)
ParseINFO(w)     == Reads(w, "INFO", <<"info", connected_slaves>>)

(* The keys in the map that match; expired ones not yet erased are listed. *)
ParseKEYS(w) ==
  Reads(w, "KEYS", <<"array", {k \in Matches[Cmd(w).key] : database[k] # NoEntry}>>)

M_IgnoreTextForEver(w) ==
  /\ Starts(w, "TEXT") /\ UNCHANGED <<poolVars, svars>>

(* Input that is not an array: no reply.                                   *)
IgnoreText(w) ==
  /\ Starts(w, "TEXT") /\ Goto(w, "end")
  /\ UNCHANGED <<poolVars, shared, clock, tmp, answer>>

-----------------------------------------------------------------------------
(* parseGETCommand and DatabaseHandler::get, without database_mutex        *)

AnswerNil(w) == Answer(w, Nil) /\ gone' = gone \cup {Cmd(w).key}

FindKey(w) ==
  /\ Starts(w, "GET")
  /\ \/ database[Cmd(w).key] = NoEntry /\ AnswerNil(w)
     \/ database[Cmd(w).key] # NoEntry /\ Goto(w, "fetch") /\ UNCHANGED <<answer, gone>>
  /\ UNCHANGED <<poolVars, database, connected_slaves, slave_fds, out, latest, setLog, since,
                 clock, tmp>>

(* database[key] inserts an empty value if the key is gone since the find. *)
EntryOf(k) ==
  IF database[k] = NoEntry THEN [value |-> EmptyString, expiry_time |-> 0] ELSE database[k]

M_ServeExpired(w) ==
  /\ At(w, "fetch") /\ Answer(w, Bulk(EntryOf(Cmd(w).key).value))
  /\ UNCHANGED <<poolVars, shared, clock, tmp>>

M_ExpireUnset(w) ==
  /\ At(w, "fetch")
  /\ LET e == EntryOf(Cmd(w).key) IN
       \/ now < e.expiry_time /\ Answer(w, Bulk(e.value))
       \/ now >= e.expiry_time /\ Goto(w, "erase") /\ UNCHANGED answer
  /\ UNCHANGED <<poolVars, shared, clock, tmp>>

FetchKey(w) ==
  /\ At(w, "fetch")
  /\ LET e == EntryOf(Cmd(w).key) IN
       /\ database' = [database EXCEPT ![Cmd(w).key] = e]
       /\ \/ Live(e, now) /\ Answer(w, Bulk(e.value))
          \/ ~Live(e, now) /\ Goto(w, "erase") /\ UNCHANGED answer
  /\ UNCHANGED <<poolVars, connected_slaves, slave_fds, out, latest, gone, setLog, since, clock, tmp>>

M_Tombstone(w) ==
  /\ At(w, "erase") /\ Answer(w, Nil)
  /\ database' = [database EXCEPT ![Cmd(w).key] = [value |-> EmptyString, expiry_time |-> 0 - 1]]
  /\ UNCHANGED <<poolVars, connected_slaves, slave_fds, out, latest, gone, setLog, since, clock, tmp>>

M_KeepExpired(w) ==
  /\ At(w, "erase") /\ AnswerNil(w)
  /\ UNCHANGED <<poolVars, database, connected_slaves, slave_fds, out, latest, setLog, since,
                 clock, tmp>>

EraseKey(w) ==
  /\ At(w, "erase") /\ AnswerNil(w)
  /\ database' = [database EXCEPT ![Cmd(w).key] = NoEntry]
  /\ UNCHANGED <<poolVars, connected_slaves, slave_fds, out, latest, setLog, since, clock, tmp>>

-----------------------------------------------------------------------------
(* parseSETCommand                                                         *)

ExpiryTime(cmd) == IF cmd.px = <<>> THEN 0 ELSE now + cmd.px[1]

(* DatabaseHandler::set under database_mutex, then +OK.                    *)
ParseSET(w) ==
  /\ Starts(w, "SET") /\ Answer(w, Simple("OK"))
  /\ LET cmd == Cmd(w)
         e   == [value |-> cmd.val, expiry_time |-> ExpiryTime(cmd)] IN
       /\ database' = [database EXCEPT ![cmd.key] = e]
       /\ latest' = [latest EXCEPT ![cmd.key] = e]
       /\ gone' = gone \ {cmd.key}
       /\ setLog' = Append(setLog, cmd)
  /\ tmp' = [tmp EXCEPT ![w] = 0]
  /\ UNCHANGED <<poolVars, connected_slaves, slave_fds, out, since, clock>>

(* The propagation loop: one send() per connected slave; a slave that does *)
(* not read blocks it.                                                     *)
ForwardToSlave(w) ==
  /\ At(w, "forward") /\ Role = "master" /\ tmp[w] < connected_slaves
  /\ LET fd == slave_fds[tmp[w] + 1] IN
       /\ fd \notin Stalled
       /\ out' = [out EXCEPT ![fd] = Append(@, <<"set", Cmd(w)>>)]
  /\ tmp' = [tmp EXCEPT ![w] = @ + 1]
  /\ UNCHANGED <<poolVars, database, connected_slaves, slave_fds, latest, gone, setLog, since,
                 clock, lpc, answer>>

M_EndForwardEarly(w) ==
  /\ At(w, "forward") /\ (Role = "slave" \/ tmp[w] + 1 >= connected_slaves)
  /\ Goto(w, "end")
  /\ UNCHANGED <<poolVars, shared, clock, tmp, answer>>

EndForward(w) ==
  /\ At(w, "forward") /\ (Role = "slave" \/ tmp[w] >= connected_slaves)
  /\ Goto(w, "end")
  /\ UNCHANGED <<poolVars, shared, clock, tmp, answer>>

-----------------------------------------------------------------------------
(* parsePSYNCCommand                                                       *)

(* get_connected_slaves() is read ...                                      *)
ReadSlaveCount(w) ==
  /\ Starts(w, "PSYNC") /\ Role = "master"
  /\ tmp' = [tmp EXCEPT ![w] = connected_slaves]
  /\ Goto(w, "count")
  /\ UNCHANGED <<poolVars, shared, clock, answer>>

(* ... update_connected_slaves stores it plus one ...                      *)
StoreSlaveCount(w) ==
  /\ At(w, "count")
  /\ connected_slaves' = tmp[w] + 1
  /\ Goto(w, "addFd")
  /\ UNCHANGED <<poolVars, database, slave_fds, out, latest, gone, setLog, since, clock, tmp, answer>>

(* ... and add_connected_slave appends the descriptor.                     *)
AddSlave(w) ==
  /\ At(w, "addFd") /\ Answer(w, FullResync)
  /\ slave_fds' = Append(slave_fds, task[w].fd)
  /\ since' = Append(since, Len(setLog))
  /\ UNCHANGED <<poolVars, database, connected_slaves, out, latest, gone, setLog, clock, tmp>>

(* A slave answers PSYNC too, but registers nobody.                        *)
PSYNCOnSlave(w) == Role = "slave" /\ Reads(w, "PSYNC", FullResync)

-----------------------------------------------------------------------------
M_SendNoRdb(w) ==
  /\ At(w, "reply")
  /\ out' = [out EXCEPT ![task[w].fd] = Append(@, answer[w])]
  /\ Goto(w, IF Cmd(w).op = "SET" THEN "forward" ELSE "end")
  /\ UNCHANGED <<poolVars, database, connected_slaves, slave_fds, latest, gone, setLog, since,
                 clock, tmp, answer>>

(* response_handler sends the reply; PSYNC has a second one, the RDB file, *)
(* SET goes on to propagate itself.                                        *)
SendReply(w) ==
  /\ At(w, "reply")
  /\ out' = [out EXCEPT ![task[w].fd] = Append(@, answer[w])]
  /\ \/ /\ answer[w] = FullResync /\ Answer(w, RdbFile)
     \/ /\ answer[w] # FullResync /\ Cmd(w).op = "SET" /\ Goto(w, "forward")
        /\ UNCHANGED answer
     \/ /\ answer[w] # FullResync /\ Cmd(w).op # "SET" /\ Goto(w, "end")
        /\ UNCHANGED answer
  /\ UNCHANGED <<poolVars, database, connected_slaves, slave_fds, latest, gone, setLog, since,
                 clock, tmp>>

CommandStep(w) ==
  \/ ParseECHO(w) \/ ParsePING(w) \/ ParseREPLCONF(w) \/ ParseUnknown(w)
  \/ ParseCONFIG(w) \/ ParseINFO(w) \/ ParseKEYS(w) \/ IgnoreText(w)
  \/ FindKey(w) \/ FetchKey(w) \/ EraseKey(w)
  \/ ParseSET(w) \/ ForwardToSlave(w) \/ EndForward(w)
  \/ ReadSlaveCount(w) \/ StoreSlaveCount(w) \/ AddSlave(w) \/ PSYNCOnSlave(w)
  \/ SendReply(w)

(* The pool starts and ends the tasks.                                     *)
BeginTask(w) ==
  /\ WorkerTake(w) /\ Goto(w, "start")
  /\ UNCHANGED <<shared, clock, tmp, answer>>

EndTask(w) == TaskEnd(w) /\ lpc[w] = "end" /\ UNCHANGED svars

(* A reply has been sent, and the task has done nothing since.             *)
Replied(w) ==
  \/ At(w, "forward") /\ tmp[w] = 0
  \/ At(w, "end") /\ Cmd(w).op \notin {"TEXT", "SET"}

(* A wakeup may be lost before the first command and after every reply,    *)
(* and the client may read none; the process may end at the first command, *)
(* at a reply, and at a send() to a slave that is gone.                    *)
FailTask(w) ==
  /\ \/ (lpc[w] \in {"start", "reply"} \/ Replied(w)) /\ TaskHang(w)
     \/ lpc[w] \in {"start", "reply", "forward"} /\ TaskCrash(w)
  /\ UNCHANGED svars

ConnectionStep(c) ==
  /\ Accept(c) \/ Hangup(c) \/ PushTask(c) \/ NotifyOne(c) \/ \E p \in Payloads : Recv(c, p)
  /\ UNCHANGED svars

IdleStep(w) == (WorkerWait(w) \/ SpuriousWake(w)) /\ UNCHANGED svars

Tick ==
  /\ now < MaxTime /\ now' = now + 1
  /\ highest' = IF now + 1 > highest THEN now + 1 ELSE highest
  /\ UNCHANGED <<poolVars, shared, locals>>

(* system_clock is the wall clock, which may be set back.                  *)
SetClockBack ==
  /\ \E t \in 1..(now - 1) : now' = t
  /\ UNCHANGED <<poolVars, shared, locals, highest>>

Next ==
  /\ ~crashed
  /\ \/ \E c \in Clients : ConnectionStep(c)
     \/ \E w \in Workers : IdleStep(w) \/ BeginTask(w) \/ EndTask(w) \/ FailTask(w)
     \/ \E w \in Workers : CommandStep(w)
     \/ Tick \/ SetClockBack

Spec == Init /\ [][Next]_vars

(* Threads are scheduled: a connection's thread that finds mtx free for    *)
(* good gets it, a queued task is taken when mtx stays free, and a command *)
(* goes on.  Clients, time and failures are not obliged to act.            *)
FairSpec ==
  /\ Spec
  /\ \A c \in Clients : WF_vars(~crashed /\ (PushTask(c) \/ NotifyOne(c)) /\ UNCHANGED svars)
  /\ WF_vars(~crashed /\ \E w \in Workers : BeginTask(w))
  /\ \A w \in Workers : WF_vars(~crashed /\ (CommandStep(w) \/ EndTask(w)))

-----------------------------------------------------------------------------
(* Properties                                                              *)

Running(w, op) == wpc[w] = "running" /\ Cmd(w).op = op

(* The types of the shared state and of the running tasks' locals.         *)
StoreOK  == /\ database \in [Keys -> Entries \cup {NoEntry}]
            /\ latest \in [Keys -> Entries \cup {NoEntry}]
            /\ now \in Nat /\ highest \in Nat /\ gone \subseteq Keys
SlavesOK == /\ connected_slaves \in Nat /\ slave_fds \in Seq(Clients)
            /\ setLog \in Seq(Commands) /\ since \in Seq(Nat)
LocalsOK == /\ lpc \in [Workers -> StepPC] /\ tmp \in [Workers -> Nat]
            /\ DOMAIN answer = Workers /\ DOMAIN out = Clients
ServerTypeOK == PoolTypeOK /\ StoreOK /\ SlavesOK /\ LocalsOK

(* connected_slaves is the length of connected_slaves_fd whenever no PSYNC *)
(* is between its two updates, and the propagation loop never indexes past *)
(* the vector: the unlocked read-increment-store is never interleaved.     *)
SlaveListConsistent ==
  /\ (\A w \in Workers : ~At(w, "addFd")) => connected_slaves = Len(slave_fds)
  /\ \A w \in Workers :
       At(w, "forward") /\ tmp[w] < connected_slaves => tmp[w] < Len(slave_fds)

(* The clock has shown the time at which the entry expires.                *)
Expired(e) == ~Live(e, highest)

(* The database holds what the last SET of a key stored, unless that entry *)
(* has expired and was erased: the erase of an expired entry in GET, which *)
(* takes no lock, never removes a value stored since the entry was read.   *)
NoFreshKeyErased ==
  \A k \in Keys :
    \/ database[k] = latest[k]
    \/ database[k] = NoEntry /\ Expired(latest[k])

Answers(w) == Running(w, "GET") /\ lpc[w] # "reply" /\ lpc'[w] = "reply"

(* When the answer of a GET is decided it is the value of the last SET of  *)
(* its key, which has not expired by the clock, or nil, if there is none   *)
(* or the clock has shown the time of its expiry.                          *)
GetAnswerCurrent ==
  [][\A w \in Workers : Answers(w) =>
       LET e == latest[Cmd(w).key] IN
         \/ answer'[w] = Nil /\ (e = NoEntry \/ Expired(e))
         \/ answer'[w] = Bulk(e.value) /\ e # NoEntry /\ Live(e, now)]_vars

(* A key for which a GET was answered nil stays away until it is set       *)
(* again, even if the clock is set back to before its expiry.              *)
NilUntilSet ==
  [][\A w \in Workers :
       Answers(w) /\ Cmd(w).key \in gone => answer'[w] = Nil]_vars

(* On the connection of a slave, no propagated SET comes before the        *)
(* FULLRESYNC reply and the RDB file of its PSYNC, although PSYNC          *)
(* registers the slave before it sends them.                               *)
RdbBeforeCommands ==
  \A c \in Clients : \A i \in 1..Len(out[c]) :
    out[c][i][1] = "set" => \E j \in 1..(i - 1) : out[c][j] = RdbFile

IsSetMessage(m) == m[1] = "set"
SetsIn(s) ==
  SeqX!FlattenSeq([i \in 1..Len(s) |-> IF IsSetMessage(s[i]) THEN <<s[i]>> ELSE <<>>])

(* The first n SETs executed, as c is to be sent them: each as many times  *)
(* as c had been registered by then.                                       *)
Copies(c, i) == Cardinality({j \in 1..Len(slave_fds) : slave_fds[j] = c /\ since[j] < i})
Feed(c, n) ==
  SeqX!FlattenSeq([i \in 1..n |-> [j \in 1..Copies(c, i) |-> <<"set", setLog[i]>>]])

(* A SET has been executed and not yet been propagated to every slave.     *)
InSet(w) == Busy(w) /\ Cmd(w).op = "SET" /\ lpc[w] \notin {"start", "end"}

(* Every slave is sent every SET executed since it was registered, in the  *)
(* order the master executed them; a connection that sent PSYNC twice is   *)
(* sent each of them twice, and two registrations never drop or swap one.  *)
FeedComplete ==
  (\A w \in Workers : ~InSet(w)) =>
    \A c \in Clients : SetsIn(out[c]) = Feed(c, Len(setLog))

(* "The SET command is non-blocking for the Master Server": a SET received *)
(* from a client is acknowledged even if a slave does not read.            *)
SetNonBlocking ==
  \A c \in Clients :
    rpc[c] = "enqueue" /\ recvStr[c].cmd.op = "SET" ~>
      \E i \in 1..Len(out[c]) : out[c][i] = Simple("OK")

(* The running task of a worker, as its contract sees it.                  *)
Ran(w) == Busy(w) /\ lpc[w] \in {"reply", "forward", "end"}
Owed(w) ==
  IF Busy(w) /\ lpc[w] = "reply" THEN (IF answer[w] = FullResync THEN 2 ELSE 1) ELSE 0
Handled(w) ==
  IF ~Ran(w) THEN 0
  ELSE IF lpc[w] = "reply" THEN (IF answer[w] = RdbFile THEN 1 ELSE 0)
  ELSE IF Cmd(w).op = "TEXT" THEN 0 ELSE IF Cmd(w).op = "PSYNC" THEN 2 ELSE 1
Stage(w) ==
  IF wpc[w] = "hung" THEN "hung" ELSE IF wpc[w] # "running" THEN "idle"
  ELSE IF crashed THEN "dead" ELSE "working"

Contract(w) == INSTANCE TaskContract WITH
  Chunks    <- {<<p.op>> : p \in Payloads},
  stage     <- Stage(w),
  chunk     <- IF Busy(w) THEN <<Cmd(w).op>> ELSE <<>>,
  ran       <- IF Ran(w) THEN 1 ELSE 0,
  owed      <- Owed(w),
  handled   <- Handled(w),
  sent      <- [i \in 1..Handled(w) |-> i],
  applied   <- IF Ran(w) /\ Cmd(w).op = "SET" THEN 1 ELSE 0,
  forwarded <- IF Busy(w) /\ lpc[w] = "end" /\ Cmd(w).op = "SET" THEN 1 ELSE 0

(* Each worker's tasks do what the contract of ResponseChannel allows and  *)
(* no more: PSYNC's two replies, the acknowledgement of a SET before its   *)
(* propagation, and the points at which a task may hang or die.            *)
TasksKeepContract ==
  /\ \A w \in Workers : Contract(w)!Init
  /\ [][\A w \in Workers : Contract(w)!Next \/ UNCHANGED Contract(w)!state]_vars
=============================================================================
