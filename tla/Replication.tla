----------------------------- MODULE Replication -----------------------------
(***************************************************************************)
(* A master, its clients and one replica, which is the process of Startup, *)
(* with the connection between them.  TCP keeps the order of the bytes and *)
(* nothing else: recv() may return several messages at once, or part of    *)
(* one, and each chunk it returns becomes a task of its own.  Tasks run    *)
(* one at a time and in the order of their connection (ClientHandler), so  *)
(* a chunk is taken here when its task starts.  Tasks do not hang here;    *)
(* ResponseChannel and RedisServer say when they do.                       *)
(*                                                                         *)
(* SET is a whole command.  A long one, that recv() may cut, is three      *)
(* pieces: KEY up to its value, VAL the first part and REST the remainder  *)
(* of the value.  The RDB file is two: SUM, within its checksum, starts    *)
(* with a byte '*'.                                                        *)
(*                                                                         *)
(* An array that answers a command looks like a command to the process     *)
(* that reads it.  OTHER is an array whose first string is no name of a    *)
(* command here, and any command answered as such an array is, with a bulk *)
(* string (ECHO, GET, INFO); EMPTY is the array of no strings; HEAD is an  *)
(* array cut before its first string, TEXT what a cut leaves of a message. *)
(***************************************************************************)
EXTENDS Startup

CONSTANTS
  Keys, Values,        \* what clients set; no key is the name of a command
  ClientChunks,        \* what recv() may return for the clients of the master
  MaxClientChunks,     \* bound: chunks from clients
  Garbled,             \* a value that holds bytes of other commands
  NoEntry              \* a key that is not in a database

Commands == {"PING", "REPLCONF", "PSYNC", "KEYS", "CONFIG", "OTHER", "SET", "KEY"}
Texts == {"VAL", "REST", "OK", "PONG", "BULK", "FULLRESYNC", "RDB", "TEXT"}
Ops == Commands \cup Texts \cup {"SUM", "EMPTY", "HEAD"}

VARIABLES
  down,             \* what the master has written to the replica and it has not read
  slaves,           \* times the connection is in the master's connected_slaves_fd
  master, replica,  \* the two databases
  mtask,            \* the master's task: from, input, rest (not executed), sets (not forwarded)
  rtask,            \* the replica's task on the master's connection: rest
  given,            \* number of client chunks taken
  fresh,            \* history: keys set since the replica was registered
  skipped,          \* history: the replica threw away a SET or part of one, or added to one
  merged            \* history: a recv() returned not just what one send() wrote

replVars == <<down, slaves, master, replica, mtask, rtask, given, fresh, skipped, merged>>
vars == <<startVars, up, replVars>>

Idle == [from |-> "none", input |-> <<>>, rest |-> <<>>, sets |-> 0]
EmptyDatabase == [k \in Keys |-> NoEntry]

Init ==
  /\ StartInit
  /\ down = <<>> /\ slaves = 0
  /\ master = EmptyDatabase /\ replica = EmptyDatabase
  /\ mtask = Idle /\ rtask = <<>>
  /\ given = 0 /\ fresh = {} /\ skipped = FALSE /\ merged = FALSE

-----------------------------------------------------------------------------
(* parseRESPCommand and parseBulkString, on the pieces of a chunk          *)

IsSet(m) == m.op \in {"SET", "KEY"}

(* What clients send; the replica is the only one that sends PSYNC.  KEYS  *)
(* looks for one key, CONFIG is a CONFIG GET of dir or dbfile.             *)
ClientPieces ==
  {p \in [op : {"PING", "REPLCONF", "KEYS", "CONFIG", "OTHER", "SET", "KEY", "VAL", "REST"},
          key : Keys \cup {Blank}, val : Values \cup {Blank}, last : BOOLEAN] :
     IsSet(p) \/ p.op = "KEYS" => p.key \in Keys}
ASSUME ChunksAssumption == ClientChunks \subseteq Seq(ClientPieces)

(* The next byte is '*'.                                                   *)
AtArray(c) == c # <<>> /\ c[1].op \notin Texts

M_ThrowsOnText(c) == c # <<>> /\ (c[1].op \notin Commands \/ (c[1].op = "KEY" /\ Len(c) = 1))

(* No '$' where a bulk string should be, or no number after '*' or '$'.    *)
Throws(c) ==
  /\ c # <<>>
  /\ \/ c[1].op \in {"SUM", "HEAD"}
     \/ c[1].op = "KEY" /\ Len(c) = 1
     \/ c[1].op = "EMPTY" /\ (Len(c) > 1 => c[2].op # "BULK")

Whole(c) == c[1].op = "SET" \/ (Len(c) > 2 /\ c[3].op = "REST")

(* The value of a SET whose end is missing is what there is of it, and the *)
(* bytes of the next command if another one follows.                       *)
Stored(c) ==
  CASE Whole(c)                 -> c[1].val
    [] ~Whole(c) /\ Len(c) = 2  -> <<"cut", c[1].val>>
    [] ~Whole(c) /\ Len(c) > 2  -> Garbled

(* What parseSETCommand goes on with: the next command, if it is there.    *)
(* After a value that is cut it reads input[pos] past the end of the       *)
(* chunk: no '*', or one that makes substr() throw.                        *)
AfterSet(c) ==
  LET rest == IF c[1].op = "SET" THEN Tail(c) ELSE SubSeq(c, 4, Len(c)) IN
    IF Whole(c) /\ AtArray(rest) THEN rest ELSE <<>>

MayThrow(c) == Throws(c) \/ (AtArray(c) /\ IsSet(c[1]) /\ ~Whole(c))

(* A command other than SET, that is answered, and the replies to it.      *)
Answers(c) ==
  /\ c # <<>> /\ ~Throws(c)
  /\ c[1].op \in {"PING", "REPLCONF", "PSYNC", "KEYS", "CONFIG", "OTHER", "EMPTY"}

Replies(m, database) ==
  CASE m.op = "PING"     -> <<Message("PONG", Blank)>>
    [] m.op = "REPLCONF" -> <<Message("OK", Blank)>>
    [] m.op = "PSYNC"    -> <<Message("FULLRESYNC", Blank), Piece("RDB", Blank, Blank, FALSE),
                              Message("SUM", Blank)>>
    [] m.op = "KEYS"     -> LET found == database[m.key] # NoEntry IN
                              <<Message(IF found THEN "OTHER" ELSE "EMPTY", Blank)>>
    [] m.op = "CONFIG"   -> <<Message("OTHER", Blank)>>
    [] m.op \in {"OTHER", "EMPTY"} -> <<Message("BULK", Blank)>>

(* recv() returns the first n pieces of a stream.                          *)
OneSend(s, n) == s[n].last /\ \A m \in 1..(n - 1) : ~s[m].last
Drop(s, n) == SubSeq(s, n + 1, Len(s))

-----------------------------------------------------------------------------
(* The master                                                              *)

MasterRuns == masterUp /\ mtask.rest # <<>>

TakeClientChunk(c) ==
  /\ masterUp /\ mtask = Idle /\ given < MaxClientChunks
  /\ mtask' = [from |-> "client", input |-> c, rest |-> c, sets |-> 0]
  /\ given' = given + 1
  /\ UNCHANGED <<startVars, up, down, slaves, master, replica, rtask, fresh, skipped, merged>>

TakeFromReplica(c, left) ==
  /\ masterUp /\ mtask = Idle
  /\ mtask' = [from |-> "replica", input |-> c, rest |-> c, sets |-> 0]
  /\ up' = left
  /\ UNCHANGED <<startVars, down, slaves, master, replica, rtask, given, fresh, skipped>>

TakeReplicaChunk(n) ==
  /\ TakeFromReplica(SubSeq(up, 1, n), Drop(up, n))
  /\ merged' = (merged \/ ~OneSend(up, n))

(* What recv() returns of a message it cuts: of a command nothing of its   *)
(* name, part of it, or all of it and less of the rest.  A bulk string     *)
(* counts behind an empty array only, other text not at all.               *)
Cuts(op) ==
  CASE op \in Commands -> {"HEAD", "OTHER", op}
    [] op = "EMPTY"    -> {"HEAD"}
    [] op = "BULK"     -> {"BULK", "TEXT"}
    [] op \notin Commands \cup {"EMPTY", "BULK"} -> {}

CutReplicaChunk(n, op) ==
  /\ TakeFromReplica(Append(SubSeq(up, 1, n - 1), Message(op, Blank)),
                     <<Message("TEXT", Blank)>> \o Drop(up, n))
  /\ merged' = TRUE

MasterIgnores ==
  /\ MasterRuns /\ ~AtArray(mtask.rest) /\ mtask' = [mtask EXCEPT !.rest = <<>>]
  /\ UNCHANGED <<startVars, up, down, slaves, master, replica, rtask, given, fresh, skipped, merged>>

MasterThrows ==
  /\ MasterRuns /\ MayThrow(mtask.rest) /\ masterUp' = FALSE
  /\ UNCHANGED <<args, config, role, masterAddr, masterFd, mpc, loaded, bound, up, replVars>>

(* The database is written; +OK goes to the sender, a client.              *)
MasterSets ==
  /\ MasterRuns /\ ~Throws(mtask.rest) /\ IsSet(mtask.rest[1])
  /\ LET c == mtask.rest IN
       /\ master' = [master EXCEPT ![c[1].key] = Stored(c)]
       /\ fresh' = IF slaves > 0 THEN fresh \cup {c[1].key} ELSE fresh
       /\ mtask' = [mtask EXCEPT !.rest = AfterSet(c), !.sets = @ + 1]
  /\ UNCHANGED <<startVars, up, down, slaves, replica, rtask, given, skipped, merged>>

(* send() on the replica's connection, its result not looked at.  When the *)
(* replica is gone the bytes are lost, or SIGPIPE ends the master.         *)
SendToReplica(ms) ==
  \/ Alive /\ down' = down \o ms /\ UNCHANGED masterUp
  \/ ~Alive /\ masterUp' \in {TRUE, ms = <<>>} /\ UNCHANGED down

(* Only a SET goes on to the command that follows it.  PSYNC registers the *)
(* replica before it answers.                                              *)
MasterReplies ==
  /\ MasterRuns /\ Answers(mtask.rest)
  /\ SendToReplica(IF mtask.from = "replica" THEN Replies(mtask.rest[1], master) ELSE <<>>)
  /\ slaves' = IF mtask.rest[1].op = "PSYNC" THEN slaves + 1 ELSE slaves
  /\ mtask' = [mtask EXCEPT !.rest = <<>>]
  /\ UNCHANGED <<args, config, role, masterAddr, masterFd, mpc, loaded, bound, up, master, replica,
                 rtask, given, fresh, skipped, merged>>

Copies(s, n) == [m \in 1..(n * Len(s)) |-> s[((m - 1) % Len(s)) + 1]]

M_ForwardFirst ==
  /\ masterUp /\ mtask.rest = <<>> /\ mtask.sets > 0
  /\ mtask' = [mtask EXCEPT !.sets = @ - 1]
  /\ down' = down \o Copies(<<mtask.input[1]>>, slaves)
  /\ UNCHANGED <<startVars, up, slaves, master, replica, rtask, given, fresh, skipped, merged>>

(* Once per SET executed, when the last one has returned: the whole input, *)
(* to every slave.                                                         *)
MasterForwards ==
  /\ masterUp /\ mtask.rest = <<>> /\ mtask.sets > 0
  /\ mtask' = [mtask EXCEPT !.sets = @ - 1]
  /\ SendToReplica(Copies(mtask.input, slaves))
  /\ UNCHANGED <<args, config, role, masterAddr, masterFd, mpc, loaded, bound, up, slaves, master,
                 replica, rtask, given, fresh, skipped, merged>>

MasterEnds ==
  /\ masterUp /\ mtask # Idle /\ mtask.rest = <<>> /\ mtask.sets = 0 /\ mtask' = Idle
  /\ UNCHANGED <<startVars, up, down, slaves, master, replica, rtask, given, fresh, skipped, merged>>

-----------------------------------------------------------------------------
(* The replica, on the connection to the master                            *)

ReplicaRuns == Alive /\ rtask # <<>>

TakeMasterChunk(n) ==
  /\ Alive /\ ThreadStarted /\ rtask = <<>>
  /\ rtask' = SubSeq(down, 1, n) /\ down' = Drop(down, n)
  /\ merged' = (merged \/ ~OneSend(down, n))
  /\ UNCHANGED <<startVars, up, slaves, master, replica, mtask, given, fresh, skipped>>

HoldsSet(c) == \E m \in 1..Len(c) : IsSet(c[m])

(* Answers to the handshake, the RDB file, and all that comes with them.   *)
ReplicaIgnores ==
  /\ ReplicaRuns /\ ~AtArray(rtask) /\ rtask' = <<>>
  /\ skipped' = (skipped \/ HoldsSet(rtask))
  /\ UNCHANGED <<startVars, up, down, slaves, master, replica, mtask, given, fresh, merged>>

ReplicaThrows ==
  /\ ReplicaRuns /\ MayThrow(rtask) /\ mpc' = "ended"
  /\ UNCHANGED <<args, config, role, masterAddr, masterFd, masterUp, loaded, bound, up, replVars>>

(* The bytes of another send() have become the end of a value that is cut. *)
Padded(c) == ~Whole(c) /\ Len(c) > 2 /\ c[2].last

M_ReplicaSetsOnce ==
  /\ ReplicaRuns /\ ~Throws(rtask) /\ IsSet(rtask[1])
  /\ replica' = [replica EXCEPT ![rtask[1].key] = Stored(rtask)]
  /\ skipped' = \/ skipped \/ HoldsSet(Tail(rtask)) \/ Padded(rtask)
                \/ ~Whole(rtask) /\ down # <<>> /\ down[1].op = "REST"
  /\ rtask' = <<>>
  /\ SendToMaster(Message("OK", Blank), mpc)
  /\ UNCHANGED <<args, config, role, masterAddr, masterFd, masterUp, loaded, bound, down, slaves,
                 master, mtask, given, fresh, merged>>

(* A SET is executed and answered, on the same connection; a slave does    *)
(* not forward it.                                                         *)
ReplicaSets ==
  /\ ReplicaRuns /\ ~Throws(rtask) /\ IsSet(rtask[1])
  /\ replica' = [replica EXCEPT ![rtask[1].key] = Stored(rtask)]
  /\ skipped' = \/ skipped \/ Padded(rtask)
                \/ HoldsSet(Tail(rtask)) /\ AfterSet(rtask) = <<>>
                \/ ~Whole(rtask) /\ down # <<>> /\ down[1].op = "REST"
  /\ rtask' = AfterSet(rtask)
  /\ SendToMaster(Message("OK", Blank), mpc)
  /\ UNCHANGED <<args, config, role, masterAddr, masterFd, masterUp, loaded, bound, down, slaves,
                 master, mtask, given, fresh, merged>>

(* Another command, forwarded behind a SET.                                *)
ReplicaReplies ==
  /\ ReplicaRuns /\ Answers(rtask)
  /\ skipped' = (skipped \/ HoldsSet(rtask)) /\ rtask' = <<>>
  /\ SendToMaster(Head(Replies(rtask[1], replica)), mpc)
  /\ UNCHANGED <<args, config, role, masterAddr, masterFd, masterUp, loaded, bound, down, slaves,
                 master, replica, mtask, given, fresh, merged>>

-----------------------------------------------------------------------------
MasterStep ==
  \/ MasterIgnores \/ MasterThrows \/ MasterSets \/ MasterReplies \/ MasterForwards \/ MasterEnds
MasterTakes ==
  \E n \in 1..Len(up) : TakeReplicaChunk(n) \/ \E op \in Cuts(up[n].op) : CutReplicaChunk(n, op)
ReplicaStep ==
  \/ ReplicaIgnores \/ ReplicaThrows \/ ReplicaSets \/ ReplicaReplies
  \/ \E n \in 1..Len(down) : TakeMasterChunk(n)

Next ==
  \/ (StartStep \/ AcceptFails) /\ UNCHANGED replVars
  \/ \E c \in ClientChunks : TakeClientChunk(c)
  \/ MasterTakes \/ MasterStep \/ ReplicaStep

Spec == Init /\ [][Next]_vars

(* main and the threads of both processes are scheduled, and a thread in   *)
(* recv() gets what has been sent.  Clients need not send anything, and    *)
(* nothing makes accept() fail.                                            *)
FairSpec ==
  /\ Spec
  /\ WF_vars(StartStep /\ UNCHANGED replVars)
  /\ WF_vars(MasterStep) /\ WF_vars(MasterTakes) /\ WF_vars(ReplicaStep)

-----------------------------------------------------------------------------
(* Properties                                                              *)

(* The types of the two processes and of the streams between them; the     *)
(* replica is registered once at most.                                     *)
ReplicationTypeOK ==
  /\ mpc \in {"args", "listen", "thread", "accept", "ended"} \/ Handshaking
  /\ role \in {"master", "slave"} /\ masterFd \in {"none", "unconnected", "connected"}
  /\ \A n \in 1..Len(up) : up[n].op \in {"PING", "REPLCONF", "PSYNC", "OK", "PONG", "BULK",
                                          "OTHER", "EMPTY", "TEXT"}
  /\ \A n \in 1..Len(down) : down[n].op \in Ops \ {"EMPTY", "HEAD", "TEXT"}
  /\ slaves \in {0, 1} /\ (slaves = 1 => masterFd = "connected")
  /\ DOMAIN master = Keys /\ DOMAIN replica = Keys /\ fresh \subseteq Keys

(* Nothing is on its way from the master's database to the replica's.      *)
Settled == Alive /\ masterUp /\ mtask = Idle /\ down = <<>> /\ rtask = <<>>

InSync == \A k \in fresh : replica[k] = master[k]

(* "any SET commands given to the Master Server will be propagated to the  *)
(* Slave servers automatically".                                           *)
Propagated == Settled => InSync

(* A replica that has thrown nothing away has the master's value for every *)
(* key set since it was registered, once everything has arrived: repeated  *)
(* chunks, long values the master has cut, and commands recv() returned    *)
(* together do no harm.                                                    *)
PropagatedUnlessSkipped == ~skipped => Propagated

(* The replica throws away a SET only if a recv() returned it together     *)
(* with other bytes, or in parts.                                          *)
SkipsNeedMerging == skipped => merged

(* Before a SET of what one send() wrote come only whole SETs.             *)
SameSend(s, m, n) == \A k \in m..(n - 1) : ~s[k].last
OfWholeSet(s, m, n) ==
  /\ s[m].op \in {"SET", "KEY", "VAL", "REST"}
  /\ s[m].op = "KEY" => m + 2 < n /\ s[m + 1].op = "VAL" /\ s[m + 2].op = "REST"
  /\ s[m].op = "VAL" => m > 1 /\ ~s[m - 1].last /\ s[m - 1].op = "KEY"
  /\ s[m].op = "REST" => m > 2 /\ ~s[m - 1].last /\ ~s[m - 2].last /\ s[m - 2].op = "KEY"
Orderly(s) ==
  \A m, n \in 1..Len(s) :
    m < n /\ IsSet(s[n]) /\ SameSend(s, m, n) => OfWholeSet(s, m, n)

(* Clients for which it does not: a chunk is forwarded by one send(), and  *)
(* in one that starts with a SET no other command, whose end parseCommand  *)
(* takes for that of the chunk, comes before a SET.                        *)
OrderlyClients ==
  \A c \in ClientChunks :
    /\ \A n \in 1..Len(c) : c[n].last <=> n = Len(c)
    /\ c # <<>> /\ IsSet(c[1]) => Orderly(c)

(* Clients that send whole commands, wherever recv() cuts the stream.      *)
Framed(c) ==
  \A n \in 1..(Len(c) - 1) :
    (c[n].op = "KEY" <=> c[n + 1].op = "VAL") /\ (c[n].op = "VAL" <=> c[n + 1].op = "REST")
FramedClients == \A c \in ClientChunks : Framed(c)

(* The master dies of a client's incomplete command or by writing to a     *)
(* replica that is gone; of what the replica sends only if recv() has cut  *)
(* a message of it, or if it answers a KEYS, forwarded behind a SET, that  *)
(* finds nothing.  Every other answer and every text is harmless.          *)
MasterDies ==
  ~masterUp =>
    \/ ~Alive
    \/ mtask.from = "client" /\ MayThrow(mtask.rest)
    \/ mtask.from = "replica" /\ merged /\ mtask.rest[1].op = "HEAD"
    \/ mtask.from = "replica" /\ mtask.rest[1].op = "EMPTY"

(* A slave that has sent its handshake over a connection is registered, if *)
(* both processes live and no two of the messages arrive together.         *)
HandshakeRegisters ==
  mpc = "accept" /\ masterFd = "connected" ~>
    slaves = 1 \/ merged \/ ~Alive \/ ~masterUp
=============================================================================
