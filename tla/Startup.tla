------------------------------- MODULE Startup -------------------------------
(***************************************************************************)
(* main: the command line is read option by option, and --replicaof        *)
(* connects at once; then the RDB file is loaded, the port opened, and a   *)
(* slave sends its four handshake messages, without waiting for an answer, *)
(* while a thread started before them already serves the master's          *)
(* connection.  Then clients are accepted.  A failed connect() is only     *)
(* logged.                                                                 *)
(***************************************************************************)
EXTENDS Naturals, Sequences

CONSTANTS
  CommandLines,   \* sequences of options: [name, given, value]
  DefaultPort,    \* DEFUALT_PORT
  NoFile, NoPort, \* no RDB file read yet, no port bound yet
  Blank           \* a part of a message the models do not look at

ASSUME LinesAssumption ==
  \A line \in CommandLines : \A n \in 1..Len(line) :
    DOMAIN line[n] = {"name", "given", "value"}

VARIABLES
  args,        \* the options still to be read
  config,      \* config::dir, dbfilename and port
  role,        \* ServerInfo::role
  masterAddr,  \* master_ip and master_port
  masterFd,    \* master_fd: "none", "unconnected" or "connected"
  masterUp,    \* the master's process is there
  mpc,         \* control of main
  loaded,      \* the file RedisRDBParser was given
  bound,       \* the port server_fd is bound to
  up           \* what master_fd has written and the master has not read

startVars == <<args, config, role, masterAddr, masterFd, masterUp, mpc, loaded, bound>>

(* A piece of a stream; last marks the end of what one send() wrote.       *)
Piece(op, k, v, last) == [op |-> op, key |-> k, val |-> v, last |-> last]
Message(op, v) == Piece(op, v, v, TRUE)

NoAddress == <<"", 0>>

StartInit ==
  /\ args \in CommandLines
  /\ config = [dir |-> "", dbfilename |-> "", port |-> DefaultPort]
  /\ role = "master" /\ masterAddr = NoAddress /\ masterFd = "none"
  /\ masterUp = TRUE
  /\ mpc = "args" /\ loaded = NoFile /\ bound = NoPort
  /\ up = <<>>

-----------------------------------------------------------------------------
(* parseCommandLineArgs                                                    *)

AtOption(name) ==
  /\ mpc = "args" /\ args # <<>>
  /\ Head(args).name = name /\ Head(args).given
  /\ args' = Tail(args)

Value == Head(args).value

SetDir ==
  /\ AtOption("--dir") /\ config' = [config EXCEPT !.dir = Value]
  /\ UNCHANGED <<role, masterAddr, masterFd, masterUp, mpc, loaded, bound, up>>

SetDbfilename ==
  /\ AtOption("--dbfilename") /\ config' = [config EXCEPT !.dbfilename = Value]
  /\ UNCHANGED <<role, masterAddr, masterFd, masterUp, mpc, loaded, bound, up>>

(* std::stoi throws if the value is no number (<<>>).                      *)
SetPort ==
  /\ AtOption("--port")
  /\ \/ Value # <<>> /\ config' = [config EXCEPT !.port = Value[1]] /\ UNCHANGED mpc
     \/ Value = <<>> /\ mpc' = "ended" /\ UNCHANGED config
  /\ UNCHANGED <<role, masterAddr, masterFd, masterUp, loaded, bound, up>>

(* get_master_ip_port: the pattern's "\b" is a backspace, so that an IP    *)
(* address does not match and leaves the address as it was.                *)
MatchedAddress(v) ==
  IF v[1] = "localhost" THEN <<"127.0.0.1", v[2]>> ELSE masterAddr

(* No connection is possible to port 0; to another one it may fail.        *)
ConnectToMaster ==
  \/ masterFd' = "connected" /\ masterAddr'[2] # 0
  \/ masterFd' = "unconnected"

SetReplicaOf ==
  /\ AtOption("--replicaof")
  /\ role' = "slave" /\ masterAddr' = MatchedAddress(Value) /\ ConnectToMaster
  /\ UNCHANGED <<config, masterUp, mpc, loaded, bound, up>>

(* Any other word, and an option without a value at the end of the line.   *)
SkipWord ==
  /\ mpc = "args" /\ args # <<>> /\ args' = Tail(args)
  /\ \/ Head(args).name \notin {"--dir", "--dbfilename", "--port", "--replicaof"}
     \/ ~Head(args).given
  /\ UNCHANGED <<config, role, masterAddr, masterFd, masterUp, mpc, loaded, bound, up>>

-----------------------------------------------------------------------------
(* main                                                                    *)

M_LoadBeforeArgs ==
  /\ mpc = "args" /\ (args = <<>> \/ loaded = NoFile)
  /\ mpc' = IF args = <<>> THEN "listen" ELSE mpc
  /\ loaded' = IF loaded = NoFile THEN <<config.dir, config.dbfilename>> ELSE loaded
  /\ UNCHANGED <<args, config, role, masterAddr, masterFd, masterUp, bound, up>>

(* The file is loaded; RdbLoader has this step in full.                    *)
LoadRdb ==
  /\ mpc = "args" /\ args = <<>> /\ mpc' = "listen"
  /\ loaded' = <<config.dir, config.dbfilename>>
  /\ UNCHANGED <<args, config, role, masterAddr, masterFd, masterUp, bound, up>>

(* socket, setsockopt, bind, listen: any of them may fail and end main.    *)
OpenPort ==
  /\ mpc = "listen"
  /\ \/ bound' = config.port /\ mpc' = IF role = "slave" THEN "thread" ELSE "accept"
     \/ mpc' = "ended" /\ UNCHANGED bound
  /\ UNCHANGED <<args, config, role, masterAddr, masterFd, masterUp, loaded, up>>

(* The thread that serves the connection to the master is started first.   *)
StartMasterThread ==
  /\ mpc = "thread" /\ mpc' = "ping"
  /\ UNCHANGED <<args, config, role, masterAddr, masterFd, masterUp, loaded, bound, up>>

(* send() on master_fd.  Without a connection, or when the master is gone, *)
(* the bytes are lost, or SIGPIPE ends the process.                        *)
SendToMaster(m, there) ==
  \/ masterFd = "connected" /\ masterUp /\ up' = Append(up, m) /\ mpc' = there
  \/ ~(masterFd = "connected" /\ masterUp) /\ mpc' \in {there, "ended"} /\ UNCHANGED up

M_SendDefaultPort ==
  /\ mpc = "listening-port" /\ SendToMaster(Message("REPLCONF", DefaultPort), "capa")
  /\ UNCHANGED <<args, config, role, masterAddr, masterFd, masterUp, loaded, bound>>

(* send_handshake.  The sleeps of 50 ms between the messages promise       *)
(* nothing about what the master has read.                                 *)
SendPing ==
  /\ mpc = "ping" /\ SendToMaster(Message("PING", Blank), "listening-port")
  /\ UNCHANGED <<args, config, role, masterAddr, masterFd, masterUp, loaded, bound>>
SendListeningPort ==
  /\ mpc = "listening-port" /\ SendToMaster(Message("REPLCONF", config.port), "capa")
  /\ UNCHANGED <<args, config, role, masterAddr, masterFd, masterUp, loaded, bound>>
SendCapa ==
  /\ mpc = "capa" /\ SendToMaster(Message("REPLCONF", Blank), "psync")
  /\ UNCHANGED <<args, config, role, masterAddr, masterFd, masterUp, loaded, bound>>
M_PsyncAgain ==
  /\ mpc = "psync" /\ \E there \in {"psync", "accept"} : SendToMaster(Message("PSYNC", Blank), there)
  /\ UNCHANGED <<args, config, role, masterAddr, masterFd, masterUp, loaded, bound>>
M_NoPsync ==
  /\ mpc = "psync" /\ mpc' = "accept"
  /\ UNCHANGED <<args, config, role, masterAddr, masterFd, masterUp, loaded, bound, up>>
SendPsync ==
  /\ mpc = "psync" /\ SendToMaster(Message("PSYNC", Blank), "accept")
  /\ UNCHANGED <<args, config, role, masterAddr, masterFd, masterUp, loaded, bound>>

(* accept() fails, for one because no descriptor is left: main returns.    *)
AcceptFails ==
  /\ mpc = "accept" /\ mpc' = "ended"
  /\ UNCHANGED <<args, config, role, masterAddr, masterFd, masterUp, loaded, bound, up>>

StartStep ==
  \/ SetDir \/ SetDbfilename \/ SetPort \/ SetReplicaOf \/ SkipWord
  \/ LoadRdb \/ OpenPort \/ StartMasterThread
  \/ SendPing \/ SendListeningPort \/ SendCapa \/ SendPsync

-----------------------------------------------------------------------------
(* Properties                                                              *)

Alive == mpc # "ended"

Handshaking == mpc \in {"ping", "listening-port", "capa", "psync"}

(* The thread of the master's connection is running.                       *)
ThreadStarted == Handshaking \/ (mpc = "accept" /\ role = "slave")

(* Whatever the order of the options: when a command may be executed, for  *)
(* the master or for a client, the RDB file the command line names has     *)
(* been loaded, so that loading overwrites nothing, and the port it names  *)
(* is open.                                                                *)
SetUpBeforeService ==
  ThreadStarted \/ mpc = "accept" =>
    loaded = <<config.dir, config.dbfilename>> /\ bound = config.port

(* The port a slave announces in its handshake is the one it listens on.   *)
PortAnnounced ==
  \A n \in 1..Len(up) :
    up[n].op = "REPLCONF" /\ up[n].val # Blank => up[n].val = bound
=============================================================================
