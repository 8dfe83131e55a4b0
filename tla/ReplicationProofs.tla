-------------------------- MODULE ReplicationProofs --------------------------
(***************************************************************************)
(* Theorems about Startup and Replication, for every set of command lines, *)
(* every set of client chunks and every way recv() cuts the streams.       *)
(***************************************************************************)
EXTENDS Replication, Streams

(* What a replica may ever write on the connection to its master, and what *)
(* a cut leaves of it.                                                     *)
ReplicaOps == {"PING", "REPLCONF", "PSYNC", "OK", "PONG", "FULLRESYNC", "OTHER", "EMPTY", "BULK",
               "TEXT"}

Announces(m) == m.op = "REPLCONF" /\ m.val # Blank

(* The file is loaded, then the port opened, then the handshake begun.     *)
SetUpInv ==
  /\ mpc \in {"listen", "thread", "accept"} \/ Handshaking =>
       loaded = <<config.dir, config.dbfilename>>
  /\ mpc \in {"thread", "accept"} \/ Handshaking => bound = config.port

(* Nothing is announced before the port is open.                           *)
StreamInv ==
  /\ IsSeq(up)
  /\ \A n \in 1..Len(up) :
       /\ up[n].op \in ReplicaOps
       /\ Announces(up[n]) => up[n].val = bound /\ mpc \notin {"args", "listen"}

(* A task on what the replica has sent never meets a SET; an array without *)
(* its first string only if a message has been cut.                        *)
TaskInv ==
  /\ \E f, i, r, n : mtask = [from |-> f, input |-> i, rest |-> r, sets |-> n]
  /\ mtask.from \in {"none", "client", "replica"}
  /\ mtask.from = "none" => mtask.rest = <<>>
  /\ mtask.from = "replica" /\ mtask.rest # <<>> =>
       \/ mtask.rest[1].op \in ReplicaOps
       \/ mtask.rest[1].op = "HEAD" /\ merged

IInv == SetUpInv /\ StreamInv /\ TaskInv /\ MasterDies

-----------------------------------------------------------------------------
LEMMA DropIsSeq ==
  ASSUME NEW s, IsSeq(s), NEW n \in 1..Len(s)
  PROVE  /\ IsSeq(Drop(s, n)) /\ Len(s) \in Nat
         /\ \A m \in 1..Len(Drop(s, n)) : \E k \in 1..Len(s) : Drop(s, n)[m] = s[k]
         /\ SubSeq(s, 1, n) # <<>> /\ SubSeq(s, 1, n)[1] = s[1]
  <1>1. PICK S : s \in Seq(S) BY DEF IsSeq
  <1>2. /\ Drop(s, n) \in Seq(S) /\ Len(Drop(s, n)) = Len(s) - n
        /\ \A m \in 1..(Len(s) - n) : Drop(s, n)[m] = s[n + m]
    BY <1>1 DEF Drop
  <1>3. SubSeq(s, 1, n) \in Seq(S) /\ Len(SubSeq(s, 1, n)) = n /\ SubSeq(s, 1, n)[1] = s[1]
    BY <1>1
  <1>4. SubSeq(s, 1, n) # <<>> BY <1>3
  <1>5. \A m \in 1..Len(Drop(s, n)) : \E k \in 1..Len(s) : Drop(s, n)[m] = s[k]
    <2> TAKE m \in 1..Len(Drop(s, n))
    <2>1. Len(s) \in Nat BY <1>1
    <2>2. n + m \in 1..Len(s) /\ Drop(s, n)[m] = s[n + m] BY <1>2, <2>1
    <2> QED BY <2>2
  <1>6. IsSeq(Drop(s, n)) BY <1>2 DEF IsSeq
  <1>7. Len(s) \in Nat BY <1>1
  <1> QED BY <1>3, <1>4, <1>5, <1>6, <1>7

(* What is written keeps the stream as it should be.                       *)
LEMMA SendKeepsStream ==
  ASSUME StreamInv, NEW m, NEW there, SendToMaster(m, there),
         m.op \in ReplicaOps,
         Announces(m) => m.val = bound /\ mpc' \notin {"args", "listen"},
         mpc \in {"args", "listen"} \/ mpc' \notin {"args", "listen"},
         bound' = bound
  PROVE  StreamInv'
  <1>1. CASE up' = up BY <1>1 DEF StreamInv
  <1>2. CASE up' = Append(up, m)
    <2>1. IsSeq(up) BY DEF StreamInv
    <2>2. IsSeq(up') /\ Len(up) \in Nat /\ Len(up') = Len(up) + 1 /\ up'[Len(up) + 1] = m
          /\ \A n \in 1..Len(up) : up'[n] = up[n]
      BY <1>2, <2>1, AppendIsSeq
    <2>3. ASSUME NEW n \in 1..Len(up')
          PROVE  /\ up'[n].op \in ReplicaOps
                 /\ Announces(up'[n]) => up'[n].val = bound' /\ mpc' \notin {"args", "listen"}
      <3>1. CASE n = Len(up) + 1 BY <3>1, <2>2
      <3>2. CASE n \in 1..Len(up) BY <3>2, <2>2 DEF StreamInv
      <3> QED BY <3>1, <3>2, <2>2
    <2> QED BY <2>2, <2>3 DEF StreamInv, Announces
  <1> QED BY <1>1, <1>2 DEF SendToMaster

-----------------------------------------------------------------------------
(* Start-up                                                                *)

LEMMA StartKeepsSetUp ==
  ASSUME SetUpInv, StartStep \/ AcceptFails
  PROVE  SetUpInv'
  <1> USE DEF SetUpInv, Handshaking
  <1>1. CASE SetDir \/ SetDbfilename \/ SetPort \/ SetReplicaOf \/ SkipWord
    <2>1. mpc = "args" /\ mpc' \in {"args", "ended"}
      BY <1>1 DEF SetDir, SetDbfilename, SetPort, SetReplicaOf, SkipWord, AtOption
    <2> QED BY <2>1
  <1>2. CASE LoadRdb BY <1>2 DEF LoadRdb
  <1>3. CASE OpenPort BY <1>3 DEF OpenPort
  <1>4. CASE StartMasterThread BY <1>4 DEF StartMasterThread
  <1>5. CASE SendPing BY <1>5 DEF SendPing, SendToMaster
  <1>6. CASE SendListeningPort BY <1>6 DEF SendListeningPort, SendToMaster
  <1>7. CASE SendCapa BY <1>7 DEF SendCapa, SendToMaster
  <1>8. CASE SendPsync BY <1>8 DEF SendPsync, SendToMaster
  <1>9. CASE AcceptFails BY <1>9 DEF AcceptFails
  <1> QED BY <1>1, <1>2, <1>3, <1>4, <1>5, <1>6, <1>7, <1>8, <1>9 DEF StartStep

LEMMA StartKeepsStream ==
  ASSUME SetUpInv, StreamInv, StartStep \/ AcceptFails
  PROVE  StreamInv'
  <1> USE DEF ReplicaOps, Announces
  <1>1. CASE SetDir \/ SetDbfilename \/ SetPort \/ SetReplicaOf \/ SkipWord \/ LoadRdb
             \/ StartMasterThread \/ AcceptFails
    <2>1. /\ up' = up /\ bound' = bound
          /\ mpc \in {"args", "listen"} \/ mpc' \notin {"args", "listen"}
      BY <1>1 DEF SetDir, SetDbfilename, SetPort, SetReplicaOf, SkipWord, AtOption, LoadRdb,
                  StartMasterThread, AcceptFails
    <2> QED BY <2>1 DEF StreamInv
  <1>2. CASE OpenPort
    <2>1. up' = up /\ mpc = "listen" BY <1>2 DEF OpenPort
    <2> QED BY <2>1 DEF StreamInv
  <1>3. CASE SendPing
    <2> DEFINE m == Message("PING", Blank)
    <2>1. m.op = "PING" BY DEF Message, Piece
    <2>2. SendToMaster(m, "listening-port") /\ bound' = bound /\ mpc = "ping" BY <1>3 DEF SendPing
    <2>3. mpc' \notin {"args", "listen"} BY <2>2 DEF SendToMaster
    <2> HIDE DEF m
    <2> QED BY <2>1, <2>2, <2>3, SendKeepsStream
  <1>4. CASE SendListeningPort
    <2> DEFINE m == Message("REPLCONF", config.port)
    <2>1. m.op = "REPLCONF" /\ m.val = config.port BY DEF Message, Piece
    <2>2. SendToMaster(m, "capa") /\ bound' = bound /\ mpc = "listening-port"
      BY <1>4 DEF SendListeningPort
    <2>3. mpc' \notin {"args", "listen"} BY <2>2 DEF SendToMaster
    <2>4. bound = config.port BY <2>2 DEF SetUpInv, Handshaking
    <2> HIDE DEF m
    <2> QED BY <2>1, <2>2, <2>3, <2>4, SendKeepsStream
  <1>5. CASE SendCapa
    <2> DEFINE m == Message("REPLCONF", Blank)
    <2>1. m.op = "REPLCONF" /\ m.val = Blank BY DEF Message, Piece
    <2>2. SendToMaster(m, "psync") /\ bound' = bound /\ mpc = "capa" BY <1>5 DEF SendCapa
    <2>3. mpc' \notin {"args", "listen"} BY <2>2 DEF SendToMaster
    <2> HIDE DEF m
    <2> QED BY <2>1, <2>2, <2>3, SendKeepsStream
  <1>6. CASE SendPsync
    <2> DEFINE m == Message("PSYNC", Blank)
    <2>1. m.op = "PSYNC" BY DEF Message, Piece
    <2>2. SendToMaster(m, "accept") /\ bound' = bound /\ mpc = "psync" BY <1>6 DEF SendPsync
    <2>3. mpc' \notin {"args", "listen"} BY <2>2 DEF SendToMaster
    <2> HIDE DEF m
    <2> QED BY <2>1, <2>2, <2>3, SendKeepsStream
  <1> QED BY <1>1, <1>2, <1>3, <1>4, <1>5, <1>6 DEF StartStep

-----------------------------------------------------------------------------
(* The two processes at work                                               *)

TakeStep == (\E c \in ClientChunks : TakeClientChunk(c)) \/ MasterTakes
RunStep == TakeStep \/ MasterStep \/ ReplicaStep

(* They leave the set-up alone, but may end the process.                   *)
LEMMA RunKeepsSetUp ==
  ASSUME RunStep
  PROVE  config' = config /\ loaded' = loaded /\ bound' = bound /\ mpc' \in {mpc, "ended"}
  <1> USE DEF startVars
  <1>1. CASE TakeStep
    BY <1>1 DEF TakeStep, TakeClientChunk, MasterTakes, TakeReplicaChunk, CutReplicaChunk,
                TakeFromReplica
  <1>2. CASE MasterStep
    BY <1>2 DEF MasterStep, MasterIgnores, MasterThrows, MasterSets, MasterReplies, MasterForwards,
                MasterEnds, SendToReplica
  <1>3. CASE ReplicaStep
    BY <1>3 DEF ReplicaStep, ReplicaIgnores, ReplicaThrows, ReplicaSets, ReplicaReplies,
                TakeMasterChunk, SendToMaster
  <1> QED BY <1>1, <1>2, <1>3 DEF RunStep

LEMMA ReplyOps ==
  ASSUME NEW m, NEW d,
         m.op \in {"PING", "REPLCONF", "PSYNC", "KEYS", "CONFIG", "OTHER", "EMPTY"}
  PROVE  Head(Replies(m, d)).op \in {"PONG", "OK", "FULLRESYNC", "OTHER", "EMPTY", "BULK"}
  <1>1. CASE m.op = "PING" BY <1>1 DEF Replies, Message, Piece
  <1>2. CASE m.op = "REPLCONF" BY <1>2 DEF Replies, Message, Piece
  <1>3. CASE m.op = "PSYNC"
    <2> DEFINE f == Message("FULLRESYNC", Blank)
    <2>1. Replies(m, d) = <<f, Piece("RDB", Blank, Blank, FALSE), Message("SUM", Blank)>>
      BY <1>3 DEF Replies
    <2>2. f.op = "FULLRESYNC" BY DEF Message, Piece
    <2> HIDE DEF f
    <2>3. Head(Replies(m, d)).op = "FULLRESYNC" BY <2>1, <2>2
    <2> QED BY <2>3
  <1>4. CASE m.op \in {"KEYS", "CONFIG", "OTHER", "EMPTY"} BY <1>4 DEF Replies, Message, Piece
  <1> QED BY <1>1, <1>2, <1>3, <1>4

(* What recv() takes of the stream and what it leaves, cutting a message or *)
(* not.                                                                    *)
Left(m, s) == m = Message("TEXT", Blank) \/ \E k \in 1..Len(s) : m = s[k]
TakenOf(c, s) ==
  /\ c # <<>>
  /\ c[1] = s[1] \/ \E op \in Cuts(s[1].op) : c[1] = Message(op, Blank) /\ merged'
TaskOf(c) == [from |-> "replica", input |-> c, rest |-> c, sets |-> 0]

LEMMA UncutStream ==
  ASSUME IsSeq(up), NEW n \in 1..Len(up), TakeReplicaChunk(n)
  PROVE  /\ IsSeq(up') /\ \A m \in 1..Len(up') : Left(up'[m], up)
         /\ \E c : TakenOf(c, up) /\ mtask' = TaskOf(c)
  <1> DEFINE c == SubSeq(up, 1, n)
  <1>1. up' = Drop(up, n) /\ mtask' = TaskOf(c)
    BY DEF TakeReplicaChunk, TakeFromReplica, TaskOf
  <1>2. IsSeq(Drop(up, n)) /\ c # <<>> /\ c[1] = up[1]
        /\ \A m \in 1..Len(Drop(up, n)) : \E k \in 1..Len(up) : Drop(up, n)[m] = up[k]
    BY DropIsSeq
  <1> HIDE DEF c
  <1>3. TakenOf(c, up) BY <1>2 DEF TakenOf
  <1> QED BY <1>1, <1>2, <1>3 DEF Left

LEMMA CutStream ==
  ASSUME IsSeq(up), NEW n \in 1..Len(up), NEW op \in Cuts(up[n].op), CutReplicaChunk(n, op)
  PROVE  /\ IsSeq(up') /\ \A m \in 1..Len(up') : Left(up'[m], up)
         /\ \E c : TakenOf(c, up) /\ mtask' = TaskOf(c)
  <1> DEFINE s == SubSeq(up, 1, n - 1)
             e == Message(op, Blank)
             c == Append(s, e)
             t == Message("TEXT", Blank)
             d == Drop(up, n)
  <1>1. up' = <<t>> \o d /\ mtask' = TaskOf(c) /\ merged'
    BY DEF CutReplicaChunk, TakeFromReplica, TaskOf
  <1>2. IsSeq(d) /\ \A m \in 1..Len(d) : \E k \in 1..Len(up) : d[m] = up[k] BY DropIsSeq
  <1> HIDE DEF t, d, e
  <1>3. IsSeq(up') /\ \A m \in 1..Len(up') : up'[m] = t \/ \E k \in 1..Len(d) : up'[m] = d[k]
    <2>1. PICK S : d \in Seq(S) BY <1>2 DEF IsSeq
    <2>2. d \in Seq(S \cup {t}) /\ <<t>> \in Seq(S \cup {t}) BY <2>1
    <2>3. up' \in Seq(S \cup {t}) BY <1>1, <2>2
    <2>4. Len(up') = Len(d) + 1 /\ Len(d) \in Nat /\ up'[1] = t
          /\ \A m \in 2..Len(up') : up'[m] = d[m - 1]
      BY <1>1, <2>2
    <2>5. ASSUME NEW m \in 1..Len(up') PROVE up'[m] = t \/ \E k \in 1..Len(d) : up'[m] = d[k]
      <3>1. CASE m = 1 BY <3>1, <2>4
      <3>2. CASE m # 1
        <4>1. m - 1 \in 1..Len(d) /\ up'[m] = d[m - 1] BY <2>4, <3>2
        <4> QED BY <4>1
      <3> QED BY <3>1, <3>2
    <2> QED BY <2>3, <2>5 DEF IsSeq
  <1>4. TakenOf(c, up)
    <2>1. PICK S : up \in Seq(S) BY DEF IsSeq
    <2>2. s \in Seq(S \cup {e}) /\ Len(s) = n - 1 BY <2>1
    <2>3. CASE n = 1
      <3>1. s = <<>> BY <2>2, <2>3
      <3>2. c # <<>> /\ c[1] = e BY <3>1
      <3> QED BY <1>1, <2>3, <3>2 DEF TakenOf, e
    <2>4. CASE n # 1
      <3>1. s[1] = up[1] /\ 1 \in 1..Len(s) BY <2>1, <2>2, <2>4
      <3>2. c # <<>> /\ c[1] = s[1] BY <2>2, <3>1
      <3> QED BY <3>1, <3>2 DEF TakenOf
    <2> QED BY <2>3, <2>4
  <1> HIDE DEF c
  <1>5. \A m \in 1..Len(up') : Left(up'[m], up) BY <1>2, <1>3 DEF Left, t
  <1> QED BY <1>1, <1>3, <1>4, <1>5

LEMMA RunKeepsStream ==
  ASSUME StreamInv, RunStep
  PROVE  StreamInv'
  <1>1. bound' = bound /\ mpc' \in {mpc, "ended"} BY RunKeepsSetUp
  <1>2. CASE up' = up BY <1>1, <1>2 DEF StreamInv
  <1>3. CASE MasterTakes
    <2>0. IsSeq(up) BY DEF StreamInv
    <2>2. IsSeq(up') /\ \A m \in 1..Len(up') : Left(up'[m], up)
      BY <1>3, <2>0, UncutStream, CutStream DEF MasterTakes
    <2>3. ASSUME NEW m \in 1..Len(up')
          PROVE  /\ up'[m].op \in ReplicaOps
                 /\ Announces(up'[m]) => up'[m].val = bound' /\ mpc' \notin {"args", "listen"}
      <3>1. CASE up'[m] = Message("TEXT", Blank)
        <4>1. up'[m].op = "TEXT" BY <3>1 DEF Message, Piece
        <4> QED BY <4>1 DEF ReplicaOps, Announces
      <3>2. ASSUME NEW k \in 1..Len(up), up'[m] = up[k]
            PROVE  /\ up'[m].op \in ReplicaOps
                   /\ Announces(up'[m]) => up'[m].val = bound' /\ mpc' \notin {"args", "listen"}
        <4>2. /\ up[k].op \in ReplicaOps
              /\ Announces(up[k]) => up[k].val = bound /\ mpc \notin {"args", "listen"}
          BY DEF StreamInv
        <4> QED BY <1>1, <3>2, <4>2
      <3> QED BY <2>2, <3>1, <3>2 DEF Left
    <2> QED BY <2>2, <2>3 DEF StreamInv, Announces
  <1>4. CASE ReplicaSets
    <2> DEFINE m == Message("OK", Blank)
    <2>1. m.op = "OK" BY DEF Message, Piece
    <2>2. SendToMaster(m, mpc) BY <1>4 DEF ReplicaSets
    <2> HIDE DEF m
    <2> QED BY <1>1, <2>1, <2>2, SendKeepsStream DEF ReplicaOps, Announces
  <1>5. CASE ReplicaReplies
    <2> DEFINE m == Head(Replies(rtask[1], replica))
    <2>1. m.op \in {"PONG", "OK", "FULLRESYNC", "OTHER", "EMPTY", "BULK"}
      BY <1>5, ReplyOps DEF ReplicaReplies, Answers
    <2>2. SendToMaster(m, mpc) BY <1>5 DEF ReplicaReplies
    <2> HIDE DEF m
    <2> QED BY <1>1, <2>1, <2>2, SendKeepsStream DEF ReplicaOps, Announces
  <1>6. up' = up \/ MasterTakes \/ ReplicaSets \/ ReplicaReplies
    <2>1. CASE TakeStep BY <2>1 DEF TakeStep, TakeClientChunk
    <2>2. CASE MasterStep
      BY <2>2 DEF MasterStep, MasterIgnores, MasterThrows, MasterSets, MasterReplies,
                  MasterForwards, MasterEnds
    <2>3. CASE ReplicaStep
      BY <2>3 DEF ReplicaStep, ReplicaIgnores, ReplicaThrows, TakeMasterChunk
    <2> QED BY <2>1, <2>2, <2>3 DEF RunStep
  <1> QED BY <1>2, <1>3, <1>4, <1>5, <1>6

(* What one send() wrote not being what a recv() returned is not undone.   *)
LEMMA RunMerges ==
  ASSUME RunStep
  PROVE  merged => merged'
  BY DEF RunStep, TakeStep, TakeClientChunk, MasterTakes, TakeReplicaChunk, CutReplicaChunk,
         MasterStep, MasterIgnores, MasterThrows, MasterSets, MasterReplies, MasterForwards,
         MasterEnds, ReplicaStep, ReplicaIgnores, ReplicaThrows, ReplicaSets, ReplicaReplies,
         TakeMasterChunk, replVars

LEMMA RunKeepsTask ==
  ASSUME StreamInv, TaskInv, RunStep
  PROVE  TaskInv'
  <1>0. PICK f, i, r, n : mtask = [from |-> f, input |-> i, rest |-> r, sets |-> n] BY DEF TaskInv
  <1>1. ASSUME NEW c \in ClientChunks, TakeClientChunk(c) PROVE TaskInv'
    BY <1>1 DEF TakeClientChunk, TaskInv
  <1>2. CASE MasterTakes
    <2>1. IsSeq(up) /\ up[1].op \in ReplicaOps
      <3>1. IsSeq(up) BY DEF StreamInv
      <3>2. PICK k \in 1..Len(up) : TRUE BY <1>2 DEF MasterTakes
      <3>3. Len(up) \in Nat BY <3>1, DropIsSeq
      <3>4. 1 \in 1..Len(up) BY <3>3
      <3> QED BY <3>1, <3>4 DEF StreamInv
    <2>2. PICK c : TakenOf(c, up) /\ mtask' = TaskOf(c)
      BY <1>2, <2>1, UncutStream, CutStream DEF MasterTakes
    <2>3. c[1].op \in ReplicaOps \/ (c[1].op = "HEAD" /\ merged')
      <3>1. CASE c[1] = up[1] BY <2>1, <3>1
      <3>2. ASSUME NEW op \in Cuts(up[1].op), c[1] = Message(op, Blank), merged'
            PROVE  c[1].op \in ReplicaOps \/ (c[1].op = "HEAD" /\ merged')
        <4>1. c[1].op = op BY <3>2 DEF Message, Piece
        <4>2. op \in ReplicaOps \cup {"HEAD"}
          BY <2>1 DEF Cuts, ReplicaOps, Commands
        <4> QED BY <3>2, <4>1, <4>2
      <3> QED BY <2>2, <3>1, <3>2 DEF TakenOf
    <2>4. c # <<>> BY <2>2 DEF TakenOf
    <2> QED BY <2>2, <2>3, <2>4 DEF TaskInv, TaskOf
  <1>3. CASE MasterIgnores \/ MasterReplies
    <2>1. mtask' = [from |-> f, input |-> i, rest |-> <<>>, sets |-> n]
      BY <1>0, <1>3 DEF MasterIgnores, MasterReplies
    <2> QED BY <1>0, <2>1 DEF TaskInv
  <1>4. CASE MasterSets
    <2>1. f = "client"
      BY <1>0, <1>4 DEF MasterSets, MasterRuns, IsSet, TaskInv, ReplicaOps
    <2>2. mtask' = [from |-> f, input |-> i, rest |-> AfterSet(r), sets |-> n + 1]
      BY <1>0, <1>4 DEF MasterSets
    <2> QED BY <2>1, <2>2 DEF TaskInv
  <1>5. CASE MasterForwards
    <2>1. mtask' = [from |-> f, input |-> i, rest |-> r, sets |-> n - 1] /\ merged' = merged
      BY <1>0, <1>5 DEF MasterForwards
    <2> QED BY <1>0, <2>1 DEF TaskInv
  <1>6. CASE MasterEnds BY <1>6 DEF MasterEnds, Idle, TaskInv
  <1>7. CASE mtask' = mtask
    <2>1. merged => merged' BY RunMerges
    <2> QED BY <1>7, <2>1 DEF TaskInv
  <1>8. CASE MasterStep \/ ReplicaStep
    <2>1. CASE MasterThrows \/ ReplicaStep
      BY <2>1, <1>7 DEF MasterThrows, ReplicaStep, ReplicaIgnores, ReplicaThrows, ReplicaSets,
                        ReplicaReplies, TakeMasterChunk, replVars
    <2> QED BY <1>3, <1>4, <1>5, <1>6, <1>8, <2>1 DEF MasterStep
  <1> QED BY <1>1, <1>2, <1>8 DEF RunStep, TakeStep

(* Whoever is dead stays so, and the master's task as it was.              *)
LEMMA DeadStayDead ==
  ASSUME TaskInv, MasterDies,
         RunStep \/ ((StartStep \/ AcceptFails) /\ UNCHANGED replVars)
  PROVE  MasterDies'
  <1>1. ~Alive => ~Alive'
    <2>1. CASE RunStep BY <2>1, RunKeepsSetUp DEF Alive
    <2>2. CASE StartStep \/ AcceptFails
      BY <2>2 DEF StartStep, SetDir, SetDbfilename, SetPort, SetReplicaOf, SkipWord, AtOption,
                  LoadRdb, OpenPort, StartMasterThread, SendPing, SendListeningPort, SendCapa,
                  SendPsync, AcceptFails, Alive
    <2> QED BY <2>1, <2>2
  <1>0. merged => merged' BY RunMerges DEF replVars
  <1>2. CASE masterUp' = masterUp /\ (mtask' = mtask \/ masterUp)
    BY <1>0, <1>1, <1>2 DEF MasterDies
  <1>3. CASE MasterThrows
    <2>1. MayThrow(mtask.rest) /\ mtask.rest # <<>> /\ mtask' = mtask
      BY <1>3 DEF MasterThrows, MasterRuns, replVars
    <2>2. CASE mtask.from = "client" BY <2>1, <2>2 DEF MasterDies
    <2>3. CASE mtask.from = "replica"
      <3>1. mtask.rest[1].op \in {"EMPTY", "HEAD"}
        BY <2>1, <2>3 DEF TaskInv, MayThrow, Throws, AtArray, IsSet, ReplicaOps
      <3>2. mtask.rest[1].op = "HEAD" => merged BY <2>1, <2>3 DEF TaskInv, ReplicaOps
      <3> QED BY <1>0, <2>1, <2>3, <3>1, <3>2 DEF MasterDies
    <2>4. mtask.from # "none" BY <2>1 DEF TaskInv
    <2> QED BY <2>2, <2>3, <2>4 DEF TaskInv
  <1>4. CASE MasterForwards \/ MasterReplies
    <2>1. CASE Alive
      BY <1>4, <2>1 DEF MasterForwards, MasterReplies, MasterRuns, SendToReplica, MasterDies
    <2>2. CASE ~Alive BY <1>1, <2>2 DEF MasterDies
    <2> QED BY <2>1, <2>2
  <1>5. CASE (StartStep \/ AcceptFails) /\ UNCHANGED replVars
    BY <1>2, <1>5 DEF StartStep, SetDir, SetDbfilename, SetPort, SetReplicaOf, SkipWord, AtOption,
                LoadRdb, OpenPort, StartMasterThread, SendPing, SendListeningPort, SendCapa,
                SendPsync, AcceptFails, replVars
  <1>6. CASE TakeStep
    BY <1>2, <1>6 DEF TakeStep, TakeClientChunk, MasterTakes, TakeReplicaChunk, CutReplicaChunk,
                      TakeFromReplica, startVars
  <1>7. CASE MasterStep
    BY <1>2, <1>3, <1>4, <1>7 DEF MasterStep, MasterRuns, MasterIgnores, MasterSets,
                                  MasterEnds, startVars
  <1>8. CASE ReplicaStep
    BY <1>2, <1>8 DEF ReplicaStep, ReplicaIgnores, ReplicaThrows, ReplicaSets, ReplicaReplies,
                      TakeMasterChunk, startVars, replVars
  <1> QED BY <1>5, <1>6, <1>7, <1>8 DEF RunStep

-----------------------------------------------------------------------------
LEMMA InitHolds == Init => IInv
  <1> SUFFICES ASSUME Init PROVE IInv OBVIOUS
  <1> USE DEF Init, StartInit
  <1>1. SetUpInv BY DEF SetUpInv, Handshaking
  <1>2. StreamInv
    <2>1. up = <<>> OBVIOUS
    <2> QED BY <2>1, EmptyIsSeq DEF StreamInv
  <1>3. TaskInv BY DEF TaskInv, Idle
  <1>4. MasterDies BY DEF MasterDies
  <1> QED BY <1>1, <1>2, <1>3, <1>4 DEF IInv

LEMMA StepHolds == IInv /\ [Next]_vars => IInv'
  <1> SUFFICES ASSUME IInv, [Next]_vars PROVE IInv' OBVIOUS
  <1>0. SetUpInv /\ StreamInv /\ TaskInv /\ MasterDies BY DEF IInv
  <1>1. CASE (StartStep \/ AcceptFails) /\ UNCHANGED replVars
    <2>1. TaskInv' BY <1>0, <1>1 DEF TaskInv, replVars
    <2> QED BY <1>0, <1>1, <2>1, StartKeepsSetUp, StartKeepsStream, DeadStayDead DEF IInv
  <1>2. CASE RunStep
    <2>1. SetUpInv' BY <1>0, <1>2, RunKeepsSetUp DEF SetUpInv, Handshaking
    <2> QED BY <1>0, <1>2, <2>1, RunKeepsStream, RunKeepsTask, DeadStayDead DEF IInv
  <1>3. CASE UNCHANGED vars
    <2>1. UNCHANGED <<config, mpc, loaded, bound, up, mtask, masterUp, merged>>
      BY <1>3 DEF vars, startVars, replVars
    <2> QED BY <1>0, <2>1 DEF IInv, SetUpInv, StreamInv, TaskInv, MasterDies, Handshaking,
                              Alive
  <1> QED BY <1>1, <1>2, <1>3 DEF Next, RunStep, TakeStep

LEMMA IInvHolds == Spec => []IInv
  BY InitHolds, StepHolds, PTL DEF Spec

(* For every command line: when main or the thread of the master's         *)
(* connection may execute a command, the RDB file and the port the options *)
(* name have been loaded and opened.                                       *)
THEOREM SetUpFirst == Spec => []SetUpBeforeService
  <1>1. IInv => SetUpBeforeService
    BY DEF IInv, SetUpInv, SetUpBeforeService, ThreadStarted, Handshaking
  <1> QED BY <1>1, IInvHolds, PTL

(* send_handshake announces the port that server_fd is bound to.           *)
THEOREM AnnouncedIsBound == Spec => []PortAnnounced
  <1>1. IInv => PortAnnounced
    BY DEF IInv, StreamInv, PortAnnounced, Announces
  <1> QED BY <1>1, IInvHolds, PTL

(* For every set of client chunks and every way recv() cuts and joins what *)
(* is sent: the master dies of what the replica has sent only on an array  *)
(* cut before its first string, or on an array of no strings, the answer   *)
(* to a forwarded KEYS that finds nothing.                                 *)
THEOREM MasterDeaths == Spec => []MasterDies
  <1>1. IInv => MasterDies BY DEF IInv
  <1> QED BY <1>1, IInvHolds, PTL
=============================================================================
