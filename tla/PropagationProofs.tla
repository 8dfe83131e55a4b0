--------------------------- MODULE PropagationProofs ---------------------------
(***************************************************************************)
(* Theorems about what travels between the master and its replica, for     *)
(* every set of clients and every way recv() cuts the streams.             *)
(***************************************************************************)
EXTENDS ReplicationProofs

Pieces(s) == {s[n] : n \in 1..Len(s)}

LEMMA EmptyPieces == IsSeq(<<>>) /\ Pieces(<<>>) = {}
  BY EmptyIsSeq DEF Pieces

LEMMA AppendPieces ==
  ASSUME NEW s, IsSeq(s), NEW e
  PROVE  IsSeq(Append(s, e)) /\ Pieces(Append(s, e)) \subseteq Pieces(s) \cup {e}
  <1>1. /\ IsSeq(Append(s, e)) /\ Len(Append(s, e)) = Len(s) + 1 /\ Len(s) \in Nat
        /\ \A n \in 1..Len(s) : Append(s, e)[n] = s[n]
        /\ Append(s, e)[Len(s) + 1] = e
    BY AppendIsSeq
  <1> QED BY <1>1 DEF Pieces

(* The first n pieces, and the others.                                     *)
LEMMA CutPieces ==
  ASSUME NEW s, IsSeq(s), NEW n \in 1..Len(s)
  PROVE  /\ IsSeq(SubSeq(s, 1, n)) /\ Len(SubSeq(s, 1, n)) = n /\ Len(s) \in Nat
         /\ \A k \in 1..n : SubSeq(s, 1, n)[k] = s[k]
         /\ IsSeq(Drop(s, n)) /\ Len(Drop(s, n)) = Len(s) - n
         /\ \A k \in 1..(Len(s) - n) : Drop(s, n)[k] = s[n + k]
         /\ Pieces(SubSeq(s, 1, n)) \subseteq Pieces(s)
         /\ Pieces(Drop(s, n)) \subseteq Pieces(s)
  <1>1. PICK S : s \in Seq(S) BY DEF IsSeq
  <1>2. /\ Drop(s, n) \in Seq(S) /\ Len(Drop(s, n)) = Len(s) - n
        /\ \A m \in 1..(Len(s) - n) : Drop(s, n)[m] = s[n + m]
    BY <1>1 DEF Drop
  <1>3. /\ SubSeq(s, 1, n) \in Seq(S) /\ Len(SubSeq(s, 1, n)) = n /\ Len(s) \in Nat
        /\ \A k \in 1..n : SubSeq(s, 1, n)[k] = s[k]
    BY <1>1
  <1>4. Pieces(SubSeq(s, 1, n)) \subseteq Pieces(s) BY <1>3 DEF Pieces
  <1>5. Pieces(Drop(s, n)) \subseteq Pieces(s) BY <1>2, <1>3 DEF Pieces
  <1> QED BY <1>2, <1>3, <1>4, <1>5 DEF IsSeq

LEMMA ConcatPieces ==
  ASSUME NEW s, IsSeq(s), NEW t, IsSeq(t)
  PROVE  /\ IsSeq(s \o t) /\ Len(s) \in Nat /\ Len(t) \in Nat /\ Len(s \o t) = Len(s) + Len(t)
         /\ \A k \in 1..Len(s) : (s \o t)[k] = s[k]
         /\ \A k \in 1..Len(t) : (s \o t)[Len(s) + k] = t[k]
         /\ Pieces(s \o t) \subseteq Pieces(s) \cup Pieces(t)
  <1>1. PICK S : s \in Seq(S) BY DEF IsSeq
  <1>2. PICK T : t \in Seq(T) BY DEF IsSeq
  <1>3. s \in Seq(S \cup T) /\ t \in Seq(S \cup T) BY <1>1, <1>2
  <1>4. /\ s \o t \in Seq(S \cup T) /\ Len(s) \in Nat /\ Len(t) \in Nat
        /\ Len(s \o t) = Len(s) + Len(t)
        /\ \A k \in 1..Len(s) : (s \o t)[k] = s[k]
        /\ \A k \in 1..Len(t) : (s \o t)[Len(s) + k] = t[k]
    BY <1>3
  <1>5. ASSUME NEW k \in 1..(Len(s) + Len(t)) PROVE (s \o t)[k] \in Pieces(s) \cup Pieces(t)
    <2>1. CASE k \in 1..Len(s) BY <1>4, <2>1 DEF Pieces
    <2>2. CASE k \notin 1..Len(s)
      <3>1. k - Len(s) \in 1..Len(t) /\ k = Len(s) + (k - Len(s)) BY <1>4, <2>2
      <3> PICK j \in 1..Len(t) : k = Len(s) + j BY <3>1
      <3>2. (s \o t)[k] = t[j] BY <1>4
      <3> QED BY <3>2 DEF Pieces
    <2> QED BY <2>1, <2>2
  <1>6. Pieces(s \o t) \subseteq Pieces(s) \cup Pieces(t) BY <1>4, <1>5 DEF Pieces
  <1> QED BY <1>4, <1>6 DEF IsSeq

IsConcat(u, s, t) ==
  /\ IsSeq(u) /\ Len(s) \in Nat /\ Len(t) \in Nat /\ Len(u) = Len(s) + Len(t)
  /\ \A n \in 1..Len(s) : u[n] = s[n]
  /\ \A n \in 1..Len(t) : u[Len(s) + n] = t[n]

LEMMA ConcatIs ==
  ASSUME NEW s, IsSeq(s), NEW t, IsSeq(t), NEW u, u = s \o t
  PROVE  IsConcat(u, s, t)
  <1>1. IsConcat(s \o t, s, t) BY ConcatPieces DEF IsConcat
  <1> QED BY <1>1, Zenon

LEMMA SmallModulo ==
  ASSUME NEW l \in Nat \ {0}, NEW j \in 0..(l - 1)
  PROVE  j % l = j
  OBVIOUS

(* What is forwarded to no slave, or to one.                               *)
LEMMA CopiesOne ==
  ASSUME NEW s, IsSeq(s), NEW n \in {0, 1}
  PROVE  Copies(s, n) = IF n = 0 THEN <<>> ELSE s
  <1>1. PICK S : s \in Seq(S) BY DEF IsSeq
  <1>2. Len(s) \in Nat /\ s = [m \in 1..Len(s) |-> s[m]] BY <1>1
  <1>3. CASE n = 0
    <2>1. n * Len(s) = 0 BY <1>2, <1>3
    <2>2. Copies(s, n) = [m \in 1..0 |-> s[((m - 1) % Len(s)) + 1]] BY <2>1, Zenon DEF Copies
    <2> QED BY <1>3, <2>2
  <1>4. CASE n = 1
    <2> PICK j \in Nat : j = Len(s) BY <1>2
    <2>4. 1 * j = j OBVIOUS
    <2>1. n * Len(s) = Len(s) BY <1>4, <2>4, Zenon
    <2>2. Copies(s, n) = [m \in 1..Len(s) |-> s[((m - 1) % Len(s)) + 1]]
      BY <2>1, Zenon DEF Copies
    <2>3. ASSUME NEW m \in 1..Len(s) PROVE ((m - 1) % Len(s)) + 1 = m
      <3> PICK l \in Nat \ {0} : l = Len(s) BY <1>2
      <3>1. m - 1 \in 0..(l - 1) BY <1>2
      <3> PICK i \in 0..(l - 1) : i = m - 1 BY <3>1
      <3>2. i % l = i BY SmallModulo
      <3> QED BY <3>2
    <2> QED BY <1>2, <1>4, <2>2, <2>3
  <1> QED BY <1>3, <1>4

(* What is left of a chunk after a SET is its end.                         *)
LEMMA AfterSetCuts ==
  ASSUME NEW c, IsSeq(c), c # <<>>
  PROVE  /\ IsSeq(AfterSet(c)) /\ Pieces(AfterSet(c)) \subseteq Pieces(c)
         /\ \/ AfterSet(c) = <<>>
            \/ \E k \in 1..Len(c) : AfterSet(c) = Drop(c, k) /\ k = IF c[1].op = "SET" THEN 1 ELSE 3
  <1>1. PICK S : c \in Seq(S) BY DEF IsSeq
  <1>2. Len(c) \in Nat /\ Len(c) > 0 BY <1>1
  <1>3. CASE AfterSet(c) = <<>> BY <1>3, EmptyPieces
  <1>4. CASE AfterSet(c) # <<>>
    <2> DEFINE k == IF c[1].op = "SET" THEN 1 ELSE 3
    <2>1. Whole(c) BY <1>4 DEF AfterSet
    <2>2. k \in 1..Len(c) BY <1>2, <2>1 DEF Whole
    <2>3. AfterSet(c) = Drop(c, k)
      <3>1. CASE c[1].op = "SET"
        <4>1. AfterSet(c) = Tail(c) BY <1>4, <3>1 DEF AfterSet
        <4>2. Tail(c) = SubSeq(c, 2, Len(c)) BY <1>1, <1>2
        <4> QED BY <3>1, <4>1, <4>2 DEF Drop
      <3>2. CASE c[1].op # "SET"
        <4>1. AfterSet(c) = SubSeq(c, 4, Len(c)) BY <1>4, <3>2 DEF AfterSet
        <4> QED BY <3>2, <4>1 DEF Drop
      <3> QED BY <3>1, <3>2
    <2> HIDE DEF k
    <2>4. IsSeq(AfterSet(c)) /\ Pieces(AfterSet(c)) \subseteq Pieces(c)
      BY <2>2, <2>3, CutPieces
    <2> QED BY <2>2, <2>3, <2>4 DEF k
  <1> QED BY <1>3, <1>4

-----------------------------------------------------------------------------
(* The types of what travels                                               *)

FromClient(p) ==
  /\ p.op \in {"PING", "REPLCONF", "KEYS", "CONFIG", "OTHER", "SET", "KEY", "VAL", "REST"}
  /\ IsSet(p) => p.key \in Keys
FromReplica(p) ==
  p.op \in {"PING", "REPLCONF", "PSYNC", "OK", "PONG", "BULK", "OTHER", "EMPTY", "TEXT"}
ReadFromReplica(p) == FromReplica(p) \/ p.op = "HEAD"
ToReplica(p) == FromClient(p) \/ p.op \in {"OK", "PONG", "BULK", "FULLRESYNC", "RDB", "SUM"}

(* A task of the master is all a client's, or all the replica's; only the  *)
(* client's is ever forwarded.                                             *)
PieceInv ==
  /\ IsSeq(up) /\ \A p \in Pieces(up) : FromReplica(p)
  /\ IsSeq(down) /\ \A p \in Pieces(down) : ToReplica(p)
  /\ IsSeq(rtask) /\ \A p \in Pieces(rtask) : ToReplica(p)
  /\ IsSeq(mtask.rest) /\ Pieces(mtask.rest) \subseteq Pieces(mtask.input)
  /\ IsSeq(mtask.input)
  /\ mtask.sets \in Nat
  /\ mtask.from = "none" => mtask.rest = <<>> /\ mtask.sets = 0
  /\ mtask.from = "client" => \A p \in Pieces(mtask.input) : FromClient(p)
  /\ mtask.from = "replica" =>
       mtask.sets = 0 /\ \A p \in Pieces(mtask.input) : ReadFromReplica(p)

NoPsync(s) == \A p \in Pieces(s) : p.op # "PSYNC"

(* One PSYNC is sent, after the connection has been made and the rest of   *)
(* the handshake, and the master executes it once.                         *)
PsyncInv ==
  /\ slaves \in {0, 1}
  /\ mpc \notin {"accept", "ended"} \/ masterFd # "connected" =>
       NoPsync(up) /\ NoPsync(mtask.rest) /\ slaves = 0
  /\ slaves = 1 => NoPsync(up) /\ NoPsync(mtask.rest)
  /\ NoPsync(up) \/ NoPsync(mtask.rest)
  /\ \A m, n \in 1..Len(up) : up[m].op = "PSYNC" /\ up[n].op = "PSYNC" => m = n

ControlInv ==
  /\ mpc \in {"args", "listen", "thread", "accept", "ended"} \/ Handshaking
  /\ role \in {"master", "slave"} /\ masterFd \in {"none", "unconnected", "connected"}

StoreInv == DOMAIN master = Keys /\ DOMAIN replica = Keys /\ fresh \subseteq Keys

TypeInv == TaskInv /\ PieceInv /\ PsyncInv /\ ControlInv /\ StoreInv

LEMMA ControlKept ==
  ASSUME ControlInv, Next
  PROVE  ControlInv'
  <1> USE DEF ControlInv, Handshaking
  <1>1. CASE StartStep \/ AcceptFails
    BY <1>1 DEF StartStep, SetDir, SetDbfilename, SetPort, SetReplicaOf, ConnectToMaster, SkipWord,
                AtOption, LoadRdb, OpenPort, StartMasterThread, SendPing, SendListeningPort,
                SendCapa, SendPsync, SendToMaster, AcceptFails
  <1>2. CASE RunStep
    <2>1. mpc' \in {mpc, "ended"} BY <1>2, RunKeepsSetUp
    <2>2. UNCHANGED <<role, masterFd>>
      <3> USE DEF startVars
      <3>1. CASE TakeStep
        BY <3>1 DEF TakeStep, TakeClientChunk, MasterTakes, TakeReplicaChunk, CutReplicaChunk,
                    TakeFromReplica
      <3>2. CASE MasterStep
        BY <3>2 DEF MasterStep, MasterIgnores, MasterThrows, MasterSets, MasterReplies,
                    MasterForwards, MasterEnds
      <3>3. CASE ReplicaStep
        BY <3>3 DEF ReplicaStep, ReplicaIgnores, ReplicaThrows, ReplicaSets, ReplicaReplies,
                    TakeMasterChunk
      <3> QED BY <1>2, <3>1, <3>2, <3>3 DEF RunStep
    <2> QED BY <2>1, <2>2
  <1> QED BY <1>1, <1>2 DEF Next, RunStep, TakeStep

(* The connection is made before anything is sent on it.                   *)
LEMMA PsyncKept ==
  ASSUME PsyncInv, IsSeq(up), NEW m, m.op # "PSYNC", up' \in {up, Append(up, m)},
         NoPsync(mtask.rest) => NoPsync(mtask'.rest), slaves' = slaves,
         mpc' = mpc \/ mpc' = "ended" \/ mpc \notin {"accept", "ended"},
         masterFd' = masterFd \/ mpc \notin {"accept", "ended"}
  PROVE  PsyncInv'
  <1>1. /\ IsSeq(Append(up, m)) /\ Len(Append(up, m)) = Len(up) + 1 /\ Len(up) \in Nat
        /\ \A n \in 1..Len(up) : Append(up, m)[n] = up[n]
        /\ Append(up, m)[Len(up) + 1] = m
    BY AppendIsSeq
  <1>2. NoPsync(up) => NoPsync(up')
    <2>1. Pieces(Append(up, m)) \subseteq Pieces(up) \cup {m} BY AppendPieces
    <2>2. up' = up \/ up' = Append(up, m) OBVIOUS
    <2>3. Pieces(up') \subseteq Pieces(up) \cup {m} BY <2>1, <2>2, Zenon
    <2> QED BY <2>3, Zenon DEF NoPsync
  <1>3. \A k, n \in 1..Len(up') : up'[k].op = "PSYNC" /\ up'[n].op = "PSYNC" => k = n
    <2>1. CASE up' = up
      <3>1. \A k, n \in 1..Len(up) : up[k].op = "PSYNC" /\ up[n].op = "PSYNC" => k = n
        BY DEF PsyncInv
      <3> QED BY <2>1, <3>1
    <2>2. CASE up' = Append(up, m)
      <3> SUFFICES ASSUME NEW k \in 1..Len(up'), NEW n \in 1..Len(up'),
                          up'[k].op = "PSYNC", up'[n].op = "PSYNC"
                   PROVE  k = n
        OBVIOUS
      <3>1. k \in 1..Len(up) /\ n \in 1..Len(up) BY <1>1, <2>2
      <3>2. up[k].op = "PSYNC" /\ up[n].op = "PSYNC" BY <1>1, <2>2, <3>1
      <3> QED BY <3>1, <3>2 DEF PsyncInv
    <2> QED BY <2>1, <2>2
  <1> QED BY <1>2, <1>3 DEF PsyncInv

LEMMA UpKeepsPieces ==
  ASSUME PieceInv, UNCHANGED <<down, mtask>>, NEW m, FromReplica(m), up' \in {up, Append(up, m)},
         IsSeq(rtask'), Pieces(rtask') \subseteq Pieces(rtask)
  PROVE  PieceInv'
  <1>1. IsSeq(up) /\ \A p \in Pieces(up) : FromReplica(p) BY DEF PieceInv
  <1>2. IsSeq(up')
    BY <1>1, AppendPieces
  <1>3. Pieces(up') \subseteq Pieces(up) \cup {m}
    <2>1. Pieces(Append(up, m)) \subseteq Pieces(up) \cup {m} BY <1>1, AppendPieces
    <2>2. up' = up \/ up' = Append(up, m) OBVIOUS
    <2> QED BY <2>1, <2>2, Zenon
  <1>4. \A p \in Pieces(up') : FromReplica(p) BY <1>1, <1>3, Zenon
  <1>5. \A p \in Pieces(rtask') : ToReplica(p) BY Zenon DEF PieceInv
  <1> QED BY <1>2, <1>4, <1>5, Zenon DEF PieceInv

(* The handshake sends one PSYNC, last.                                    *)
LEMMA StartKeepsTypes ==
  ASSUME PieceInv, PsyncInv, StoreInv, StartStep \/ AcceptFails, UNCHANGED replVars
  PROVE  PieceInv' /\ PsyncInv' /\ StoreInv'
  <1>0. UNCHANGED <<down, rtask, mtask, slaves, master, replica, fresh>> BY DEF replVars
  <1>1. StoreInv' BY <1>0 DEF StoreInv
  <1>2. IsSeq(up) /\ IsSeq(rtask) BY DEF PieceInv
  <1>3. ASSUME NEW m, FromReplica(m), m.op # "PSYNC", up' \in {up, Append(up, m)},
               mpc' = mpc \/ mpc' = "ended" \/ mpc \notin {"accept", "ended"},
               masterFd' = masterFd \/ mpc \notin {"accept", "ended"}
        PROVE  PieceInv' /\ PsyncInv'
    <2>1. PieceInv' BY <1>0, <1>2, <1>3, UpKeepsPieces
    <2>2. PsyncInv' BY <1>0, <1>2, <1>3, PsyncKept
    <2> QED BY <2>1, <2>2
  <1>4. ASSUME NEW op \in {"PING", "REPLCONF", "PSYNC"}, NEW v
        PROVE  FromReplica(Message(op, v)) /\ Message(op, v).op = op
    BY DEF FromReplica, Message, Piece
  <1>5. CASE SetDir \/ SetDbfilename \/ SetPort \/ SetReplicaOf \/ SkipWord \/ LoadRdb \/ OpenPort
             \/ StartMasterThread \/ AcceptFails
    <2>1. /\ up' = up
          /\ mpc' = "ended" \/ mpc \notin {"accept", "ended"}
          /\ masterFd' = masterFd \/ mpc \notin {"accept", "ended"}
      BY <1>5 DEF SetDir, SetDbfilename, SetPort, SetReplicaOf, SkipWord, AtOption, LoadRdb,
                  OpenPort, StartMasterThread, AcceptFails
    <2> PICK m : m = Message("PING", Blank) OBVIOUS
    <2>2. FromReplica(m) /\ m.op # "PSYNC" BY <1>4
    <2>3. up' \in {up, Append(up, m)} BY <2>1
    <2> QED BY <1>1, <1>3, <2>1, <2>2, <2>3, Zenon
  <1>6. CASE SendPing \/ SendListeningPort \/ SendCapa
    <2>1. \E op \in {"PING", "REPLCONF"} : \E v : up' \in {up, Append(up, Message(op, v))}
      BY <1>6, Zenon DEF SendPing, SendListeningPort, SendCapa, SendToMaster
    <2> PICK op \in {"PING", "REPLCONF"} : \E v : up' \in {up, Append(up, Message(op, v))}
      BY <2>1
    <2> PICK v : up' \in {up, Append(up, Message(op, v))} OBVIOUS
    <2> PICK m : m = Message(op, v) OBVIOUS
    <2>2. FromReplica(m) /\ m.op # "PSYNC" BY <1>4
    <2>3. mpc \notin {"accept", "ended"} /\ masterFd' = masterFd
      BY <1>6 DEF SendPing, SendListeningPort, SendCapa
    <2> QED BY <1>1, <1>3, <2>2, <2>3, Zenon
  <1>7. CASE SendPsync
    <2> PICK m : m = Message("PSYNC", Blank) OBVIOUS
    <2>1. FromReplica(m) /\ m.op = "PSYNC" BY <1>4
    <2>2. /\ mpc = "psync" /\ UNCHANGED masterFd /\ mpc' \in {"accept", "ended"}
          /\ up' \in {up, Append(up, m)} /\ (up' = Append(up, m) => masterFd = "connected")
          /\ (mpc' # "accept" \/ masterFd # "connected" => up' = up)
      BY <1>7 DEF SendPsync, SendToMaster
    <2>3. PieceInv' BY <1>0, <1>2, <2>1, <2>2, UpKeepsPieces
    <2>4. NoPsync(up) /\ NoPsync(mtask.rest) /\ slaves = 0 BY <2>2 DEF PsyncInv
    <2>5. PsyncInv'
      <3>1. CASE up' = up BY <1>0, <2>2, <2>4, <3>1 DEF PsyncInv
      <3>2. CASE up' = Append(up, m)
        <4>1. /\ Len(up') = Len(up) + 1 /\ Len(up) \in Nat
              /\ \A n \in 1..Len(up) : up'[n] = up[n]
          BY <1>2, <3>2, AppendIsSeq
        <4>2. \A n \in 1..Len(up) : up'[n].op # "PSYNC"
          BY <2>4, <4>1 DEF NoPsync, Pieces
        <4>3. \A k, n \in 1..Len(up') : up'[k].op = "PSYNC" /\ up'[n].op = "PSYNC" => k = n
          BY <4>1, <4>2
        <4>4. mpc' = "accept" /\ masterFd' = "connected" BY <2>2, <3>2
        <4>5. UNCHANGED <<slaves, mtask>> /\ slaves = 0 /\ NoPsync(mtask.rest) BY <1>0, <2>4
        <4> QED BY <4>3, <4>4, <4>5 DEF PsyncInv
      <3> QED BY <2>2, <3>1, <3>2
    <2> QED BY <1>1, <2>3, <2>5
  <1> QED BY <1>5, <1>6, <1>7 DEF StartStep

LEMMA RunKeepsConnection ==
  ASSUME RunStep
  PROVE  UNCHANGED <<role, masterFd>> /\ mpc' \in {mpc, "ended"}
  <1> USE DEF startVars
  <1>1. CASE TakeStep
    BY <1>1 DEF TakeStep, TakeClientChunk, MasterTakes, TakeReplicaChunk, CutReplicaChunk,
                TakeFromReplica
  <1>2. CASE MasterStep
    BY <1>2 DEF MasterStep, MasterIgnores, MasterThrows, MasterSets, MasterReplies,
                MasterForwards, MasterEnds
  <1>3. CASE ReplicaStep
    BY <1>3, RunKeepsSetUp DEF RunStep, ReplicaStep, ReplicaIgnores, ReplicaThrows, ReplicaSets,
                               ReplicaReplies, TakeMasterChunk
  <1> QED BY <1>1, <1>2, <1>3 DEF RunStep

(* A step of the master on a task, or its end, that leaves up as it is.    *)
LEMMA TaskKeepsPsync ==
  ASSUME PsyncInv, PieceInv, UNCHANGED <<up, slaves>>,
         Pieces(mtask'.rest) \subseteq Pieces(mtask.rest) \/ NoPsync(mtask'.rest),
         masterFd' = masterFd, mpc' \in {mpc, "ended"}
  PROVE  PsyncInv'
  <1> PICK m : m = Message("PING", Blank) OBVIOUS
  <1>1. m.op # "PSYNC" BY DEF Message, Piece
  <1>2. NoPsync(mtask.rest) => NoPsync(mtask'.rest) BY Zenon DEF NoPsync
  <1>3. IsSeq(up) BY DEF PieceInv
  <1>4. up' \in {up, Append(up, m)} OBVIOUS
  <1> QED BY <1>1, <1>2, <1>3, <1>4, PsyncKept

LEMMA ClientChunkTyped ==
  ASSUME NEW c \in ClientChunks
  PROVE  IsSeq(c) /\ NoPsync(c) /\ \A p \in Pieces(c) : FromClient(p)
  <1>1. c \in Seq(ClientPieces) BY ChunksAssumption
  <1>2. Pieces(c) \subseteq ClientPieces BY <1>1 DEF Pieces
  <1>3. \A p \in ClientPieces : FromClient(p) /\ p.op # "PSYNC" BY DEF ClientPieces, FromClient
  <1> QED BY <1>1, <1>2, <1>3 DEF IsSeq, NoPsync

(* A chunk of n messages, the last of them cut or not; d tells which.      *)
TakenAt(c, n, d) ==
  /\ IsSeq(c) /\ Len(c) = n /\ IsSeq(up') /\ Len(up') = (Len(up) - n) + d
  /\ \A k \in 1..n : c[k].op \in {up[k].op} \cup Cuts(up[k].op)
  /\ \A k \in 1..Len(up') : \/ d = 1 /\ k = 1 /\ up'[k] = Message("TEXT", Blank)
                            \/ (n + k) - d \in (n + 1)..Len(up) /\ up'[k] = up[(n + k) - d]

LEMMA ChunkTaken ==
  ASSUME IsSeq(up), NEW n \in 1..Len(up),
         TakeReplicaChunk(n) \/ \E op \in Cuts(up[n].op) : CutReplicaChunk(n, op)
  PROVE  /\ \E c : \E d \in {0, 1} : TakenAt(c, n, d) /\ mtask' = TaskOf(c)
         /\ UNCHANGED <<down, slaves, master, replica, rtask, fresh, skipped>>
  <1>1. /\ IsSeq(SubSeq(up, 1, n)) /\ Len(SubSeq(up, 1, n)) = n /\ Len(up) \in Nat
        /\ \A k \in 1..n : SubSeq(up, 1, n)[k] = up[k]
        /\ IsSeq(Drop(up, n)) /\ Len(Drop(up, n)) = Len(up) - n
        /\ \A k \in 1..(Len(up) - n) : Drop(up, n)[k] = up[n + k]
    BY CutPieces
  <1>2. CASE TakeReplicaChunk(n)
    <2> DEFINE c == SubSeq(up, 1, n)
    <2>1. up' = Drop(up, n) /\ mtask' = TaskOf(c)
      BY <1>2 DEF TakeReplicaChunk, TakeFromReplica, TaskOf
    <2> HIDE DEF c
    <2>2. TakenAt(c, n, 0)
      <3>1. /\ IsSeq(c) /\ Len(c) = n /\ IsSeq(up') /\ Len(up') = (Len(up) - n) + 0
            /\ \A k \in 1..n : c[k].op = up[k].op
        BY <1>1, <2>1 DEF c
      <3>2. ASSUME NEW k \in 1..Len(up')
            PROVE  (n + k) - 0 \in (n + 1)..Len(up) /\ up'[k] = up[(n + k) - 0]
        <4>1. k \in 1..(Len(up) - n) BY <1>1, <2>1
        <4>2. up'[k] = up[n + k] BY <1>1, <2>1, <4>1
        <4> QED BY <1>1, <4>1, <4>2
      <3> QED BY <3>1, <3>2 DEF TakenAt
    <2> QED BY <1>2, <2>1, <2>2 DEF TakeReplicaChunk, TakeFromReplica
  <1>3. ASSUME NEW op \in Cuts(up[n].op), CutReplicaChunk(n, op)
        PROVE  \E c : TakenAt(c, n, 1) /\ mtask' = TaskOf(c)
    <2> DEFINE s == SubSeq(up, 1, n - 1)
               e == Message(op, Blank)
               c == Append(s, e)
               t == Message("TEXT", Blank)
               r == Drop(up, n)
    <2>1. up' = <<t>> \o r /\ mtask' = TaskOf(c)
      BY <1>3 DEF CutReplicaChunk, TakeFromReplica, TaskOf
    <2>2. e.op = op BY DEF Message, Piece
    <2> HIDE DEF e, t
    <2>3. IsSeq(c) /\ Len(c) = n /\ c[n] = e /\ \A k \in 1..(n - 1) : c[k] = up[k]
      <3>1. PICK S : up \in Seq(S) BY DEF IsSeq
      <3>2. s \in Seq(S) /\ Len(s) = n - 1 /\ \A k \in 1..(n - 1) : s[k] = up[k] BY <3>1
      <3> HIDE DEF s
      <3>3. s \in Seq(S \cup {e}) BY <3>2
      <3>4. c \in Seq(S \cup {e}) BY <3>3
      <3>5. Len(c) = n /\ c[n] = e /\ \A k \in 1..(n - 1) : c[k] = up[k] BY <3>2, <3>3
      <3> QED BY <3>4, <3>5 DEF IsSeq
    <2>4. IsSeq(up') /\ Len(up') = (Len(up) - n) + 1 /\ up'[1] = t
          /\ \A k \in 2..Len(up') : up'[k] = r[k - 1]
      <3>1. PICK S : r \in Seq(S) BY <1>1 DEF IsSeq
      <3>2. Len(r) = Len(up) - n BY <1>1
      <3> HIDE DEF r
      <3>3. r \in Seq(S \cup {t}) /\ <<t>> \in Seq(S \cup {t}) BY <3>1
      <3>4. up' \in Seq(S \cup {t}) BY <2>1, <3>3
      <3>5. Len(up') = Len(r) + 1 /\ up'[1] = t /\ \A k \in 2..Len(up') : up'[k] = r[k - 1]
        BY <2>1, <3>3
      <3> QED BY <3>2, <3>4, <3>5 DEF IsSeq
    <2> HIDE DEF c, r
    <2>5. \A k \in 1..n : c[k].op \in {up[k].op} \cup Cuts(up[k].op)
      <3> TAKE k \in 1..n
      <3>1. CASE k = n BY <2>2, <2>3, <3>1
      <3>2. CASE k # n
        <4>1. k \in 1..(n - 1) BY <3>2
        <4>2. c[k] = up[k] BY <2>3, <4>1
        <4> QED BY <4>2
      <3> QED BY <3>1, <3>2
    <2>6. ASSUME NEW k \in 1..Len(up')
          PROVE  \/ 1 = 1 /\ k = 1 /\ up'[k] = t
                 \/ (n + k) - 1 \in (n + 1)..Len(up) /\ up'[k] = up[(n + k) - 1]
      <3>1. CASE k = 1 BY <2>4, <3>1
      <3>2. CASE k # 1
        <4>1. k \in 2..Len(up') /\ k - 1 \in 1..(Len(up) - n) BY <1>1, <2>4, <3>2
        <4>2. up'[k] = r[k - 1] BY <2>4, <4>1
        <4>3. r[k - 1] = up[n + (k - 1)] BY <1>1, <4>1 DEF r
        <4>4. n + (k - 1) = (n + k) - 1 /\ (n + k) - 1 \in (n + 1)..Len(up) BY <1>1, <4>1
        <4> QED BY <4>2, <4>3, <4>4
      <3> QED BY <3>1, <3>2
    <2>7. TakenAt(c, n, 1) BY <2>3, <2>4, <2>5, <2>6 DEF TakenAt, t
    <2> QED BY <2>1, <2>7
  <1>4. UNCHANGED <<down, slaves, master, replica, rtask, fresh, skipped>>
    BY DEF TakeReplicaChunk, CutReplicaChunk, TakeFromReplica
  <1> QED BY <1>2, <1>3, <1>4

LEMMA ReplicaChunk ==
  ASSUME IsSeq(up), MasterTakes
  PROVE  /\ \E c : \E n \in 1..Len(up) : \E d \in {0, 1} : TakenAt(c, n, d) /\ mtask' = TaskOf(c)
         /\ UNCHANGED <<down, slaves, master, replica, rtask, fresh, skipped, mpc, masterFd>>
         /\ merged => merged'
  <1>1. PICK n \in 1..Len(up) :
          TakeReplicaChunk(n) \/ \E op \in Cuts(up[n].op) : CutReplicaChunk(n, op)
    BY DEF MasterTakes
  <1>2. /\ \E c : \E d \in {0, 1} : TakenAt(c, n, d) /\ mtask' = TaskOf(c)
        /\ UNCHANGED <<down, slaves, master, replica, rtask, fresh, skipped>>
    BY <1>1, ChunkTaken
  <1>3. UNCHANGED <<mpc, masterFd>> /\ (merged => merged')
    BY <1>1 DEF TakeReplicaChunk, CutReplicaChunk, TakeFromReplica, startVars
  <1> QED BY <1>2, <1>3

(* PSYNC is not made by a cut, nor doubled.                                *)
LEMMA TakenPsync ==
  ASSUME IsSeq(up), NEW n \in 1..Len(up), NEW c, NEW d \in {0, 1}, TakenAt(c, n, d), PsyncInv
  PROVE  /\ NoPsync(up) => NoPsync(up') /\ NoPsync(c)
         /\ NoPsync(up') \/ NoPsync(c)
         /\ \A k, m \in 1..Len(up') : up'[k].op = "PSYNC" /\ up'[m].op = "PSYNC" => k = m
  <1>0. Len(up) \in Nat BY CutPieces
  <1>1. ASSUME NEW k \in 1..Len(c), c[k].op = "PSYNC"
        PROVE  k \in 1..n /\ up[k].op = "PSYNC"
    BY <1>1 DEF TakenAt, Cuts, Commands
  <1>2. ASSUME NEW k \in 1..Len(up'), up'[k].op = "PSYNC"
        PROVE  (n + k) - d \in (n + 1)..Len(up) /\ up[(n + k) - d].op = "PSYNC"
    <2>1. Message("TEXT", Blank).op # "PSYNC" BY DEF Message, Piece
    <2> QED BY <1>2, <2>1 DEF TakenAt
  <1>3. NoPsync(up) => NoPsync(c)
    <2> SUFFICES ASSUME NoPsync(up), NEW k \in 1..Len(c), c[k].op = "PSYNC" PROVE FALSE
      BY DEF NoPsync, Pieces
    <2>1. k \in 1..Len(up) /\ up[k].op = "PSYNC" BY <1>0, <1>1
    <2> QED BY <2>1 DEF NoPsync, Pieces
  <1>4. NoPsync(up) => NoPsync(up')
    <2> SUFFICES ASSUME NoPsync(up), NEW k \in 1..Len(up'), up'[k].op = "PSYNC" PROVE FALSE
      BY DEF NoPsync, Pieces
    <2> PICK j \in 1..Len(up) : up[j].op = "PSYNC" BY <1>0, <1>2
    <2> QED BY DEF NoPsync, Pieces
  <1>5. NoPsync(up') \/ NoPsync(c)
    <2> SUFFICES ASSUME NEW k \in 1..Len(up'), up'[k].op = "PSYNC",
                        NEW j \in 1..Len(c), c[j].op = "PSYNC"
                 PROVE  FALSE
      BY DEF NoPsync, Pieces
    <2>1. j \in 1..n /\ up[j].op = "PSYNC" BY <1>1
    <2> PICK h \in (n + 1)..Len(up) : up[h].op = "PSYNC" BY <1>2
    <2>2. h \in 1..Len(up) /\ j \in 1..Len(up) /\ h # j BY <1>0, <2>1
    <2> QED BY <2>1, <2>2 DEF PsyncInv
  <1>6. \A k, m \in 1..Len(up') : up'[k].op = "PSYNC" /\ up'[m].op = "PSYNC" => k = m
    <2> SUFFICES ASSUME NEW k \in 1..Len(up'), NEW m \in 1..Len(up'),
                        up'[k].op = "PSYNC", up'[m].op = "PSYNC"
                 PROVE  k = m
      OBVIOUS
    <2>1. /\ (n + k) - d \in 1..Len(up) /\ up[(n + k) - d].op = "PSYNC"
          /\ (n + m) - d \in 1..Len(up) /\ up[(n + m) - d].op = "PSYNC"
      BY <1>0, <1>2
    <2>2. (n + k) - d = (n + m) - d BY <2>1 DEF PsyncInv
    <2>3. k \in Int /\ m \in Int /\ n \in Int /\ d \in Int OBVIOUS
    <2> QED BY <2>2, <2>3
  <1> QED BY <1>3, <1>4, <1>5, <1>6

LEMMA TakenTyped ==
  ASSUME IsSeq(up), \A p \in Pieces(up) : FromReplica(p),
         NEW n \in 1..Len(up), NEW c, NEW d \in {0, 1}, TakenAt(c, n, d)
  PROVE  (\A p \in Pieces(c) : ReadFromReplica(p)) /\ \A p \in Pieces(up') : FromReplica(p)
  <1>0. Len(up) \in Nat BY CutPieces
  <1>1. \A k \in 1..Len(up) : FromReplica(up[k]) BY DEF Pieces
  <1>2. ASSUME NEW k \in 1..Len(c) PROVE ReadFromReplica(c[k])
    <2>1. k \in 1..Len(up) /\ c[k].op \in {up[k].op} \cup Cuts(up[k].op)
      BY <1>0 DEF TakenAt
    <2>2. FromReplica(up[k]) BY <1>1, <2>1
    <2> QED BY <2>1, <2>2 DEF FromReplica, ReadFromReplica, Cuts, Commands
  <1>3. ASSUME NEW k \in 1..Len(up') PROVE FromReplica(up'[k])
    <2>1. CASE up'[k] = Message("TEXT", Blank) BY <2>1 DEF FromReplica, Message, Piece
    <2>2. CASE (n + k) - d \in (n + 1)..Len(up) /\ up'[k] = up[(n + k) - d]
      <3> PICK j \in 1..Len(up) : up'[k] = up[j] BY <1>0, <2>2
      <3> QED BY <1>1
    <2> QED BY <2>1, <2>2 DEF TakenAt
  <1> QED BY <1>2, <1>3 DEF Pieces

LEMMA TakeKeepsTypes ==
  ASSUME PieceInv, PsyncInv, StoreInv, TakeStep
  PROVE  PieceInv' /\ PsyncInv' /\ StoreInv'
  <1>0. masterFd' = masterFd /\ mpc' \in {mpc, "ended"} BY RunKeepsConnection DEF RunStep
  <1>1. ASSUME NEW c \in ClientChunks, TakeClientChunk(c) PROVE PieceInv' /\ PsyncInv' /\ StoreInv'
    <2>1. IsSeq(c) /\ NoPsync(c) /\ \A p \in Pieces(c) : FromClient(p) BY ClientChunkTyped
    <2>2. /\ mtask' = [from |-> "client", input |-> c, rest |-> c, sets |-> 0]
          /\ UNCHANGED <<up, down, slaves, master, replica, rtask, fresh>>
      BY <1>1 DEF TakeClientChunk
    <2>3. /\ mtask'.from = "client" /\ mtask'.input = c /\ mtask'.rest = c /\ mtask'.sets = 0
      BY <2>2
    <2>4. PieceInv' BY <2>1, <2>2, <2>3 DEF PieceInv
    <2>5. PsyncInv' BY <1>0, <2>1, <2>2, <2>3, TaskKeepsPsync
    <2> QED BY <2>2, <2>4, <2>5 DEF StoreInv
  <1>2. CASE MasterTakes
    <2>1. IsSeq(up) /\ \A p \in Pieces(up) : FromReplica(p) BY DEF PieceInv
    <2>2. PICK n \in 1..Len(up) :
            TakeReplicaChunk(n) \/ \E op \in Cuts(up[n].op) : CutReplicaChunk(n, op)
      BY <1>2 DEF MasterTakes
    <2>3. /\ \E c : \E d \in {0, 1} : TakenAt(c, n, d) /\ mtask' = TaskOf(c)
          /\ UNCHANGED <<down, slaves, master, replica, rtask, fresh, skipped>>
      BY <2>1, <2>2, ChunkTaken
    <2> PICK c : \E d \in {0, 1} : TakenAt(c, n, d) /\ mtask' = TaskOf(c) BY <2>3
    <2>4. PICK d \in {0, 1} : TakenAt(c, n, d) /\ mtask' = TaskOf(c) OBVIOUS
    <2>5. mtask'.from = "replica" /\ mtask'.input = c /\ mtask'.rest = c /\ mtask'.sets = 0
      BY <2>4 DEF TaskOf
    <2>6. IsSeq(c) /\ IsSeq(up') BY <2>4 DEF TakenAt
    <2>7. (\A p \in Pieces(c) : ReadFromReplica(p)) /\ \A p \in Pieces(up') : FromReplica(p)
      BY <2>1, <2>4, TakenTyped
    <2>8. PieceInv' BY <2>3, <2>5, <2>6, <2>7 DEF PieceInv
    <2>9. /\ NoPsync(up) => NoPsync(up') /\ NoPsync(c)
          /\ NoPsync(up') \/ NoPsync(c)
          /\ \A k, m \in 1..Len(up') : up'[k].op = "PSYNC" /\ up'[m].op = "PSYNC" => k = m
      BY <2>1, <2>4, TakenPsync
    <2>10. PsyncInv'
      <3>1. CASE NoPsync(up) BY <1>0, <2>3, <2>5, <2>9, <3>1 DEF PsyncInv
      <3>2. CASE ~NoPsync(up)
        <4>1. slaves = 0 /\ mpc \in {"accept", "ended"} /\ masterFd = "connected"
          BY <3>2 DEF PsyncInv
        <4> QED BY <1>0, <2>3, <2>5, <2>9, <4>1 DEF PsyncInv
      <3> QED BY <3>1, <3>2
    <2> QED BY <2>3, <2>8, <2>10 DEF StoreInv
  <1> QED BY <1>1, <1>2 DEF TakeStep

LEMMA ThreePieces ==
  ASSUME NEW a, NEW b, NEW c
  PROVE  IsSeq(<<a, b, c>>) /\ Pieces(<<a, b, c>>) \subseteq {a, b, c}
  <1>1. <<a, b, c>> \in Seq({a, b, c}) /\ Len(<<a, b, c>>) = 3 OBVIOUS
  <1>2. ASSUME NEW n \in 1..3 PROVE <<a, b, c>>[n] \in {a, b, c}
    <2>1. n = 1 \/ n = 2 \/ n = 3 OBVIOUS
    <2> QED BY <2>1
  <1> QED BY <1>1, <1>2 DEF IsSeq, Pieces

(* What the master writes before the RDB file is answers.                  *)
LEMMA RepliesTyped ==
  ASSUME NEW q, q.op \in {"PING", "REPLCONF", "PSYNC", "OTHER", "EMPTY"}, NEW d
  PROVE  IsSeq(Replies(q, d)) /\ \A p \in Pieces(Replies(q, d)) : ToReplica(p)
  <1>1. ASSUME NEW p, p.op \in {"OK", "PONG", "BULK", "FULLRESYNC", "RDB", "SUM"}
        PROVE  ToReplica(p)
    BY <1>1 DEF ToReplica
  <1>3. ASSUME NEW m, ToReplica(m)
        PROVE  IsSeq(<<m>>) /\ \A p \in Pieces(<<m>>) : ToReplica(p)
    <2>1. <<m>> \in Seq({m}) OBVIOUS
    <2>2. Pieces(<<m>>) \subseteq {m} BY <2>1 DEF Pieces
    <2> QED BY <1>3, <2>1, <2>2 DEF IsSeq
  <1>4. CASE q.op = "PING"
    <2> PICK m : m = Message("PONG", Blank) OBVIOUS
    <2>1. Replies(q, d) = <<m>> BY <1>4 DEF Replies
    <2>2. m.op = "PONG" BY DEF Message, Piece
    <2> QED BY <1>1, <1>3, <2>1, <2>2
  <1>5. CASE q.op = "REPLCONF"
    <2> PICK m : m = Message("OK", Blank) OBVIOUS
    <2>1. Replies(q, d) = <<m>> BY <1>5 DEF Replies
    <2>2. m.op = "OK" BY DEF Message, Piece
    <2> QED BY <1>1, <1>3, <2>1, <2>2
  <1>6. CASE q.op = "PSYNC"
    <2> PICK a : a = Message("FULLRESYNC", Blank) OBVIOUS
    <2> PICK b : b = Piece("RDB", Blank, Blank, FALSE) OBVIOUS
    <2> PICK c : c = Message("SUM", Blank) OBVIOUS
    <2>1. Replies(q, d) = <<a, b, c>> BY <1>6 DEF Replies
    <2>2. a.op = "FULLRESYNC" /\ b.op = "RDB" /\ c.op = "SUM" BY DEF Message, Piece
    <2>3. ToReplica(a) BY <2>2 DEF ToReplica
    <2>4. ToReplica(b) BY <2>2 DEF ToReplica
    <2>5. ToReplica(c) BY <2>2 DEF ToReplica
    <2>6. IsSeq(<<a, b, c>>) /\ Pieces(<<a, b, c>>) \subseteq {a, b, c} BY ThreePieces
    <2> QED BY <2>1, <2>3, <2>4, <2>5, <2>6, Zenon
  <1>7. CASE q.op \in {"OTHER", "EMPTY"}
    <2> PICK m : m = Message("BULK", Blank) OBVIOUS
    <2>1. Replies(q, d) = <<m>> BY <1>7 DEF Replies
    <2>2. m.op = "BULK" BY DEF Message, Piece
    <2> QED BY <1>1, <1>3, <2>1, <2>2
  <1> QED BY <1>4, <1>5, <1>6, <1>7

(* Something is added to what the replica will read, or nothing is.        *)
LEMMA DownKeepsPieces ==
  ASSUME PieceInv, NEW t, IsSeq(t), \A p \in Pieces(t) : ToReplica(p), down' \in {down, down \o t},
         UNCHANGED <<up, rtask>>, UNCHANGED <<mtask.from, mtask.input>>,
         IsSeq(mtask'.rest), Pieces(mtask'.rest) \subseteq Pieces(mtask.rest),
         mtask'.sets \in Nat, mtask.from # "client" => mtask'.sets = mtask.sets
  PROVE  PieceInv'
  <1>1. IsSeq(down) /\ \A p \in Pieces(down) : ToReplica(p) BY DEF PieceInv
  <1>2. IsSeq(down \o t) /\ Pieces(down \o t) \subseteq Pieces(down) \cup Pieces(t)
    BY <1>1, ConcatPieces
  <1>3. down' = down \/ down' = down \o t OBVIOUS
  <1>4. IsSeq(down') /\ \A p \in Pieces(down') : ToReplica(p) BY <1>1, <1>2, <1>3, Zenon
  <1>5. mtask'.from = "none" => mtask'.rest = <<>>
    <2>1. mtask'.from = "none" => mtask.rest = <<>> BY DEF PieceInv
    <2>2. mtask.rest = <<>> => Pieces(mtask'.rest) = {} BY EmptyPieces
    <2>3. Pieces(mtask'.rest) = {} => mtask'.rest = <<>>
      <3> PICK S : mtask'.rest \in Seq(S) BY DEF IsSeq
      <3> PICK s \in Seq(S) : s = mtask'.rest OBVIOUS
      <3>1. s # <<>> => 1 \in 1..Len(s) OBVIOUS
      <3>2. s # <<>> => Pieces(s) # {} BY <3>1 DEF Pieces
      <3> QED BY <3>2
    <2> QED BY <2>1, <2>2, <2>3
  <1>6. Pieces(mtask'.rest) \subseteq Pieces(mtask'.input) BY Zenon DEF PieceInv
  <1> QED BY <1>4, <1>5, <1>6 DEF PieceInv

LEMMA FirstPiece ==
  ASSUME NEW s, IsSeq(s), s # <<>>
  PROVE  Len(s) \in Nat /\ 1 \in 1..Len(s) /\ s[1] \in Pieces(s)
  <1> PICK S : s \in Seq(S) BY DEF IsSeq
  <1>1. Len(s) \in Nat /\ 1 \in 1..Len(s) OBVIOUS
  <1> QED BY <1>1 DEF Pieces

LEMMA MasterKeepsTypes ==
  ASSUME TypeInv, MasterStep
  PROVE  PieceInv' /\ PsyncInv' /\ StoreInv'
  <1>0. PieceInv /\ PsyncInv /\ StoreInv /\ TaskInv BY DEF TypeInv
  <1>1. masterFd' = masterFd /\ mpc' \in {mpc, "ended"} BY RunKeepsConnection DEF RunStep
  <1>2. PICK f, i, r, n : mtask = [from |-> f, input |-> i, rest |-> r, sets |-> n]
    BY <1>0 DEF TaskInv
  <1>3. /\ mtask.from = f /\ mtask.input = i /\ mtask.rest = r /\ mtask.sets = n
        /\ IsSeq(r) /\ IsSeq(i) /\ n \in Nat /\ Pieces(r) \subseteq Pieces(i)
    BY <1>0, <1>2 DEF PieceInv
  <1> PICK e : e = <<>> OBVIOUS
  <1>4. IsSeq(e) /\ Pieces(e) = {} BY EmptyPieces
  <1>5. CASE MasterIgnores
    <2>1. mtask' = [from |-> f, input |-> i, rest |-> e, sets |-> n] BY <1>2, <1>5 DEF MasterIgnores
    <2>2. mtask'.from = f /\ mtask'.input = i /\ mtask'.rest = e /\ mtask'.sets = n BY <2>1
    <2>3. UNCHANGED <<up, down, slaves, master, replica, rtask, fresh>> BY <1>5 DEF MasterIgnores
    <2>4. PieceInv' BY <1>0, <1>3, <1>4, <2>2, <2>3, DownKeepsPieces
    <2>5. PsyncInv' BY <1>0, <1>1, <1>3, <1>4, <2>2, <2>3, TaskKeepsPsync
    <2> QED BY <1>0, <2>3, <2>4, <2>5 DEF StoreInv
  <1>6. CASE MasterThrows
    <2>1. UNCHANGED <<up, down, slaves, master, replica, mtask, rtask, fresh>>
      BY <1>6 DEF MasterThrows, replVars
    <2>2. PsyncInv' BY <1>0, <1>1, <2>1, TaskKeepsPsync
    <2> QED BY <1>0, <2>1, <2>2 DEF PieceInv, StoreInv
  <1>7. CASE MasterSets
    <2> PICK rest : rest = AfterSet(r) OBVIOUS
    <2>1. mtask' = [from |-> f, input |-> i, rest |-> rest, sets |-> n + 1]
      BY <1>2, <1>7 DEF MasterSets
    <2>2. mtask'.from = f /\ mtask'.input = i /\ mtask'.rest = rest /\ mtask'.sets = n + 1
      BY <2>1
    <2>3. UNCHANGED <<up, down, slaves, replica, rtask>> BY <1>7 DEF MasterSets
    <2>4. r # <<>> /\ IsSet(r[1]) BY <1>3, <1>7 DEF MasterSets, MasterRuns
    <2>5. IsSeq(rest) /\ Pieces(rest) \subseteq Pieces(r) BY <1>3, <2>4, AfterSetCuts
    <2>6. r[1] \in Pieces(r)
      <3> PICK S : r \in Seq(S) BY <1>3 DEF IsSeq
      <3>1. 1 \in 1..Len(r) BY <2>4
      <3> QED BY <3>1 DEF Pieces
    <2>7. f = "client"
      <3>1. r[1].op \in {"SET", "KEY"} BY <2>4 DEF IsSet
      <3>2. f # "none" BY <1>0, <1>3, <2>4 DEF PieceInv
      <3>3. f # "replica" BY <1>0, <1>3, <2>6, <3>1 DEF PieceInv, ReadFromReplica, FromReplica
      <3> QED BY <1>0, <1>3, <3>2, <3>3 DEF TaskInv
    <2>8. FromClient(r[1]) BY <1>0, <1>3, <2>6, <2>7 DEF PieceInv
    <2>9. r[1].key \in Keys BY <2>4, <2>8 DEF FromClient
    <2>10. DOMAIN master' = DOMAIN master BY <1>7 DEF MasterSets
    <2>11. fresh' \in {fresh, fresh \cup {r[1].key}} BY <1>3, <1>7 DEF MasterSets
    <2>12. StoreInv' BY <1>0, <2>3, <2>9, <2>10, <2>11 DEF StoreInv
    <2>13. PieceInv'
      <3>1. n + 1 \in Nat BY <1>3
      <3> QED BY <1>0, <1>3, <1>4, <2>2, <2>3, <2>5, <2>7, <3>1, DownKeepsPieces
    <2>14. PsyncInv' BY <1>0, <1>1, <1>3, <2>2, <2>3, <2>5, TaskKeepsPsync
    <2> QED BY <2>12, <2>13, <2>14
  <1>8. CASE MasterReplies
    <2> PICK op : op = r[1].op OBVIOUS
    <2> PICK t : t = IF f = "replica" THEN Replies(r[1], master) ELSE <<>> OBVIOUS
    <2>1. /\ Answers(r) /\ r # <<>>
          /\ down' \in {down, down \o t}
          /\ slaves' = IF op = "PSYNC" THEN slaves + 1 ELSE slaves
          /\ UNCHANGED <<up, master, replica, rtask, fresh>>
      BY <1>3, <1>8 DEF MasterReplies, MasterRuns, SendToReplica
    <2>2. mtask' = [from |-> f, input |-> i, rest |-> e, sets |-> n]
      BY <1>2, <1>8 DEF MasterReplies
    <2>3. mtask'.from = f /\ mtask'.input = i /\ mtask'.rest = e /\ mtask'.sets = n BY <2>2
    <2>4. IsSeq(t) /\ \A p \in Pieces(t) : ToReplica(p)
      <3>1. CASE f = "replica"
        <4>1. r[1] \in Pieces(r) BY <1>3, <2>1, FirstPiece
        <4>2. ReadFromReplica(r[1]) BY <1>0, <1>3, <3>1, <4>1 DEF PieceInv
        <4>3. r[1].op \in {"PING", "REPLCONF", "PSYNC", "OTHER", "EMPTY"}
          BY <2>1, <4>2 DEF ReadFromReplica, FromReplica, Answers
        <4> QED BY <3>1, <4>3, RepliesTyped
      <3>2. CASE f # "replica" BY <3>2, EmptyPieces
      <3> QED BY <3>1, <3>2
    <2>5. PieceInv' BY <1>0, <1>3, <1>4, <2>1, <2>3, <2>4, DownKeepsPieces
    <2>6. PsyncInv'
      <3>1. CASE op # "PSYNC"
        BY <1>0, <1>1, <1>3, <1>4, <2>1, <2>3, <3>1, TaskKeepsPsync
      <3>2. CASE op = "PSYNC"
        <4>1. r[1] \in Pieces(r)
          <5> PICK S : r \in Seq(S) BY <1>3 DEF IsSeq
          <5>1. 1 \in 1..Len(r) BY <2>1
          <5> QED BY <5>1 DEF Pieces
        <4>2. ~NoPsync(r) BY <3>2, <4>1 DEF NoPsync
        <4>3. slaves = 0 /\ NoPsync(up) /\ mpc \in {"accept", "ended"} /\ masterFd = "connected"
          BY <1>0, <1>3, <4>2 DEF PsyncInv
        <4>4. slaves' = 1 BY <2>1, <3>2, <4>3
        <4>5. NoPsync(e) BY <1>4 DEF NoPsync
        <4>6. mpc' \in {"accept", "ended"} /\ masterFd' = "connected" BY <1>1, <4>3
        <4>7. \A k, m \in 1..Len(up') : up'[k].op = "PSYNC" /\ up'[m].op = "PSYNC" => k = m
          BY <1>0, <2>1 DEF PsyncInv
        <4>8. NoPsync(up') BY <2>1, <4>3
        <4> QED BY <2>3, <4>4, <4>5, <4>6, <4>7, <4>8 DEF PsyncInv
      <3> QED BY <3>1, <3>2
    <2> QED BY <1>0, <2>1, <2>5, <2>6 DEF StoreInv
  <1>9. CASE MasterForwards
    <2>1. /\ n > 0 /\ r = <<>> /\ UNCHANGED <<up, slaves, master, replica, rtask, fresh>>
          /\ down' = down \/ down' = down \o Copies(i, slaves)
      BY <1>3, <1>9 DEF MasterForwards, SendToReplica
    <2>2. mtask' = [from |-> f, input |-> i, rest |-> r, sets |-> n - 1]
      BY <1>2, <1>9 DEF MasterForwards
    <2>3. mtask'.from = f /\ mtask'.input = i /\ mtask'.rest = r /\ mtask'.sets = n - 1
      BY <2>2
    <2>4. f = "client" /\ \A p \in Pieces(i) : FromClient(p)
      BY <1>0, <1>3, <2>1 DEF PieceInv, TaskInv
    <2>5. slaves \in {0, 1} BY <1>0 DEF PsyncInv
    <2>6. Copies(i, slaves) \in {e, i}
      <3> PICK l \in {0, 1} : l = slaves BY <2>5
      <3>1. Copies(i, l) = IF l = 0 THEN <<>> ELSE i BY <1>3, CopiesOne
      <3> QED BY <3>1
    <2> PICK t : t = Copies(i, slaves) OBVIOUS
    <2>7. IsSeq(t) /\ \A p \in Pieces(t) : ToReplica(p)
      <3>1. CASE t = e BY <1>4, <3>1
      <3>2. CASE t = i BY <1>3, <2>4, <3>2 DEF ToReplica
      <3> QED BY <2>6, <3>1, <3>2
    <2>8. n - 1 \in Nat BY <1>3, <2>1
    <2>9. PieceInv' BY <1>0, <1>3, <2>1, <2>3, <2>4, <2>7, <2>8, DownKeepsPieces
    <2>10. PsyncInv' BY <1>0, <1>1, <1>3, <2>1, <2>3, TaskKeepsPsync
    <2> QED BY <1>0, <2>1, <2>9, <2>10 DEF StoreInv
  <1>10. CASE MasterEnds
    <2>1. mtask' = [from |-> "none", input |-> e, rest |-> e, sets |-> 0]
      BY <1>10 DEF MasterEnds, Idle
    <2>2. mtask'.from = "none" /\ mtask'.input = e /\ mtask'.rest = e /\ mtask'.sets = 0
      BY <2>1
    <2>3. UNCHANGED <<up, down, slaves, master, replica, rtask, fresh>> BY <1>10 DEF MasterEnds
    <2>4. PieceInv' BY <1>0, <1>4, <2>2, <2>3 DEF PieceInv
    <2>5. PsyncInv' BY <1>0, <1>1, <1>3, <1>4, <2>2, <2>3, TaskKeepsPsync
    <2> QED BY <1>0, <2>3, <2>4, <2>5 DEF StoreInv
  <1> QED BY <1>5, <1>6, <1>7, <1>8, <1>9, <1>10 DEF MasterStep

LEMMA ReplicaKeepsTypes ==
  ASSUME TypeInv, ReplicaStep
  PROVE  PieceInv' /\ PsyncInv' /\ StoreInv'
  <1>0. PieceInv /\ PsyncInv /\ StoreInv BY DEF TypeInv
  <1>1. masterFd' = masterFd /\ mpc' \in {mpc, "ended"} BY RunKeepsConnection DEF RunStep
  <1>2. IsSeq(up) /\ IsSeq(down) /\ IsSeq(rtask) BY <1>0 DEF PieceInv
  <1> PICK e : e = <<>> OBVIOUS
  <1>3. IsSeq(e) /\ Pieces(e) = {} BY EmptyPieces
  <1>4. ASSUME NEW m, FromReplica(m), m.op # "PSYNC", up' \in {up, Append(up, m)},
               UNCHANGED <<down, slaves, mtask>>,
               IsSeq(rtask'), Pieces(rtask') \subseteq Pieces(rtask)
        PROVE  PieceInv' /\ PsyncInv'
    <2>1. PieceInv' BY <1>0, <1>4, UpKeepsPieces
    <2>2. PsyncInv' BY <1>0, <1>1, <1>2, <1>4, PsyncKept
    <2> QED BY <2>1, <2>2
  <1>5. CASE ReplicaIgnores \/ ReplicaThrows
    <2>1. UNCHANGED <<up, down, slaves, master, replica, mtask, fresh>> /\ rtask' \in {rtask, e}
      BY <1>5 DEF ReplicaIgnores, ReplicaThrows, replVars
    <2> PICK m : m = Message("OK", Blank) OBVIOUS
    <2>2. m.op = "OK" BY DEF Message, Piece
    <2>3. FromReplica(m) /\ m.op # "PSYNC" BY <2>2 DEF FromReplica
    <2>4. IsSeq(rtask') /\ Pieces(rtask') \subseteq Pieces(rtask)
      <3>1. rtask' = rtask \/ rtask' = e BY <2>1
      <3> QED BY <1>2, <1>3, <3>1, Zenon
    <2>5. up' \in {up, Append(up, m)} BY <2>1
    <2>6. PieceInv' /\ PsyncInv' BY <1>4, <2>1, <2>3, <2>4, <2>5, Zenon
    <2>7. StoreInv' BY <1>0, <2>1 DEF StoreInv
    <2> QED BY <2>6, <2>7
  <1>6. CASE ReplicaSets
    <2> PICK m : m = Message("OK", Blank) OBVIOUS
    <2>1. /\ up' \in {up, Append(up, m)} /\ rtask' = AfterSet(rtask) /\ rtask # <<>>
          /\ UNCHANGED <<down, slaves, master, mtask, fresh>> /\ DOMAIN replica' = DOMAIN replica
      BY <1>6 DEF ReplicaSets, ReplicaRuns, SendToMaster
    <2>2. m.op = "OK" BY DEF Message, Piece
    <2>3. FromReplica(m) /\ m.op # "PSYNC" BY <2>2 DEF FromReplica
    <2>4. IsSeq(rtask') /\ Pieces(rtask') \subseteq Pieces(rtask) BY <1>2, <2>1, AfterSetCuts
    <2>5. PieceInv' /\ PsyncInv' BY <1>4, <2>1, <2>3, <2>4, Zenon
    <2>6. StoreInv' BY <1>0, <2>1 DEF StoreInv
    <2> QED BY <2>5, <2>6
  <1>7. CASE ReplicaReplies
    <2> PICK op : op = rtask[1].op OBVIOUS
    <2> PICK q : q = rtask[1] OBVIOUS
    <2> PICK m : m = Head(Replies(q, replica)) OBVIOUS
    <2>1. /\ op \in {"PING", "REPLCONF", "PSYNC", "KEYS", "CONFIG", "OTHER", "EMPTY"}
          /\ rtask # <<>> /\ rtask' = e /\ up' \in {up, Append(up, m)}
          /\ UNCHANGED <<down, slaves, master, replica, mtask, fresh>>
      BY <1>7 DEF ReplicaReplies, ReplicaRuns, SendToMaster, Answers
    <2>2. op # "PSYNC"
      <3>1. rtask[1] \in Pieces(rtask) BY <1>2, <2>1, FirstPiece
      <3> PICK p : p = rtask[1] OBVIOUS
      <3>2. ToReplica(p) BY <1>0, <3>1 DEF PieceInv
      <3> QED BY <3>2 DEF ToReplica, FromClient
    <2>3. m.op \in {"PONG", "OK", "OTHER", "EMPTY", "BULK"}
      <3>1. CASE q.op = "PING" BY <3>1 DEF Replies, Message, Piece
      <3>2. CASE q.op = "REPLCONF" BY <3>2 DEF Replies, Message, Piece
      <3>3. CASE q.op \in {"KEYS", "CONFIG", "OTHER", "EMPTY"}
        BY <3>3 DEF Replies, Message, Piece
      <3> QED BY <2>1, <2>2, <3>1, <3>2, <3>3
    <2>4. FromReplica(m) /\ m.op # "PSYNC" BY <2>3 DEF FromReplica
    <2>5. IsSeq(rtask') /\ Pieces(rtask') \subseteq Pieces(rtask) BY <1>3, <2>1
    <2>6. PieceInv' /\ PsyncInv' BY <1>4, <2>1, <2>4, <2>5, Zenon
    <2>7. StoreInv' BY <1>0, <2>1 DEF StoreInv
    <2> QED BY <2>6, <2>7
  <1>8. ASSUME NEW n \in 1..Len(down), TakeMasterChunk(n) PROVE PieceInv' /\ PsyncInv' /\ StoreInv'
    <2> DEFINE c == SubSeq(down, 1, n)
    <2>1. /\ IsSeq(c) /\ Pieces(c) \subseteq Pieces(down)
          /\ IsSeq(Drop(down, n)) /\ Pieces(Drop(down, n)) \subseteq Pieces(down)
      BY <1>2, CutPieces
    <2>2. /\ rtask' = c /\ down' = Drop(down, n)
          /\ UNCHANGED <<up, slaves, master, replica, mtask, fresh>>
      BY <1>8 DEF TakeMasterChunk
    <2> HIDE DEF c
    <2>3. PieceInv' BY <1>0, <2>1, <2>2 DEF PieceInv
    <2>4. PsyncInv' BY <1>0, <1>1, <2>2, TaskKeepsPsync
    <2> QED BY <1>0, <2>2, <2>3, <2>4 DEF StoreInv
  <1> QED BY <1>5, <1>6, <1>7, <1>8 DEF ReplicaStep

LEMMA TypeInit == Init => TypeInv
  <1> SUFFICES ASSUME Init PROVE TypeInv OBVIOUS
  <1> PICK e : e = <<>> OBVIOUS
  <1>1. IsSeq(e) /\ Pieces(e) = {} /\ Len(e) = 0 BY EmptyPieces, EmptyIsSeq
  <1>2. /\ up = e /\ down = e /\ rtask = e /\ slaves = 0 /\ fresh = {}
        /\ mtask = [from |-> "none", input |-> e, rest |-> e, sets |-> 0]
        /\ mpc = "args" /\ role = "master" /\ masterFd = "none"
        /\ DOMAIN master = Keys /\ DOMAIN replica = Keys
    BY DEF Init, StartInit, Idle, EmptyDatabase
  <1>3. mtask.from = "none" /\ mtask.input = e /\ mtask.rest = e /\ mtask.sets = 0 BY <1>2
  <1>4. PieceInv BY <1>1, <1>2, <1>3 DEF PieceInv
  <1>5. NoPsync(e) BY <1>1 DEF NoPsync
  <1>6. PsyncInv BY <1>1, <1>2, <1>3, <1>5 DEF PsyncInv
  <1>7. TaskInv BY <1>2, <1>3 DEF TaskInv
  <1> QED BY <1>2, <1>4, <1>6, <1>7 DEF TypeInv, ControlInv, StoreInv

LEMMA TypeStep == IInv /\ IInv' /\ TypeInv /\ [Next]_vars => TypeInv'
  <1> SUFFICES ASSUME IInv, IInv', TypeInv, [Next]_vars PROVE TypeInv' OBVIOUS
  <1>0. PieceInv /\ PsyncInv /\ StoreInv /\ ControlInv /\ TaskInv' BY DEF TypeInv, IInv
  <1>1. CASE Next
    <2>1. ControlInv' BY <1>0, <1>1, ControlKept
    <2>2. PieceInv' /\ PsyncInv' /\ StoreInv'
      <3>1. CASE (StartStep \/ AcceptFails) /\ UNCHANGED replVars
        BY <1>0, <3>1, StartKeepsTypes
      <3>2. CASE TakeStep BY <1>0, <3>2, TakeKeepsTypes
      <3>3. CASE MasterStep BY <3>3, MasterKeepsTypes
      <3>4. CASE ReplicaStep BY <3>4, ReplicaKeepsTypes
      <3> QED BY <1>1, <3>1, <3>2, <3>3, <3>4, Zenon DEF Next, TakeStep
    <2> QED BY <1>0, <2>1, <2>2 DEF TypeInv
  <1>2. CASE UNCHANGED vars
    <2>1. UNCHANGED <<mpc, role, masterFd, up, down, slaves, master, replica, mtask, rtask, fresh>>
      BY <1>2 DEF vars, startVars, replVars
    <2> QED BY <1>0, <2>1 DEF TypeInv, PieceInv, PsyncInv, ControlInv, StoreInv, Handshaking
  <1> QED BY <1>1, <1>2

LEMMA TypeInvHolds == Spec => []TypeInv
  BY TypeInit, TypeStep, IInvHolds, PTL DEF Spec

(* Whatever clients send and however recv() cuts it, the streams between   *)
(* the two processes hold what they should, and the handshake registers    *)
(* the replica once at most, on a connection that was made.                *)
THEOREM ReplicationTypeCorrect == Spec => []ReplicationTypeOK
  <1>1. TypeInv => ReplicationTypeOK
    <2> SUFFICES ASSUME TypeInv PROVE ReplicationTypeOK OBVIOUS
    <2>1. PieceInv /\ PsyncInv /\ StoreInv /\ ControlInv BY DEF TypeInv
    <2>2. \A n \in 1..Len(up) : up[n].op \in {"PING", "REPLCONF", "PSYNC", "OK", "PONG", "BULK",
                                                 "OTHER", "EMPTY", "TEXT"}
      BY <2>1 DEF PieceInv, Pieces, FromReplica
    <2>3. \A n \in 1..Len(down) : down[n].op \in Ops \ {"EMPTY", "HEAD", "TEXT"}
      <3> TAKE n \in 1..Len(down)
      <3> PICK p : p = down[n] OBVIOUS
      <3>1. ToReplica(p) BY <2>1 DEF PieceInv, Pieces
      <3> QED BY <3>1 DEF ToReplica, FromClient, Ops, Commands, Texts
    <2>4. slaves = 1 => masterFd = "connected" BY <2>1 DEF PsyncInv
    <2> QED BY <2>1, <2>2, <2>3, <2>4 DEF ReplicationTypeOK, ControlInv, StoreInv, PsyncInv
  <1> QED BY <1>1, TypeInvHolds, PTL

-----------------------------------------------------------------------------
(* Orderly streams                                                         *)

OneSendOnly(s) == \A k \in 1..(Len(s) - 1) : ~s[k].last

(* Whole sends, each in order, and none that begins within a value.        *)
WholeSends(s) ==
  /\ Orderly(s)
  /\ s # <<>> => s[Len(s)].last
  /\ \A n \in 1..Len(s) : n = 1 \/ s[n - 1].last => s[n].op # "REST"

LEMMA NoSetsOrderly ==
  ASSUME NEW s, \A p \in Pieces(s) : ~IsSet(p)
  PROVE  Orderly(s)
  BY DEF Orderly, Pieces

LEMMA WholeSetCopied ==
  ASSUME NEW s, NEW m \in Nat, NEW n \in Nat, OfWholeSet(s, m, n),
         NEW c, NEW i \in Nat, NEW j \in Nat, c[i] = s[m],
         m > 1 => i > 1 /\ c[i - 1] = s[m - 1],
         m > 2 => i > 2 /\ c[i - 2] = s[m - 2],
         m + 2 < n => i + 2 < j /\ c[i + 1] = s[m + 1] /\ c[i + 2] = s[m + 2]
  PROVE  OfWholeSet(c, i, j)
  <1>1. c[i].op \in {"SET", "KEY", "VAL", "REST"} BY DEF OfWholeSet
  <1>2. c[i].op = "KEY" => i + 2 < j /\ c[i + 1].op = "VAL" /\ c[i + 2].op = "REST"
    BY DEF OfWholeSet
  <1>3. c[i].op = "VAL" => i > 1 /\ ~c[i - 1].last /\ c[i - 1].op = "KEY" BY DEF OfWholeSet
  <1>4. c[i].op = "REST" => i > 2 /\ ~c[i - 1].last /\ ~c[i - 2].last /\ c[i - 2].op = "KEY"
    BY DEF OfWholeSet
  <1> QED BY <1>1, <1>2, <1>3, <1>4 DEF OfWholeSet

LEMMA PrefixOrderly ==
  ASSUME NEW s, IsSeq(s), NEW n \in 1..Len(s), Orderly(s)
  PROVE  Orderly(SubSeq(s, 1, n))
  <1> PICK c : c = SubSeq(s, 1, n) OBVIOUS
  <1>1. Len(c) = n /\ Len(s) \in Nat /\ \A k \in 1..n : c[k] = s[k] BY CutPieces
  <1> SUFFICES ASSUME NEW i \in 1..Len(c), NEW j \in 1..Len(c), i < j, IsSet(c[j]),
                      SameSend(c, i, j)
               PROVE  OfWholeSet(c, i, j)
    BY DEF Orderly
  <1>2. IsSet(s[j]) /\ i \in 1..Len(s) /\ j \in 1..Len(s) BY <1>1
  <1>3. SameSend(s, i, j) BY <1>1 DEF SameSend
  <1>4. OfWholeSet(s, i, j) BY <1>2, <1>3 DEF Orderly
  <1>5. c[i] = s[i] /\ (i > 1 => c[i - 1] = s[i - 1]) /\ (i > 2 => c[i - 2] = s[i - 2])
        /\ (i + 2 < j => c[i + 1] = s[i + 1] /\ c[i + 2] = s[i + 2])
    BY <1>1
  <1> QED BY <1>4, <1>5 DEF OfWholeSet

(* What comes after n pieces that do not end within a value.               *)
LEMMA RestOrderly ==
  ASSUME NEW s, IsSeq(s), NEW n \in 1..Len(s), Orderly(s),
         s[n].last \/ (s[n].op # "KEY" /\ (n > 1 => s[n - 1].op # "KEY"))
  PROVE  Orderly(Drop(s, n))
  <1> PICK c : c = Drop(s, n) OBVIOUS
  <1>1. /\ Len(c) = Len(s) - n /\ Len(s) \in Nat
        /\ \A k \in 1..(Len(s) - n) : c[k] = s[n + k]
    BY CutPieces
  <1> SUFFICES ASSUME NEW i \in 1..Len(c), NEW j \in 1..Len(c), i < j, IsSet(c[j]),
                      SameSend(c, i, j)
               PROVE  OfWholeSet(c, i, j)
    BY DEF Orderly
  <1>2. n + i \in 1..Len(s) /\ n + j \in 1..Len(s) /\ n + i < n + j BY <1>1
  <1>3. IsSet(s[n + j]) BY <1>1
  <1>4. SameSend(s, n + i, n + j)
    <2> SUFFICES ASSUME NEW k \in (n + i)..((n + j) - 1) PROVE ~s[k].last BY DEF SameSend
    <2> PICK h \in i..(j - 1) : k = n + h
      <3>1. k - n \in i..(j - 1) /\ k = n + (k - n) OBVIOUS
      <3> QED BY <3>1
    <2>1. ~c[h].last BY DEF SameSend
    <2>2. h \in 1..(Len(s) - n) BY <1>1
    <2>3. c[h] = s[k] BY <1>1, <2>2
    <2> QED BY <2>1, <2>3
  <1> PICK m \in 1..Len(s) : m = n + i BY <1>2
  <1>5. OfWholeSet(s, m, n + j) BY <1>2, <1>3, <1>4 DEF Orderly
  <1>6. c[i] = s[m] BY <1>1
  <1>7. i > 1 => c[i - 1] = s[m - 1]
    <2> SUFFICES ASSUME i > 1 PROVE c[i - 1] = s[m - 1] OBVIOUS
    <2>1. i - 1 \in 1..(Len(s) - n) /\ n + (i - 1) = m - 1 BY <1>1
    <2> QED BY <1>1, <2>1
  <1>8. i > 2 => c[i - 2] = s[m - 2]
    <2> SUFFICES ASSUME i > 2 PROVE c[i - 2] = s[m - 2] OBVIOUS
    <2>1. i - 2 \in 1..(Len(s) - n) /\ n + (i - 2) = m - 2 BY <1>1
    <2> QED BY <1>1, <2>1
  <1>9. i + 2 < j => c[i + 1] = s[m + 1] /\ c[i + 2] = s[m + 2]
    <2> SUFFICES ASSUME i + 2 < j PROVE c[i + 1] = s[m + 1] /\ c[i + 2] = s[m + 2] OBVIOUS
    <2>1. /\ i + 1 \in 1..(Len(s) - n) /\ n + (i + 1) = m + 1
          /\ i + 2 \in 1..(Len(s) - n) /\ n + (i + 2) = m + 2
      BY <1>1
    <2> QED BY <1>1, <2>1
  <1>10. c[i].op = "VAL" => i > 1
    <2> SUFFICES ASSUME c[i].op = "VAL", i = 1 PROVE FALSE BY <1>1
    <2>1. m - 1 = n OBVIOUS
    <2> QED BY <1>5, <1>6, <2>1 DEF OfWholeSet
  <1>11. c[i].op = "REST" => i > 2
    <2>1. ASSUME c[i].op = "REST", i = 1 PROVE FALSE
      <3>1. m - 1 = n /\ m - 2 = n - 1 BY <2>1
      <3> QED BY <1>5, <1>6, <2>1, <3>1 DEF OfWholeSet
    <2>2. ASSUME c[i].op = "REST", i = 2 PROVE FALSE
      <3>1. m - 2 = n BY <2>2
      <3> QED BY <1>5, <1>6, <2>2, <3>1 DEF OfWholeSet
    <2> QED BY <1>1, <2>1, <2>2
  <1>12. c[i].op = "KEY" => i + 2 < j /\ c[i + 1].op = "VAL" /\ c[i + 2].op = "REST"
    <2>1. c[i].op = "KEY" => m + 2 < n + j /\ s[m + 1].op = "VAL" /\ s[m + 2].op = "REST"
      BY <1>5, <1>6 DEF OfWholeSet
    <2>2. m + 2 < n + j => i + 2 < j OBVIOUS
    <2> QED BY <1>9, <2>1, <2>2
  <1> QED BY <1>5, <1>6, <1>7, <1>8, <1>10, <1>11, <1>12 DEF OfWholeSet

(* Nothing before the end of a send is before a SET of a later one.        *)
LEMMA ConcatWholeSends ==
  ASSUME NEW s, IsSeq(s), NEW t, IsSeq(t), WholeSends(s), WholeSends(t)
  PROVE  WholeSends(s \o t)
  <1> PICK c : c = s \o t OBVIOUS
  <1> PICK l : l = Len(s) OBVIOUS
  <1>1. /\ IsSeq(c) /\ l \in Nat /\ Len(t) \in Nat /\ Len(c) = l + Len(t)
        /\ \A k \in 1..l : c[k] = s[k]
        /\ \A k \in 1..Len(t) : c[l + k] = t[k]
    BY ConcatPieces
  <1>2. l > 0 => s[l].last
    <2>1. l > 0 => s # <<>> OBVIOUS
    <2> QED BY <2>1 DEF WholeSends
  <1>3. ASSUME NEW k \in 1..Len(c), k > l
        PROVE  \E j \in 1..Len(t) : k = l + j
    <2>1. k - l \in 1..Len(t) /\ k = l + (k - l) BY <1>1, <1>3
    <2> QED BY <2>1
  <1>4. Orderly(c)
    <2> SUFFICES ASSUME NEW i \in 1..Len(c), NEW j \in 1..Len(c), i < j, IsSet(c[j]),
                        SameSend(c, i, j)
                 PROVE  OfWholeSet(c, i, j)
      BY DEF Orderly
    <2>1. CASE j <= l
      <3>1. i \in 1..l /\ j \in 1..l BY <1>1, <2>1
      <3>2. IsSet(s[j]) BY <1>1, <3>1
      <3>3. SameSend(s, i, j) BY <1>1, <3>1 DEF SameSend
      <3>4. OfWholeSet(s, i, j) BY <3>1, <3>2, <3>3 DEF WholeSends, Orderly
      <3>5. /\ c[i] = s[i] /\ (i > 1 => c[i - 1] = s[i - 1]) /\ (i > 2 => c[i - 2] = s[i - 2])
            /\ (i + 2 < j => c[i + 1] = s[i + 1] /\ c[i + 2] = s[i + 2])
        BY <1>1, <3>1
      <3>6. i \in Nat /\ j \in Nat OBVIOUS
      <3> QED BY <3>4, <3>5, <3>6, WholeSetCopied
    <2>2. CASE i <= l /\ j > l
      <3>1. l \in i..(j - 1) /\ l \in 1..l BY <1>1, <2>2
      <3>2. ~c[l].last BY <3>1 DEF SameSend
      <3> QED BY <1>1, <1>2, <3>1, <3>2
    <2>3. CASE i > l
      <3>1. \E a, b \in 1..Len(t) : i = l + a /\ j = l + b
        <4>1. j > l BY <1>1, <2>3
        <4> QED BY <1>3, <2>3, <4>1
      <3> PICK a \in 1..Len(t), b \in 1..Len(t) : i = l + a /\ j = l + b BY <3>1
      <3>2. a < b /\ IsSet(t[b]) BY <1>1
      <3>3. SameSend(t, a, b)
        <4> SUFFICES ASSUME NEW k \in a..(b - 1) PROVE ~t[k].last BY DEF SameSend
        <4>1. k \in 1..Len(t) /\ l + k \in i..(j - 1) BY <1>1
        <4>2. ~c[l + k].last BY <4>1 DEF SameSend
        <4> QED BY <1>1, <4>1, <4>2
      <3>4. OfWholeSet(t, a, b) BY <3>2, <3>3 DEF WholeSends, Orderly
      <3>5. c[i] = t[a] BY <1>1
      <3>6. a > 1 => i > 1 /\ c[i - 1] = t[a - 1]
        <4> SUFFICES ASSUME a > 1 PROVE i > 1 /\ c[i - 1] = t[a - 1] OBVIOUS
        <4>1. a - 1 \in 1..Len(t) /\ l + (a - 1) = i - 1 BY <1>1
        <4>2. c[l + (a - 1)] = t[a - 1] BY <1>1, <4>1, Zenon
        <4>3. i > 1 BY <1>1
        <4> QED BY <4>1, <4>2, <4>3, Zenon
      <3>7. a > 2 => i > 2 /\ c[i - 2] = t[a - 2]
        <4> SUFFICES ASSUME a > 2 PROVE i > 2 /\ c[i - 2] = t[a - 2] OBVIOUS
        <4>1. a - 2 \in 1..Len(t) /\ l + (a - 2) = i - 2 BY <1>1
        <4>2. c[l + (a - 2)] = t[a - 2] BY <1>1, <4>1, Zenon
        <4>3. i > 2 BY <1>1
        <4> QED BY <4>1, <4>2, <4>3, Zenon
      <3>8. a + 2 < b => i + 2 < j /\ c[i + 1] = t[a + 1] /\ c[i + 2] = t[a + 2]
        <4> SUFFICES ASSUME a + 2 < b
                     PROVE  i + 2 < j /\ c[i + 1] = t[a + 1] /\ c[i + 2] = t[a + 2]
          OBVIOUS
        <4>1. a + 1 \in 1..Len(t) /\ a + 2 \in 1..Len(t) BY <1>1
        <4>2. c[l + (a + 1)] = t[a + 1] /\ c[l + (a + 2)] = t[a + 2] BY <1>1, <4>1, Zenon
        <4>3. l + (a + 1) = i + 1 /\ l + (a + 2) = i + 2 BY <1>1
        <4>4. c[i + 1] = t[a + 1] /\ c[i + 2] = t[a + 2] BY <4>2, <4>3, Zenon
        <4>5. i + 2 < j BY <1>1
        <4> QED BY <4>4, <4>5, Zenon
      <3>9. a \in Nat /\ b \in Nat /\ i \in Nat /\ j \in Nat OBVIOUS
      <3> QED BY <3>4, <3>5, <3>6, <3>7, <3>8, <3>9, WholeSetCopied, ZenonT(60)
    <2> QED BY <1>1, <2>1, <2>2, <2>3
  <1>5. c # <<>> => c[Len(c)].last
    <2> SUFFICES ASSUME c # <<>> PROVE c[Len(c)].last OBVIOUS
    <2>0. Len(c) > 0 BY <1>1, FirstPiece
    <2>1. CASE Len(t) = 0
      <3>1. Len(c) = l /\ l > 0 BY <1>1, <2>0, <2>1
      <3> QED BY <1>1, <1>2, <3>1
    <2>2. CASE Len(t) > 0
      <3>1. t # <<>> BY <2>2
      <3>2. t[Len(t)].last BY <3>1 DEF WholeSends
      <3>3. c[l + Len(t)] = t[Len(t)] BY <1>1, <2>2
      <3> QED BY <1>1, <3>2, <3>3
    <2> QED BY <1>1, <2>1, <2>2
  <1>6. ASSUME NEW n \in 1..Len(c), n = 1 \/ c[n - 1].last PROVE c[n].op # "REST"
    <2>1. CASE n <= l
      <3>1. n \in 1..l /\ c[n] = s[n] /\ (n > 1 => c[n - 1] = s[n - 1]) BY <1>1, <2>1
      <3> QED BY <1>6, <3>1 DEF WholeSends
    <2>2. CASE n > l
      <3> PICK a \in 1..Len(t) : n = l + a BY <1>3, <2>2
      <3>1. c[n] = t[a] BY <1>1
      <3>2. a = 1 \/ t[a - 1].last
        <4> SUFFICES ASSUME a > 1 PROVE t[a - 1].last BY <1>1
        <4>1. a - 1 \in 1..Len(t) /\ l + (a - 1) = n - 1 /\ n # 1 BY <1>1
        <4>2. c[n - 1] = t[a - 1] BY <1>1, <4>1
        <4> QED BY <1>6, <4>1, <4>2
      <3> QED BY <3>1, <3>2 DEF WholeSends
    <2> QED BY <1>1, <2>1, <2>2
  <1> QED BY <1>4, <1>5, <1>6 DEF WholeSends

LEMMA DropSends ==
  ASSUME NEW s, IsSeq(s), NEW n \in 1..Len(s), WholeSends(s), s[n].last
  PROVE  WholeSends(Drop(s, n))
  <1> PICK c : c = Drop(s, n) OBVIOUS
  <1>1. /\ IsSeq(c) /\ Len(c) = Len(s) - n /\ Len(s) \in Nat
        /\ \A k \in 1..(Len(s) - n) : c[k] = s[n + k]
    BY CutPieces
  <1>2. Orderly(c) BY RestOrderly DEF WholeSends
  <1>3. c # <<>> => c[Len(c)].last
    <2> SUFFICES ASSUME c # <<>> PROVE c[Len(c)].last OBVIOUS
    <2>1. Len(c) \in 1..(Len(s) - n) /\ n + Len(c) = Len(s) BY <1>1, FirstPiece
    <2>2. c[Len(c)] = s[Len(s)] BY <1>1, <2>1
    <2>3. s # <<>> BY <1>1
    <2> QED BY <2>2, <2>3 DEF WholeSends
  <1>4. ASSUME NEW k \in 1..Len(c), k = 1 \/ c[k - 1].last PROVE c[k].op # "REST"
    <2>1. n + k \in 1..Len(s) /\ c[k] = s[n + k] /\ n + k # 1 BY <1>1
    <2>2. s[(n + k) - 1].last
      <3>1. CASE k = 1
        <4>1. (n + k) - 1 = n BY <3>1
        <4> QED BY <4>1
      <3>2. CASE k > 1
        <4>1. k - 1 \in 1..(Len(s) - n) /\ n + (k - 1) = (n + k) - 1 BY <1>1, <3>2
        <4>2. c[k - 1] = s[(n + k) - 1] BY <1>1, <4>1
        <4> QED BY <1>4, <3>2, <4>2
      <3> QED BY <1>1, <3>1, <3>2
    <2> QED BY <2>1, <2>2 DEF WholeSends
  <1> QED BY <1>2, <1>3, <1>4 DEF WholeSends

AnswerOps == {"OK", "PONG", "BULK", "FULLRESYNC", "RDB", "SUM"}

LEMMA AnswersWhole ==
  ASSUME NEW s, IsSeq(s), \A p \in Pieces(s) : p.op \in AnswerOps, s # <<>> => s[Len(s)].last
  PROVE  WholeSends(s)
  <1>1. \A p \in Pieces(s) : ~IsSet(p) /\ p.op # "REST" BY DEF IsSet, AnswerOps
  <1>2. Orderly(s) BY <1>1, NoSetsOrderly
  <1>3. \A n \in 1..Len(s) : s[n].op # "REST" BY <1>1 DEF Pieces
  <1> QED BY <1>2, <1>3 DEF WholeSends

AllAnswers(s) == IsSeq(s) /\ s[Len(s)].last /\ \A p \in Pieces(s) : p.op \in AnswerOps

LEMMA RepliesAnswer ==
  ASSUME NEW q, q.op \in {"PING", "REPLCONF", "PSYNC", "OTHER", "EMPTY"}, NEW d
  PROVE  AllAnswers(Replies(q, d))
  <1>1. ASSUME NEW m, m.op \in AnswerOps, m.last PROVE AllAnswers(<<m>>)
    <2>1. <<m>> \in Seq({m}) /\ Len(<<m>>) = 1 /\ <<m>>[1] = m OBVIOUS
    <2>2. Pieces(<<m>>) \subseteq {m} BY <2>1 DEF Pieces
    <2>3. IsSeq(<<m>>) BY <2>1 DEF IsSeq
    <2>4. \A p \in Pieces(<<m>>) : p.op \in AnswerOps BY <1>1, <2>2
    <2>5. <<m>>[Len(<<m>>)].last BY <1>1, <2>1
    <2> QED BY <2>3, <2>4, <2>5 DEF AllAnswers
  <1>2. CASE q.op = "PING"
    <2> PICK m : m = Message("PONG", Blank) OBVIOUS
    <2>1. Replies(q, d) = <<m>> BY <1>2 DEF Replies
    <2>2. m.op \in AnswerOps /\ m.last BY DEF Message, Piece, AnswerOps
    <2> QED BY <1>1, <2>1, <2>2
  <1>3. CASE q.op = "REPLCONF"
    <2> PICK m : m = Message("OK", Blank) OBVIOUS
    <2>1. Replies(q, d) = <<m>> BY <1>3 DEF Replies
    <2>2. m.op \in AnswerOps /\ m.last BY DEF Message, Piece, AnswerOps
    <2> QED BY <1>1, <2>1, <2>2
  <1>4. CASE q.op = "PSYNC"
    <2> PICK a : a = Message("FULLRESYNC", Blank) OBVIOUS
    <2> PICK b : b = Piece("RDB", Blank, Blank, FALSE) OBVIOUS
    <2> PICK c : c = Message("SUM", Blank) OBVIOUS
    <2>1. Replies(q, d) = <<a, b, c>> BY <1>4 DEF Replies
    <2>2. a.op = "FULLRESYNC" /\ b.op = "RDB" /\ c.op = "SUM" /\ c.last BY DEF Message, Piece
    <2>3. IsSeq(<<a, b, c>>) /\ Pieces(<<a, b, c>>) \subseteq {a, b, c} BY ThreePieces
    <2>4. a.op \in AnswerOps /\ b.op \in AnswerOps /\ c.op \in AnswerOps BY <2>2 DEF AnswerOps
    <2>5. \A p \in Pieces(<<a, b, c>>) : p.op \in AnswerOps BY <2>3, <2>4, Zenon
    <2>6. <<a, b, c>>[Len(<<a, b, c>>)] = c OBVIOUS
    <2>7. <<a, b, c>>[Len(<<a, b, c>>)].last BY <2>2, <2>6
    <2> QED BY <2>1, <2>3, <2>5, <2>7, Zenon DEF AllAnswers
  <1>5. CASE q.op \in {"OTHER", "EMPTY"}
    <2> PICK m : m = Message("BULK", Blank) OBVIOUS
    <2>1. Replies(q, d) = <<m>> BY <1>5 DEF Replies
    <2>2. m.op \in AnswerOps /\ m.last BY DEF Message, Piece, AnswerOps
    <2> QED BY <1>1, <2>1, <2>2
  <1> QED BY <1>2, <1>3, <1>4, <1>5

LEMMA RepliesWhole ==
  ASSUME NEW q, q.op \in {"PING", "REPLCONF", "PSYNC", "OTHER", "EMPTY"}, NEW d
  PROVE  WholeSends(Replies(q, d)) /\ IsSeq(Replies(q, d))
  BY RepliesAnswer, AnswersWhole DEF AllAnswers

(* The replica is the only one that is answered on its connection, and it  *)
(* sends no KEYS and no CONFIG.                                            *)
Answered(q) == q.op \in {"PING", "REPLCONF", "PSYNC", "OTHER", "EMPTY"}
WritesAnswer(t) ==
  /\ down' = down \o t \/ (~Alive /\ down' = down)
  /\ \/ t = <<>>
     \/ \E d : t = Replies(mtask.rest[1], d) /\ Answered(mtask.rest[1])

LEMMA MasterWrites ==
  ASSUME PieceInv, MasterReplies
  PROVE  \E t : WritesAnswer(t)
  <1> PICK r : r = mtask.rest OBVIOUS
  <1>1. r # <<>> /\ Answers(r) /\ IsSeq(r) /\ Pieces(r) \subseteq Pieces(mtask.input)
    BY DEF MasterReplies, MasterRuns, PieceInv
  <1>2. CASE mtask.from # "replica"
    <2>1. down' = down \o <<>> \/ (~Alive /\ down' = down)
      BY <1>2 DEF MasterReplies, SendToReplica
    <2> QED BY <2>1 DEF WritesAnswer
  <1>3. CASE mtask.from = "replica"
    <2> PICK t : t = Replies(r[1], master) OBVIOUS
    <2>1. down' = down \o t \/ (~Alive /\ down' = down)
      BY <1>3 DEF MasterReplies, SendToReplica
    <2>2. r[1] \in Pieces(r) BY <1>1, FirstPiece
    <2>3. ReadFromReplica(r[1]) BY <1>1, <1>3, <2>2 DEF PieceInv
    <2>4. Answered(r[1]) BY <1>1, <2>3 DEF ReadFromReplica, FromReplica, Answers, Answered
    <2> QED BY <2>1, <2>4 DEF WritesAnswer
  <1> QED BY <1>2, <1>3

LEMMA ChunkWhole ==
  ASSUME OrderlyClients, NEW c \in ClientChunks, c # <<>>, IsSet(c[1])
  PROVE  WholeSends(c)
  <1>1. IsSeq(c) BY ClientChunkTyped
  <1>2. Len(c) \in Nat /\ 1 \in 1..Len(c) BY <1>1, FirstPiece
  <1>3. Orderly(c) /\ \A n \in 1..Len(c) : c[n].last <=> n = Len(c) BY DEF OrderlyClients
  <1>4. c[Len(c)].last BY <1>2, <1>3
  <1>5. ASSUME NEW n \in 1..Len(c), n = 1 \/ c[n - 1].last PROVE c[n].op # "REST"
    <2>1. n = 1
      <3> SUFFICES ASSUME n # 1 PROVE FALSE OBVIOUS
      <3>1. n - 1 \in 1..Len(c) /\ n - 1 # Len(c) BY <1>2
      <3>2. ~c[n - 1].last BY <1>3, <3>1
      <3> QED BY <1>5, <3>2
    <2> QED BY <2>1 DEF IsSet
  <1> QED BY <1>3, <1>4, <1>5 DEF WholeSends

(* A send that holds a SET begins with one: it is not thrown away whole.   *)
LEMMA SetComesFirst ==
  ASSUME NEW c, IsSeq(c), c # <<>>, Orderly(c), OneSendOnly(c), HoldsSet(c)
  PROVE  IsSet(c[1])
  <1>1. Len(c) \in Nat /\ 1 \in 1..Len(c) BY FirstPiece
  <1> PICK n \in 1..Len(c) : IsSet(c[n]) BY DEF HoldsSet
  <1>2. CASE n = 1 BY <1>2
  <1>3. CASE n # 1
    <2>1. SameSend(c, 1, n) BY <1>1, <1>3 DEF SameSend, OneSendOnly
    <2>2. OfWholeSet(c, 1, n) BY <1>1, <1>3, <2>1 DEF Orderly
    <2> QED BY <2>2 DEF OfWholeSet, IsSet
  <1> QED BY <1>2, <1>3

LEMMA NotEmpty ==
  ASSUME NEW s, Len(s) \in Nat \ {0}
  PROVE  s # <<>>
  <1>1. CASE s = <<>>
    <2>1. Len(s) = 0 BY <1>1, EmptyIsSeq, Zenon
    <2> QED BY <2>1
  <1> QED BY <1>1

(* After a SET the replica goes on with the next one, if there is one.     *)
LEMMA NextSetFound ==
  ASSUME NEW c, IsSeq(c), c # <<>>, IsSet(c[1]), Orderly(c), OneSendOnly(c)
  PROVE  /\ Orderly(AfterSet(c)) /\ OneSendOnly(AfterSet(c))
         /\ HoldsSet(Tail(c)) => AfterSet(c) # <<>>
  <1>1. Len(c) \in Nat /\ 1 \in 1..Len(c) BY FirstPiece
  <1> PICK S : c \in Seq(S) BY DEF IsSeq
  <1>2. ASSUME NEW n \in 2..Len(c), IsSet(c[n])
        PROVE  \A m \in 1..(n - 1) : OfWholeSet(c, m, n)
    <2> TAKE m \in 1..(n - 1)
    <2>1. SameSend(c, m, n) BY <1>1 DEF SameSend, OneSendOnly
    <2> QED BY <1>1, <1>2, <2>1 DEF Orderly
  <1>3. ASSUME HoldsSet(Tail(c)) PROVE AfterSet(c) # <<>>
    <2>1. Len(Tail(c)) = Len(c) - 1 /\ \A k \in 1..(Len(c) - 1) : Tail(c)[k] = c[k + 1] BY <1>1
    <2> PICK k \in 1..(Len(c) - 1) : IsSet(Tail(c)[k]) BY <1>3, <2>1 DEF HoldsSet
    <2> PICK n \in 2..Len(c) : n = k + 1 BY <1>1
    <2>2. IsSet(c[n]) BY <2>1
    <2>3. \A m \in 1..(n - 1) : OfWholeSet(c, m, n) BY <1>2, <2>2
    <2>4. CASE c[1].op = "SET"
      <3>1. IsSet(c[2])
        <4>1. CASE n = 2 BY <2>2, <4>1
        <4>2. CASE n > 2
          <5>1. OfWholeSet(c, 2, n) BY <2>3, <4>2
          <5> QED BY <2>4, <5>1 DEF OfWholeSet, IsSet
        <4> QED BY <4>1, <4>2
      <3>2. Tail(c) # <<>> /\ Tail(c)[1] = c[2]
        <4>1. 1 \in 1..(Len(c) - 1) BY <1>1
        <4>2. Tail(c)[1] = c[1 + 1] BY <2>1, <4>1
        <4>3. Tail(c) # <<>>
          <5>1. Len(Tail(c)) \in Nat \ {0} BY <1>1, <2>1
          <5> QED BY <5>1, NotEmpty
        <4> QED BY <4>2, <4>3
      <3>3. AtArray(Tail(c)) BY <3>1, <3>2 DEF AtArray, IsSet, Texts
      <3> QED BY <2>4, <3>2, <3>3 DEF AfterSet, Whole
    <2>5. CASE c[1].op = "KEY"
      <3>1. OfWholeSet(c, 1, n) BY <2>3
      <3>2. 3 < n /\ c[2].op = "VAL" /\ c[3].op = "REST" BY <2>5, <3>1 DEF OfWholeSet
      <3>3. IsSet(c[4])
        <4>1. CASE n = 4 BY <2>2, <4>1
        <4>2. CASE n > 4
          <5>1. OfWholeSet(c, 4, n) BY <2>3, <4>2
          <5> QED BY <3>2, <5>1 DEF OfWholeSet, IsSet
        <4> QED BY <3>2, <4>1, <4>2
      <3> PICK rest : rest = SubSeq(c, 4, Len(c)) OBVIOUS
      <3>4. rest # <<>> /\ rest[1] = c[4]
        <4>1. Len(c) >= 4 BY <1>1, <3>2
        <4>2. Len(rest) = Len(c) - 3 /\ rest[1] = c[4] BY <4>1
        <4>3. rest # <<>>
          <5>1. Len(rest) \in Nat \ {0} BY <1>1, <4>1, <4>2
          <5> QED BY <5>1, NotEmpty
        <4> QED BY <4>2, <4>3
      <3>5. AtArray(rest) BY <3>3, <3>4 DEF AtArray, IsSet, Texts
      <3>6. Whole(c) BY <1>1, <3>2 DEF Whole
      <3> QED BY <2>5, <3>4, <3>5, <3>6 DEF AfterSet
    <2> QED BY <2>4, <2>5 DEF IsSet
  <1>4. CASE AfterSet(c) = <<>>
    <2>1. Orderly(AfterSet(c)) /\ OneSendOnly(AfterSet(c))
      BY <1>4, EmptyPieces, EmptyIsSeq, NoSetsOrderly DEF OneSendOnly
    <2> QED BY <1>3, <2>1
  <1>5. CASE AfterSet(c) # <<>>
    <2> DEFINE k == IF c[1].op = "SET" THEN 1 ELSE 3
    <2>1. k \in 1..Len(c) /\ AfterSet(c) = Drop(c, k) BY <1>5, AfterSetCuts
    <2>2. c[k].op # "KEY" BY <1>5, <2>1 DEF AfterSet, Whole
    <2>3. OneSendOnly(Drop(c, k))
      <3>1. /\ Len(Drop(c, k)) = Len(c) - k
            /\ \A j \in 1..(Len(c) - k) : Drop(c, k)[j] = c[k + j]
        BY <2>1, CutPieces
      <3> HIDE DEF k
      <3> QED BY <1>1, <2>1, <3>1 DEF OneSendOnly
    <2>4. Orderly(Drop(c, k))
      <3>1. CASE c[1].op = "SET"
        <4>1. k = 1 BY <3>1
        <4> QED BY <2>1, <2>2, <4>1, RestOrderly
      <3>2. CASE c[1].op # "SET"
        <4>1. k = 3 BY <3>2
        <4>2. c[2].op # "KEY"
          <5> SUFFICES ASSUME IsSet(c[2]) PROVE FALSE BY DEF IsSet
          <5>1. 2 \in 2..Len(c) BY <2>1, <4>1
          <5>2. OfWholeSet(c, 1, 2) BY <1>2, <5>1
          <5> QED BY <3>2, <5>2 DEF OfWholeSet, IsSet
        <4> QED BY <2>1, <2>2, <4>1, <4>2, RestOrderly
      <3> QED BY <3>1, <3>2
    <2> QED BY <1>3, <2>1, <2>3, <2>4
  <1> QED BY <1>4, <1>5

-----------------------------------------------------------------------------
(* What is thrown away                                                     *)

(* The chunk of a task is forwarded only if it began with a SET.           *)
ChunkInv ==
  /\ mtask.from = "client" => mtask.input \in ClientChunks
  /\ mtask.sets > 0 => mtask.input # <<>> /\ IsSet(mtask.input[1])
  /\ mtask.sets = 0 /\ mtask.rest # <<>> => mtask.rest = mtask.input

(* While every recv() returns what one send() wrote, the stream is cut at  *)
(* the ends of sends, and what the replica has taken holds SETs that its   *)
(* parser finds one after the other.                                       *)
DeliveryInv ==
  ~merged =>
    /\ ~skipped /\ WholeSends(down)
    /\ Orderly(rtask) /\ OneSendOnly(rtask)

LEMMA ChunkStep ==
  ASSUME TypeInv, ChunkInv, RunStep
  PROVE  ChunkInv'
  <1>0. PieceInv /\ TaskInv BY DEF TypeInv
  <1>1. PICK f, i, r, n : mtask = [from |-> f, input |-> i, rest |-> r, sets |-> n]
    BY <1>0 DEF TaskInv
  <1>2. mtask.from = f /\ mtask.input = i /\ mtask.rest = r /\ mtask.sets = n BY <1>1
  <1>3. n \in Nat BY <1>0, <1>2 DEF PieceInv
  <1> PICK e : e = <<>> OBVIOUS
  <1>4. ASSUME NEW f2, NEW i2, NEW r2, NEW n2 \in Nat,
               mtask' = [from |-> f2, input |-> i2, rest |-> r2, sets |-> n2],
               f2 = "client" => i2 \in ClientChunks,
               n2 > 0 => i2 # <<>> /\ IsSet(i2[1]),
               n2 = 0 /\ r2 # <<>> => r2 = i2
        PROVE  ChunkInv'
    <2>1. mtask'.from = f2 /\ mtask'.input = i2 /\ mtask'.rest = r2 /\ mtask'.sets = n2
      BY <1>4
    <2> QED BY <1>4, <2>1 DEF ChunkInv
  <1>5. ASSUME NEW c \in ClientChunks, TakeClientChunk(c) PROVE ChunkInv'
    <2>1. mtask' = [from |-> "client", input |-> c, rest |-> c, sets |-> 0]
      BY <1>5 DEF TakeClientChunk
    <2> QED BY <1>4, <2>1
  <1>6. CASE MasterTakes
    <2> PICK c : mtask' = TaskOf(c) BY <1>0, <1>6, ReplicaChunk DEF PieceInv
    <2>1. mtask' = [from |-> "replica", input |-> c, rest |-> c, sets |-> 0] BY DEF TaskOf
    <2> QED BY <1>4, <2>1
  <1>7. CASE MasterIgnores \/ MasterReplies
    <2>1. mtask' = [from |-> f, input |-> i, rest |-> e, sets |-> n]
      BY <1>1, <1>7 DEF MasterIgnores, MasterReplies
    <2> QED BY <1>2, <1>3, <1>4, <2>1 DEF ChunkInv
  <1>8. CASE MasterSets
    <2> PICK rest : rest = AfterSet(r) OBVIOUS
    <2>1. mtask' = [from |-> f, input |-> i, rest |-> rest, sets |-> n + 1]
      BY <1>1, <1>8 DEF MasterSets
    <2>2. r # <<>> /\ IsSet(r[1]) BY <1>2, <1>8 DEF MasterSets, MasterRuns
    <2>3. i # <<>> /\ IsSet(i[1]) BY <1>2, <1>3, <2>2 DEF ChunkInv
    <2>4. n + 1 \in Nat /\ n + 1 # 0 BY <1>3
    <2> QED BY <1>2, <1>4, <2>1, <2>3, <2>4 DEF ChunkInv
  <1>9. CASE MasterForwards
    <2>1. mtask' = [from |-> f, input |-> i, rest |-> r, sets |-> n - 1] /\ n > 0 /\ r = <<>>
      BY <1>1, <1>2, <1>9 DEF MasterForwards
    <2>2. n - 1 \in Nat BY <1>3, <2>1
    <2> QED BY <1>2, <1>4, <2>1, <2>2 DEF ChunkInv
  <1>10. CASE MasterEnds
    <2>1. mtask' = [from |-> "none", input |-> e, rest |-> e, sets |-> 0]
      BY <1>10 DEF MasterEnds, Idle
    <2> QED BY <1>4, <2>1
  <1>11. CASE MasterThrows \/ ReplicaStep
    <2>1. mtask' = mtask
      BY <1>11 DEF MasterThrows, ReplicaStep, ReplicaIgnores, ReplicaThrows, ReplicaSets,
                   ReplicaReplies, TakeMasterChunk, replVars
    <2> QED BY <2>1 DEF ChunkInv
  <1> QED BY <1>5, <1>6, <1>7, <1>8, <1>9, <1>10, <1>11 DEF RunStep, TakeStep, MasterStep

LEMMA MasterDelivers ==
  ASSUME OrderlyClients, TypeInv, ChunkInv, DeliveryInv, MasterStep
  PROVE  DeliveryInv'
  <1>0. PieceInv /\ PsyncInv /\ TaskInv BY DEF TypeInv
  <1>1. UNCHANGED <<skipped, merged, rtask>>
    BY DEF MasterStep, MasterIgnores, MasterThrows, MasterSets, MasterReplies, MasterForwards,
           MasterEnds, replVars
  <1> SUFFICES ASSUME ~merged, WholeSends(down) PROVE WholeSends(down')
    BY <1>1 DEF DeliveryInv
  <1>2. IsSeq(down) BY <1>0 DEF PieceInv
  <1>3. CASE down' = down BY <1>3
  <1>4. ASSUME NEW t, IsSeq(t), WholeSends(t), down' = down \o t PROVE WholeSends(down')
    BY <1>2, <1>4, ConcatWholeSends
  <1>5. CASE MasterReplies
    <2>1. PICK t : WritesAnswer(t) BY <1>0, <1>5, MasterWrites
    <2>2. IsSeq(t) /\ WholeSends(t)
      <3>1. CASE t = <<>> BY <3>1, EmptyPieces, AnswersWhole
      <3>2. CASE \E d : t = Replies(mtask.rest[1], d) /\ Answered(mtask.rest[1])
        BY <3>2, RepliesWhole DEF Answered
      <3> QED BY <2>1, <3>1, <3>2 DEF WritesAnswer
    <2>3. down' = down \/ down' = down \o t BY <2>1 DEF WritesAnswer
    <2> QED BY <1>3, <1>4, <2>2, <2>3, Zenon
  <1>6. CASE MasterForwards
    <2> PICK i : i = mtask.input OBVIOUS
    <2>1. /\ mtask.sets > 0 /\ IsSeq(i)
          /\ down' = down \/ down' = down \o Copies(i, slaves)
      BY <1>0, <1>6 DEF MasterForwards, SendToReplica, PieceInv
    <2>2. slaves \in {0, 1} BY <1>0 DEF PsyncInv
    <2>3. mtask.from = "client" BY <1>0, <2>1 DEF PieceInv, TaskInv
    <2>4. i \in ClientChunks /\ i # <<>> /\ IsSet(i[1]) BY <2>1, <2>3 DEF ChunkInv
    <2>5. WholeSends(i) BY <2>4, ChunkWhole
    <2> PICK l \in {0, 1} : l = slaves BY <2>2
    <2> PICK t : t = Copies(i, l) OBVIOUS
    <2>6. t = IF l = 0 THEN <<>> ELSE i BY <2>1, CopiesOne
    <2> PICK e : e = <<>> OBVIOUS
    <2>7. IsSeq(e) /\ WholeSends(e)
      BY EmptyPieces, EmptyIsSeq, NoSetsOrderly DEF WholeSends
    <2>8. t = e \/ t = i BY <2>6
    <2>9. IsSeq(t) /\ WholeSends(t) BY <2>1, <2>5, <2>7, <2>8, Zenon
    <2>10. down' = down \/ down' = down \o t BY <2>1
    <2> QED BY <1>3, <1>4, <2>9, <2>10, Zenon
  <1>7. CASE MasterIgnores \/ MasterThrows \/ MasterSets \/ MasterEnds
    <2>1. down' = down
      BY <1>7 DEF MasterIgnores, MasterThrows, MasterSets, MasterEnds, replVars
    <2> QED BY <1>3, <2>1
  <1> QED BY <1>5, <1>6, <1>7 DEF MasterStep

LEMMA ReplicaDelivers ==
  ASSUME TypeInv, DeliveryInv, ReplicaStep
  PROVE  DeliveryInv'
  <1>0. IsSeq(down) /\ IsSeq(rtask) BY DEF TypeInv, PieceInv
  <1> SUFFICES ASSUME ~merged' PROVE ~skipped' /\ WholeSends(down') /\ Orderly(rtask')
                                     /\ OneSendOnly(rtask')
    BY Zenon DEF DeliveryInv
  <1>1. ~merged
    BY DEF ReplicaStep, ReplicaIgnores, ReplicaThrows, ReplicaSets, ReplicaReplies,
           TakeMasterChunk, replVars
  <1>2. ~skipped /\ WholeSends(down) /\ Orderly(rtask) /\ OneSendOnly(rtask)
    BY <1>1 DEF DeliveryInv
  <1> PICK e : e = <<>> OBVIOUS
  <1>3. Orderly(e) /\ OneSendOnly(e)
    BY EmptyPieces, EmptyIsSeq, NoSetsOrderly DEF OneSendOnly
  <1>4. CASE ReplicaIgnores
    <2>1. /\ rtask # <<>> /\ ~AtArray(rtask) /\ rtask' = e /\ UNCHANGED down
          /\ skipped' = (skipped \/ HoldsSet(rtask))
      BY <1>4 DEF ReplicaIgnores, ReplicaRuns
    <2>2. ~HoldsSet(rtask)
      <3> SUFFICES ASSUME HoldsSet(rtask) PROVE FALSE OBVIOUS
      <3>1. IsSet(rtask[1]) BY <1>0, <1>2, <2>1, SetComesFirst
      <3> QED BY <2>1, <3>1 DEF AtArray, IsSet, Texts
    <2> QED BY <1>2, <1>3, <2>1, <2>2
  <1>5. CASE ReplicaThrows
    <2>1. UNCHANGED <<skipped, down, rtask>> BY <1>5 DEF ReplicaThrows, replVars
    <2> QED BY <1>2, <2>1
  <1>6. CASE ReplicaSets
    <2>1. /\ rtask # <<>> /\ IsSet(rtask[1]) /\ rtask' = AfterSet(rtask) /\ UNCHANGED down
          /\ skipped' = \/ skipped \/ Padded(rtask)
                        \/ HoldsSet(Tail(rtask)) /\ AfterSet(rtask) = <<>>
                        \/ ~Whole(rtask) /\ down # <<>> /\ down[1].op = "REST"
      BY <1>6 DEF ReplicaSets, ReplicaRuns
    <2>4. ~Padded(rtask)
      <3>1. Len(rtask) \in Nat BY <1>0, <2>1, FirstPiece
      <3>2. Len(rtask) > 2 => 2 \in 1..(Len(rtask) - 1) BY <3>1
      <3> QED BY <1>2, <3>2 DEF Padded, OneSendOnly
    <2>2. /\ Orderly(AfterSet(rtask)) /\ OneSendOnly(AfterSet(rtask))
          /\ HoldsSet(Tail(rtask)) => AfterSet(rtask) # <<>>
      BY <1>0, <1>2, <2>1, NextSetFound
    <2>3. down # <<>> => down[1].op # "REST" BY <1>0, <1>2, FirstPiece DEF WholeSends
    <2> QED BY <1>2, <2>1, <2>2, <2>3, <2>4
  <1>7. CASE ReplicaReplies
    <2>1. /\ rtask # <<>> /\ Answers(rtask) /\ rtask' = e
          /\ UNCHANGED down /\ skipped' = (skipped \/ HoldsSet(rtask))
      BY <1>7 DEF ReplicaReplies, ReplicaRuns
    <2>2. ~HoldsSet(rtask)
      <3> SUFFICES ASSUME HoldsSet(rtask) PROVE FALSE OBVIOUS
      <3>1. IsSet(rtask[1]) BY <1>0, <1>2, <2>1, SetComesFirst
      <3> QED BY <2>1, <3>1 DEF IsSet, Answers
    <2> QED BY <1>2, <1>3, <2>1, <2>2
  <1>8. ASSUME NEW n \in 1..Len(down), TakeMasterChunk(n)
        PROVE  ~skipped' /\ WholeSends(down') /\ Orderly(rtask') /\ OneSendOnly(rtask')
    <2> PICK c : c = SubSeq(down, 1, n) OBVIOUS
    <2>1. /\ rtask' = c /\ down' = Drop(down, n) /\ UNCHANGED skipped
          /\ merged' = (merged \/ ~OneSend(down, n))
      BY <1>8 DEF TakeMasterChunk
    <2>2. OneSend(down, n) BY <2>1
    <2>3. down[n].last /\ \A m \in 1..(n - 1) : ~down[m].last BY <2>2 DEF OneSend
    <2>4. Len(c) = n /\ \A k \in 1..n : c[k] = down[k] BY <1>0, CutPieces
    <2>5. OneSendOnly(c) BY <2>3, <2>4 DEF OneSendOnly
    <2>6. Orderly(c) BY <1>0, <1>2, PrefixOrderly DEF WholeSends
    <2>7. WholeSends(Drop(down, n)) BY <1>0, <1>2, <2>3, DropSends
    <2> QED BY <1>2, <2>1, <2>5, <2>6, <2>7
  <1> QED BY <1>4, <1>5, <1>6, <1>7, <1>8 DEF ReplicaStep

LEMMA DeliveryInit == Init => ChunkInv /\ DeliveryInv
  <1> SUFFICES ASSUME Init PROVE ChunkInv /\ DeliveryInv OBVIOUS
  <1> PICK e : e = <<>> OBVIOUS
  <1>1. /\ down = e /\ rtask = e /\ ~skipped
        /\ mtask = [from |-> "none", input |-> e, rest |-> e, sets |-> 0]
    BY DEF Init, Idle
  <1>2. mtask.from = "none" /\ mtask.input = e /\ mtask.rest = e /\ mtask.sets = 0 BY <1>1
  <1>3. WholeSends(e) /\ Orderly(e) /\ OneSendOnly(e)
    BY EmptyPieces, EmptyIsSeq, NoSetsOrderly DEF WholeSends, OneSendOnly
  <1> QED BY <1>1, <1>2, <1>3 DEF ChunkInv, DeliveryInv

LEMMA DeliveryStep ==
  OrderlyClients /\ TypeInv /\ ChunkInv /\ DeliveryInv /\ [Next]_vars => ChunkInv' /\ DeliveryInv'
  <1> SUFFICES ASSUME OrderlyClients, TypeInv, ChunkInv, DeliveryInv, [Next]_vars
               PROVE  ChunkInv' /\ DeliveryInv'
    OBVIOUS
  <1>1. CASE UNCHANGED <<down, rtask, skipped, merged, mtask>>
    BY <1>1 DEF ChunkInv, DeliveryInv
  <1>2. CASE RunStep
    <2>1. ChunkInv' BY <1>2, ChunkStep
    <2>2. DeliveryInv'
      <3>1. CASE TakeStep
        <4>1. UNCHANGED <<down, rtask, skipped>> /\ (merged => merged')
          <5>1. ASSUME NEW c \in ClientChunks, TakeClientChunk(c)
                PROVE  UNCHANGED <<down, rtask, skipped>> /\ (merged => merged')
            BY <5>1, Zenon DEF TakeClientChunk
          <5>2. IsSeq(up) BY DEF TypeInv, PieceInv
          <5>3. CASE MasterTakes BY <5>2, <5>3, ReplicaChunk
          <5> QED BY <3>1, <5>1, <5>3, Zenon DEF TakeStep
        <4> SUFFICES ASSUME ~merged'
                     PROVE  ~skipped' /\ WholeSends(down') /\ Orderly(rtask')
                            /\ OneSendOnly(rtask')
          BY Zenon DEF DeliveryInv
        <4>2. ~merged BY <4>1
        <4>3. ~skipped /\ WholeSends(down) /\ Orderly(rtask) /\ OneSendOnly(rtask)
          BY <4>2 DEF DeliveryInv
        <4> QED BY <4>1, <4>3
      <3>2. CASE MasterStep BY <3>2, MasterDelivers
      <3>3. CASE ReplicaStep BY <3>3, ReplicaDelivers
      <3> QED BY <1>2, <3>1, <3>2, <3>3 DEF RunStep
    <2> QED BY <2>1, <2>2
  <1>3. CASE (StartStep \/ AcceptFails) /\ UNCHANGED replVars
    BY <1>1, <1>3 DEF replVars
  <1>4. CASE UNCHANGED vars
    BY <1>1, <1>4 DEF vars, replVars
  <1> QED BY <1>2, <1>3, <1>4 DEF Next, RunStep, TakeStep

(* If clients put no other command before a SET: as long as each recv() of *)
(* the replica returns what one send() wrote, it executes every SET it is  *)
(* sent and adds nothing to its value, however often the master repeats a  *)
(* chunk and wherever the master's own recv() has cut the clients'         *)
(* commands.                                                               *)
THEOREM NoneSkippedUnmerged ==
  ASSUME OrderlyClients
  PROVE  Spec => []SkipsNeedMerging
  <1>1. DeliveryInv => SkipsNeedMerging BY DEF DeliveryInv, SkipsNeedMerging
  <1>2. TypeInv /\ ChunkInv /\ DeliveryInv /\ [Next]_vars => ChunkInv' /\ DeliveryInv'
    BY DeliveryStep
  <1> QED BY <1>1, <1>2, DeliveryInit, TypeInvHolds, PTL DEF Spec

-----------------------------------------------------------------------------
(* What a replica that throws no SET away ends up with                     *)

(* The value the SET at m of s stores, and the last one of a key among the *)
(* first n pieces of s, if there is one.                                   *)
ValueAt(s, m) ==
  IF s[m].op = "SET" \/ (m + 2 <= Len(s) /\ s[m + 2].op = "REST")
    THEN s[m].val ELSE <<"cut", s[m].val>>
Writes(s, m, k) == IsSet(s[m]) /\ s[m].key = k
LastIn(s, n, k, v) ==
  \E m \in 1..n : Writes(s, m, k) /\ v = ValueAt(s, m) /\ \A j \in (m + 1)..n : ~Writes(s, j, k)
NoneIn(s, n, k) == \A m \in 1..n : ~Writes(s, m, k)

(* Executing s on a database with x for k leaves v.                        *)
Pending(s, k, x, v) == LastIn(s, Len(s), k, v) \/ (NoneIn(s, Len(s), k) /\ x = v)

(* No stream ends within the head of a SET, and the bytes after a part of  *)
(* a value are the remainder of it or those of another send().             *)
FramedStream(s) ==
  \A m \in 1..Len(s) : s[m].op = "KEY" =>
    /\ m < Len(s) /\ s[m + 1].op = "VAL"
    /\ s[m + 1].last \/ (m + 2 <= Len(s) /\ s[m + 2].op = "REST")

(* t is s without its first j pieces.                                      *)
IsRest(t, s, j) == Len(s) = j + Len(t) /\ \A n \in 1..Len(t) : t[n] = s[j + n]

LEMMA RestValue ==
  ASSUME NEW s, IsSeq(s), NEW t, IsSeq(t), NEW j \in Nat, IsRest(t, s, j), NEW m \in 1..Len(t)
  PROVE  ValueAt(t, m) = ValueAt(s, j + m)
  <1>1. Len(s) \in Nat /\ Len(t) \in Nat
    <2> PICK S : s \in Seq(S) BY DEF IsSeq
    <2> PICK T : t \in Seq(T) BY DEF IsSeq
    <2> QED OBVIOUS
  <1>2. t[m] = s[j + m] BY DEF IsRest
  <1>3. m + 2 <= Len(t) <=> (j + m) + 2 <= Len(s) BY <1>1 DEF IsRest
  <1>4. m + 2 <= Len(t) => t[m + 2] = s[(j + m) + 2]
    <2> SUFFICES ASSUME m + 2 <= Len(t) PROVE t[m + 2] = s[(j + m) + 2] OBVIOUS
    <2>1. m + 2 \in 1..Len(t) /\ j + (m + 2) = (j + m) + 2 BY <1>1
    <2> QED BY <2>1 DEF IsRest
  <1> QED BY <1>2, <1>3, <1>4, Zenon DEF ValueAt

LEMMA Consumes ==
  ASSUME NEW s, IsSeq(s), NEW t, IsSeq(t), NEW j \in Nat, IsRest(t, s, j),
         \A m \in 2..j : ~IsSet(s[m]),
         NEW k, NEW x, NEW v, Pending(s, k, x, v),
         NEW y, y = IF j > 0 /\ Writes(s, 1, k) THEN ValueAt(s, 1) ELSE x
  PROVE  Pending(t, k, y, v)
  <1>1. Len(s) \in Nat /\ Len(t) \in Nat /\ Len(s) = j + Len(t)
    <2> PICK S : s \in Seq(S) BY DEF IsSeq
    <2> PICK T : t \in Seq(T) BY DEF IsSeq
    <2> QED BY DEF IsRest
  <1>2. \A n \in 1..Len(t) : j + n \in 1..Len(s) /\ (Writes(t, n, k) <=> Writes(s, j + n, k))
    BY <1>1 DEF IsRest, Writes
  <1>3. ASSUME NEW m \in 1..Len(s), Writes(s, m, k), v = ValueAt(s, m),
               \A n \in (m + 1)..Len(s) : ~Writes(s, n, k)
        PROVE  Pending(t, k, y, v)
    <2>1. CASE m > j
      <3> PICK i \in 1..Len(t) : m = j + i
        <4>1. m - j \in 1..Len(t) /\ m = j + (m - j) BY <1>1, <2>1
        <4> QED BY <4>1
      <3>1. Writes(t, i, k) BY <1>2, <1>3
      <3>2. v = ValueAt(t, i) BY <1>3, RestValue
      <3>3. \A n \in (i + 1)..Len(t) : ~Writes(t, n, k)
        <4> TAKE n \in (i + 1)..Len(t)
        <4>1. n \in 1..Len(t) /\ j + n \in (m + 1)..Len(s) BY <1>1
        <4> QED BY <1>2, <1>3, <4>1
      <3> QED BY <3>1, <3>2, <3>3 DEF Pending, LastIn
    <2>2. CASE m <= j
      <3>1. m = 1 /\ j > 0 BY <1>3, <2>2 DEF Writes
      <3>2. y = v BY <1>3, <3>1
      <3>3. NoneIn(t, Len(t), k)
        <4> SUFFICES ASSUME NEW n \in 1..Len(t) PROVE ~Writes(t, n, k) BY DEF NoneIn
        <4>1. j + n \in (m + 1)..Len(s) BY <1>1, <3>1
        <4> QED BY <1>2, <1>3, <4>1
      <3> QED BY <3>2, <3>3 DEF Pending
    <2> QED BY <1>1, <2>1, <2>2
  <1>4. CASE NoneIn(s, Len(s), k) /\ x = v
    <2>1. NoneIn(t, Len(t), k) BY <1>2, <1>4 DEF NoneIn
    <2>2. y = x
      <3>1. j > 0 => 1 \in 1..Len(s) BY <1>1
      <3> QED BY <1>4, <3>1 DEF NoneIn
    <2> QED BY <1>4, <2>1, <2>2 DEF Pending
  <1> QED BY <1>3, <1>4 DEF Pending, LastIn

LEMMA SeqFacts ==
  ASSUME NEW s, IsSeq(s)
  PROVE  Len(s) \in Nat /\ (s = <<>> <=> Len(s) = 0)
  <1> PICK S : s \in Seq(S) BY DEF IsSeq
  <1> QED OBVIOUS

(* A SET that arrives behind s leaves the values of s as they are.         *)
LEMMA ValueKept ==
  ASSUME NEW s, IsSeq(s), NEW t, IsSeq(t), FramedStream(s), t # <<>> => t[1].op # "REST",
         NEW m \in 1..Len(s), IsSet(s[m])
  PROVE  ValueAt(s \o t, m) = ValueAt(s, m)
  <1> PICK u : u = s \o t OBVIOUS
  <1>1. /\ Len(s) \in Nat /\ Len(t) \in Nat /\ Len(u) = Len(s) + Len(t)
        /\ \A k \in 1..Len(s) : u[k] = s[k]
        /\ \A k \in 1..Len(t) : u[Len(s) + k] = t[k]
    <2>1. IsConcat(u, s, t) BY ConcatIs, Zenon
    <2> QED BY <2>1 DEF IsConcat
  <1>2. u[m] = s[m] BY <1>1
  <1>3. CASE s[m].op = "SET" BY <1>2, <1>3 DEF ValueAt
  <1>4. CASE s[m].op # "SET"
    <2>1. m < Len(s) BY <1>4 DEF IsSet, FramedStream
    <2>2. CASE m + 2 <= Len(s)
      <3>1. m + 2 \in 1..Len(s) BY <1>1, <2>2
      <3>2. u[m + 2] = s[m + 2] /\ m + 2 <= Len(u) BY <1>1, <3>1
      <3> QED BY <1>2, <2>2, <3>2, Zenon DEF ValueAt
    <2>3. CASE ~(m + 2 <= Len(s))
      <3>1. m + 2 = Len(s) + 1 BY <1>1, <2>1, <2>3
      <3>2. m + 2 <= Len(u) => u[m + 2].op # "REST"
        <4> SUFFICES ASSUME m + 2 <= Len(u) PROVE u[m + 2].op # "REST" OBVIOUS
        <4>1. 1 \in 1..Len(t) BY <1>1, <3>1
        <4>2. u[Len(s) + 1] = t[1] BY <1>1, <4>1, Zenon
        <4>3. t # <<>> BY <4>1, SeqFacts
        <4> QED BY <3>1, <4>2, <4>3
      <3> QED BY <1>2, <2>3, <3>2, Zenon DEF ValueAt
    <2> QED BY <2>2, <2>3
  <1> QED BY <1>3, <1>4

(* Executing t after s.                                                    *)
LEMMA Appended ==
  ASSUME NEW s, IsSeq(s), NEW t, IsSeq(t), FramedStream(s), t # <<>> => t[1].op # "REST",
         NEW k, NEW x, NEW v,
         LastIn(t, Len(t), k, v) \/ (NoneIn(t, Len(t), k) /\ Pending(s, k, x, v))
  PROVE  Pending(s \o t, k, x, v)
  <1> PICK u : u = s \o t OBVIOUS
  <1>1. /\ IsSeq(u) /\ Len(s) \in Nat /\ Len(t) \in Nat /\ Len(u) = Len(s) + Len(t)
        /\ \A n \in 1..Len(s) : u[n] = s[n]
        /\ \A n \in 1..Len(t) : u[Len(s) + n] = t[n]
    <2>1. IsConcat(u, s, t) BY ConcatIs, Zenon
    <2> QED BY <2>1 DEF IsConcat
  <1>2. IsRest(t, u, Len(s)) BY <1>1 DEF IsRest
  <1>3. ASSUME NEW n \in 1..Len(u), n > Len(s)
        PROVE  \E i \in 1..Len(t) : n = Len(s) + i /\ (Writes(u, n, k) <=> Writes(t, i, k))
    <2>1. n - Len(s) \in 1..Len(t) /\ n = Len(s) + (n - Len(s)) BY <1>1, <1>3
    <2> QED BY <1>1, <2>1 DEF Writes
  <1>4. ASSUME NEW m \in 1..Len(t), Writes(t, m, k), v = ValueAt(t, m),
               \A n \in (m + 1)..Len(t) : ~Writes(t, n, k)
        PROVE  LastIn(u, Len(u), k, v)
    <2>1. Len(s) + m \in 1..Len(u) BY <1>1
    <2>2. Writes(u, Len(s) + m, k) BY <1>1, <1>4 DEF Writes
    <2>3. v = ValueAt(u, Len(s) + m) BY <1>1, <1>2, <1>4, RestValue
    <2>4. ASSUME NEW n \in ((Len(s) + m) + 1)..Len(u) PROVE ~Writes(u, n, k)
      <3>1. n \in 1..Len(u) /\ n > Len(s) BY <1>1
      <3> PICK i \in 1..Len(t) : n = Len(s) + i /\ (Writes(u, n, k) <=> Writes(t, i, k))
        BY <1>3, <3>1
      <3>2. i \in (m + 1)..Len(t) BY <1>1
      <3> QED BY <1>4, <3>2
    <2> QED BY <2>1, <2>2, <2>3, <2>4 DEF LastIn
  <1>5. ASSUME NoneIn(t, Len(t), k), NEW n \in 1..Len(u), n > Len(s) PROVE ~Writes(u, n, k)
    BY <1>3, <1>5 DEF NoneIn
  <1>6. ASSUME NoneIn(t, Len(t), k), NEW m \in 1..Len(s), Writes(s, m, k), v = ValueAt(s, m),
               \A n \in (m + 1)..Len(s) : ~Writes(s, n, k)
        PROVE  LastIn(u, Len(u), k, v)
    <2>1. m \in 1..Len(u) BY <1>1
    <2>2. Writes(u, m, k) BY <1>1, <1>6 DEF Writes
    <2>3. IsSet(s[m]) BY <1>6 DEF Writes
    <2>4. v = ValueAt(u, m) BY <1>6, <2>3, ValueKept
    <2>5. ASSUME NEW n \in (m + 1)..Len(u) PROVE ~Writes(u, n, k)
      <3>1. CASE n <= Len(s)
        <4>1. n \in (m + 1)..Len(s) /\ u[n] = s[n] BY <1>1, <3>1
        <4> QED BY <1>6, <4>1 DEF Writes
      <3>2. CASE n > Len(s) BY <1>1, <1>5, <1>6, <3>2
      <3> QED BY <1>1, <3>1, <3>2
    <2> QED BY <2>1, <2>2, <2>4, <2>5 DEF LastIn
  <1>7. ASSUME NoneIn(t, Len(t), k), NoneIn(s, Len(s), k) PROVE NoneIn(u, Len(u), k)
    <2> SUFFICES ASSUME NEW n \in 1..Len(u) PROVE ~Writes(u, n, k) BY DEF NoneIn
    <2>1. CASE n <= Len(s)
      <3>1. n \in 1..Len(s) /\ u[n] = s[n] BY <1>1, <2>1
      <3> QED BY <1>7, <3>1 DEF NoneIn, Writes
    <2>2. CASE n > Len(s) BY <1>5, <1>7, <2>2
    <2> QED BY <1>1, <2>1, <2>2
  <1> QED BY <1>4, <1>6, <1>7 DEF Pending, LastIn

LEMMA FramedRest ==
  ASSUME NEW s, IsSeq(s), NEW t, IsSeq(t), NEW j \in Nat, IsRest(t, s, j), FramedStream(s)
  PROVE  FramedStream(t)
  <1>1. Len(s) \in Nat /\ Len(t) \in Nat BY SeqFacts
  <1>2. Len(s) = j + Len(t) BY DEF IsRest
  <1> SUFFICES ASSUME NEW m \in 1..Len(t), t[m].op = "KEY"
               PROVE  /\ m < Len(t) /\ t[m + 1].op = "VAL"
                      /\ t[m + 1].last \/ (m + 2 <= Len(t) /\ t[m + 2].op = "REST")
    BY DEF FramedStream
  <1>3. j + m \in 1..Len(s) /\ s[j + m].op = "KEY" BY <1>1, <1>2 DEF IsRest
  <1>4. /\ j + m < Len(s) /\ s[(j + m) + 1].op = "VAL"
        /\ s[(j + m) + 1].last \/ ((j + m) + 2 <= Len(s) /\ s[(j + m) + 2].op = "REST")
    BY <1>3 DEF FramedStream
  <1>5. m < Len(t) BY <1>1, <1>2, <1>4
  <1>6. t[m + 1] = s[(j + m) + 1]
    <2>1. m + 1 \in 1..Len(t) /\ j + (m + 1) = (j + m) + 1 BY <1>1, <1>5
    <2> QED BY <2>1 DEF IsRest
  <1>7. (j + m) + 2 <= Len(s) => t[m + 2] = s[(j + m) + 2] /\ m + 2 <= Len(t)
    <2> SUFFICES ASSUME (j + m) + 2 <= Len(s)
                 PROVE  t[m + 2] = s[(j + m) + 2] /\ m + 2 <= Len(t)
      OBVIOUS
    <2>1. m + 2 \in 1..Len(t) /\ j + (m + 2) = (j + m) + 2 BY <1>1, <1>2
    <2> QED BY <2>1 DEF IsRest
  <1> QED BY <1>4, <1>5, <1>6, <1>7, Zenon

LEMMA FramedAppend ==
  ASSUME NEW s, IsSeq(s), NEW t, IsSeq(t), FramedStream(s), FramedStream(t)
  PROVE  FramedStream(s \o t)
  <1> PICK u : u = s \o t OBVIOUS
  <1>1. /\ Len(s) \in Nat /\ Len(t) \in Nat /\ Len(u) = Len(s) + Len(t)
        /\ \A n \in 1..Len(s) : u[n] = s[n]
        /\ \A n \in 1..Len(t) : u[Len(s) + n] = t[n]
    <2>1. IsConcat(u, s, t) BY ConcatIs, Zenon
    <2> QED BY <2>1 DEF IsConcat
  <1> SUFFICES ASSUME NEW m \in 1..Len(u), u[m].op = "KEY"
               PROVE  /\ m < Len(u) /\ u[m + 1].op = "VAL"
                      /\ u[m + 1].last \/ (m + 2 <= Len(u) /\ u[m + 2].op = "REST")
    BY DEF FramedStream
  <1>2. CASE m <= Len(s)
    <2>1. m \in 1..Len(s) /\ s[m].op = "KEY" BY <1>1, <1>2
    <2>2. /\ m < Len(s) /\ s[m + 1].op = "VAL"
          /\ s[m + 1].last \/ (m + 2 <= Len(s) /\ s[m + 2].op = "REST")
      BY <2>1 DEF FramedStream
    <2>3. m < Len(u) BY <1>1, <2>2
    <2>4. u[m + 1] = s[m + 1]
      <3>1. m + 1 \in 1..Len(s) BY <1>1, <2>2
      <3> QED BY <1>1, <3>1
    <2>5. m + 2 <= Len(s) => m + 2 <= Len(u) /\ u[m + 2] = s[m + 2]
      <3> SUFFICES ASSUME m + 2 <= Len(s) PROVE m + 2 <= Len(u) /\ u[m + 2] = s[m + 2] OBVIOUS
      <3>1. m + 2 \in 1..Len(s) BY <1>1
      <3> QED BY <1>1, <3>1
    <2> QED BY <2>2, <2>3, <2>4, <2>5, Zenon
  <1>3. CASE m > Len(s)
    <2>1. m - Len(s) \in 1..Len(t) /\ m = Len(s) + (m - Len(s)) BY <1>1, <1>3
    <2> PICK i \in 1..Len(t) : m = Len(s) + i BY <2>1
    <2>2. t[i].op = "KEY" BY <1>1
    <2>3. /\ i < Len(t) /\ t[i + 1].op = "VAL"
          /\ t[i + 1].last \/ (i + 2 <= Len(t) /\ t[i + 2].op = "REST")
      BY <2>2 DEF FramedStream
    <2>4. m < Len(u) BY <1>1, <2>3
    <2>5. u[m + 1] = t[i + 1]
      <3>1. i + 1 \in 1..Len(t) /\ Len(s) + (i + 1) = m + 1 BY <1>1, <2>3
      <3> QED BY <1>1, <3>1
    <2>6. i + 2 <= Len(t) => m + 2 <= Len(u) /\ u[m + 2] = t[i + 2]
      <3> SUFFICES ASSUME i + 2 <= Len(t) PROVE m + 2 <= Len(u) /\ u[m + 2] = t[i + 2] OBVIOUS
      <3>1. i + 2 \in 1..Len(t) /\ Len(s) + (i + 2) = m + 2 BY <1>1
      <3>2. u[Len(s) + (i + 2)] = t[i + 2] BY <1>1, <3>1, Zenon
      <3> QED BY <1>1, <3>1, <3>2
    <2> QED BY <2>3, <2>4, <2>5, <2>6, Zenon
  <1> QED BY <1>1, <1>2, <1>3

LEMMA NoSetsFramed ==
  ASSUME NEW s, \A n \in 1..Len(s) : ~IsSet(s[n])
  PROVE  FramedStream(s)
  BY DEF FramedStream, IsSet

(* A chunk of whole commands, the last of which may be cut in its value.   *)
LEMMA ChunkFramed ==
  ASSUME NEW c, IsSeq(c), Framed(c), \A m \in 1..Len(c) : c[m].op = "KEY" => m < Len(c),
         \A m \in 1..Len(c) : c[m].last <=> m = Len(c)
  PROVE  FramedStream(c)
  <1>1. Len(c) \in Nat BY SeqFacts
  <1> SUFFICES ASSUME NEW m \in 1..Len(c), c[m].op = "KEY"
               PROVE  /\ m < Len(c) /\ c[m + 1].op = "VAL"
                      /\ c[m + 1].last \/ (m + 2 <= Len(c) /\ c[m + 2].op = "REST")
    BY DEF FramedStream
  <1>2. m < Len(c) OBVIOUS
  <1>3. c[m + 1].op = "VAL"
    <2>1. m \in 1..(Len(c) - 1) BY <1>1, <1>2
    <2> QED BY <2>1 DEF Framed
  <1>4. CASE m + 1 = Len(c)
    <2>1. m + 1 \in 1..Len(c) BY <1>1, <1>4
    <2> QED BY <1>2, <1>3, <1>4, <2>1
  <1>5. CASE m + 1 # Len(c)
    <2>1. m + 1 \in 1..(Len(c) - 1) /\ (m + 1) + 1 = m + 2 /\ m + 2 <= Len(c) BY <1>1, <1>2, <1>5
    <2>2. c[m + 2].op = "REST" BY <1>3, <2>1 DEF Framed
    <2> QED BY <1>2, <1>3, <2>1, <2>2
  <1> QED BY <1>4, <1>5

(* What a SET leaves of its chunk, and of the stream behind it.            *)
LEMMA AfterSetRest ==
  ASSUME NEW c, IsSeq(c), c # <<>>
  PROVE  /\ IsSeq(AfterSet(c))
         /\ \E j \in 1..Len(c) :
              /\ IsRest(AfterSet(c), c, j)
              /\ IF AfterSet(c) = <<>> THEN j = Len(c)
                 ELSE Whole(c) /\ j = IF c[1].op = "SET" THEN 1 ELSE 3
  <1>1. Len(c) \in Nat /\ 1 \in 1..Len(c) BY FirstPiece
  <1>2. CASE AfterSet(c) = <<>>
    <2> PICK a : a = AfterSet(c) OBVIOUS
    <2>1. Len(a) = 0 /\ IsSeq(a) BY <1>2, EmptyIsSeq
    <2>2. IsRest(a, c, Len(c)) BY <1>1, <2>1 DEF IsRest
    <2>3. Len(c) \in 1..Len(c) BY <1>1
    <2> QED BY <1>2, <2>1, <2>2, <2>3, Zenon
  <1>3. CASE AfterSet(c) # <<>>
    <2>1. Whole(c) BY <1>3 DEF AfterSet
    <2> PICK j \in 1..Len(c) : AfterSet(c) = Drop(c, j) /\ j = IF c[1].op = "SET" THEN 1 ELSE 3
      BY <1>3, AfterSetCuts
    <2> PICK a : a = Drop(c, j) OBVIOUS
    <2>2. IsSeq(a) /\ Len(a) = Len(c) - j /\ \A k \in 1..(Len(c) - j) : a[k] = c[j + k]
      BY CutPieces
    <2>3. IsRest(a, c, j) BY <1>1, <2>2 DEF IsRest
    <2> QED BY <1>3, <2>1, <2>2, <2>3, Zenon
  <1> QED BY <1>2, <1>3

LEMMA StreamRest ==
  ASSUME NEW c, IsSeq(c), NEW a, IsSeq(a), NEW d, IsSeq(d), NEW j \in Nat, IsRest(a, c, j)
  PROVE  IsRest(a \o d, c \o d, j)
  <1> PICK u : u = c \o d OBVIOUS
  <1> PICK w : w = a \o d OBVIOUS
  <1>1. /\ Len(c) \in Nat /\ Len(d) \in Nat /\ Len(u) = Len(c) + Len(d)
        /\ \A n \in 1..Len(c) : u[n] = c[n]
        /\ \A n \in 1..Len(d) : u[Len(c) + n] = d[n]
    <2>1. IsConcat(u, c, d) BY ConcatIs, Zenon
    <2> QED BY <2>1 DEF IsConcat
  <1>2. /\ Len(a) \in Nat /\ Len(w) = Len(a) + Len(d)
        /\ \A n \in 1..Len(a) : w[n] = a[n]
        /\ \A n \in 1..Len(d) : w[Len(a) + n] = d[n]
    <2>1. IsConcat(w, a, d) BY ConcatIs, Zenon
    <2> QED BY <2>1 DEF IsConcat
  <1>3. Len(c) = j + Len(a) /\ \A n \in 1..Len(a) : a[n] = c[j + n] BY DEF IsRest
  <1>4. Len(u) = j + Len(w) BY <1>1, <1>2, <1>3
  <1>5. ASSUME NEW n \in 1..Len(w) PROVE w[n] = u[j + n]
    <2>1. CASE n <= Len(a)
      <3>1. n \in 1..Len(a) /\ j + n \in 1..Len(c) BY <1>1, <1>2, <1>3, <2>1
      <3> QED BY <1>1, <1>2, <1>3, <3>1
    <2>2. CASE n > Len(a)
      <3>1. n - Len(a) \in 1..Len(d) /\ n = Len(a) + (n - Len(a)) BY <1>1, <1>2, <2>2
      <3> PICK i \in 1..Len(d) : n = Len(a) + i BY <3>1
      <3>2. Len(c) + i = j + n BY <1>1, <1>2, <1>3
      <3>3. u[Len(c) + i] = d[i] /\ w[Len(a) + i] = d[i] BY <1>1, <1>2, Zenon
      <3> QED BY <3>2, <3>3
    <2>3. n <= Len(a) \/ n > Len(a) BY <1>2
    <2> QED BY <2>1, <2>2, <2>3
  <1> QED BY <1>4, <1>5 DEF IsRest

LEMMA TailFacts ==
  ASSUME NEW c, IsSeq(c), c # <<>>
  PROVE  Len(Tail(c)) = Len(c) - 1 /\ \A m \in 1..(Len(c) - 1) : Tail(c)[m] = c[m + 1]
  <1> PICK S : c \in Seq(S) BY DEF IsSeq
  <1> QED OBVIOUS

LEMMA StoredCases ==
  ASSUME NEW c, IsSeq(c)
  PROVE  /\ Whole(c) => Stored(c) = c[1].val
         /\ ~Whole(c) /\ Len(c) = 2 => Stored(c) = <<"cut", c[1].val>>
  <1>1. CASE Whole(c) BY <1>1, Zenon DEF Stored
  <1>2. CASE ~Whole(c) /\ Len(c) = 2
    <2>1. ~(Len(c) > 2) BY <1>2
    <2> QED BY <1>2, <2>1, Zenon DEF Stored
  <1>3. CASE ~Whole(c) /\ Len(c) # 2 BY <1>3
  <1> QED BY <1>1, <1>2, <1>3

LEMMA AtLeastOne ==
  ASSUME NEW l \in Nat, 1 \in 1..l
  PROVE  (l = 1 \/ l > 1) /\ (l > 1 => l = 2 \/ l > 2)
  OBVIOUS

(* The SET at the front is the only one that is executed with it.          *)
LEMMA OneSetExecuted ==
  ASSUME NEW c, IsSeq(c), c # <<>>, IsSet(c[1]), ~Throws(c),
         c[1].op = "KEY" /\ Len(c) > 1 => c[2].op = "VAL",
         HoldsSet(Tail(c)) => AfterSet(c) # <<>>,
         NEW j \in 1..Len(c),
         IF AfterSet(c) = <<>> THEN j = Len(c) ELSE Whole(c) /\ j = IF c[1].op = "SET" THEN 1 ELSE 3
  PROVE  /\ \A m \in 2..j : ~IsSet(c[m])
         /\ c[1].op = "KEY" => Len(c) > 1
  <1>1. Len(c) \in Nat /\ 1 \in 1..Len(c) BY FirstPiece
  <1>2. Len(Tail(c)) = Len(c) - 1 /\ \A m \in 1..(Len(c) - 1) : Tail(c)[m] = c[m + 1]
    BY TailFacts
  <1>3. ASSUME NEW m \in 2..Len(c), IsSet(c[m]) PROVE HoldsSet(Tail(c))
    <2>1. m - 1 \in 1..(Len(c) - 1) /\ (m - 1) + 1 = m BY <1>1
    <2>2. Tail(c)[m - 1] = c[m] BY <1>2, <2>1
    <2> QED BY <1>2, <1>3, <2>1, <2>2 DEF HoldsSet
  <1>4. c[1].op = "KEY" => Len(c) > 1
    <2>2. c[1].op = "KEY" => Len(c) # 1 BY DEF Throws
    <2>3. Len(c) = 1 \/ Len(c) > 1 BY <1>1, AtLeastOne
    <2> QED BY <2>2, <2>3, Zenon
  <1>6. ASSUME NEW m \in 2..j PROVE ~IsSet(c[m])
    <2>1. CASE AfterSet(c) = <<>>
      <3>1. m \in 2..Len(c) BY <1>1
      <3> QED BY <1>3, <2>1, <3>1
    <2>2. CASE AfterSet(c) # <<>>
      <3>1. Whole(c) /\ j = 3 /\ c[1].op = "KEY" BY <2>2 DEF IsSet
      <3>2. c[3].op = "REST" /\ Len(c) > 2 BY <3>1 DEF Whole
      <3>3. c[2].op = "VAL" BY <1>4, <3>1
      <3>4. m = 2 \/ m = 3 BY <3>1
      <3> QED BY <3>2, <3>3, <3>4 DEF IsSet
    <2> QED BY <2>1, <2>2
  <1> QED BY <1>4, <1>6

(* The replica's value is the one that is due, if nothing is thrown away.  *)
LEMMA ReplicaConsumes ==
  ASSUME NEW c, IsSeq(c), c # <<>>, IsSet(c[1]), ~Throws(c), NEW d, IsSeq(d),
         FramedStream(c \o d), HoldsSet(Tail(c)) => AfterSet(c) # <<>>,
         Whole(c) \/ d = <<>> \/ d[1].op # "REST", ~Padded(c),
         NEW k, NEW x, NEW v, Pending(c \o d, k, x, v),
         NEW y, y = IF k = c[1].key THEN Stored(c) ELSE x
  PROVE  Pending(AfterSet(c) \o d, k, y, v)
  <1> PICK s : s = c \o d OBVIOUS
  <1>1. Len(c) \in Nat /\ 1 \in 1..Len(c) BY FirstPiece
  <1>2. /\ IsSeq(s) /\ Len(d) \in Nat /\ Len(s) = Len(c) + Len(d)
        /\ \A n \in 1..Len(c) : s[n] = c[n]
        /\ \A n \in 1..Len(d) : s[Len(c) + n] = d[n]
    <2>1. IsConcat(s, c, d) BY ConcatIs, Zenon
    <2> QED BY <2>1 DEF IsConcat
  <1>3. IsSeq(AfterSet(c)) BY AfterSetRest
  <1> PICK j \in 1..Len(c) :
        /\ IsRest(AfterSet(c), c, j)
        /\ IF AfterSet(c) = <<>> THEN j = Len(c)
           ELSE Whole(c) /\ j = IF c[1].op = "SET" THEN 1 ELSE 3
    BY AfterSetRest
  <1>4. j \in Nat /\ j > 0 BY <1>1
  <1>5. IsRest(AfterSet(c) \o d, s, j) BY <1>3, <1>4, StreamRest
  <1>6. IsSeq(AfterSet(c) \o d) BY <1>3, ConcatPieces
  <1>7. s[1] = c[1] BY <1>1, <1>2
  <1>8. s[1].op = "KEY" => /\ 1 < Len(s) /\ s[2].op = "VAL"
                           /\ s[2].last \/ s[3].op = "REST"
    <2>1. 1 \in 1..Len(s) /\ 1 + 1 = 2 /\ 1 + 2 = 3 BY <1>1, <1>2
    <2> QED BY <2>1 DEF FramedStream
  <1>9. c[1].op = "KEY" /\ Len(c) > 1 => c[2].op = "VAL"
    <2>1. Len(c) > 1 => s[2] = c[2] BY <1>1, <1>2
    <2> QED BY <1>7, <1>8, <2>1
  <1>10. /\ \A m \in 2..j : ~IsSet(c[m])
         /\ c[1].op = "KEY" => Len(c) > 1
    BY <1>9, OneSetExecuted
  <1>11. \A m \in 2..j : ~IsSet(s[m])
    <2> TAKE m \in 2..j
    <2>1. m \in 1..Len(c) BY <1>1
    <2> QED BY <1>2, <1>10, <2>1
  <1>12. Stored(c) = ValueAt(s, 1)
    <2>0. Len(c) > 2 => s[3] = c[3] /\ 3 <= Len(s) BY <1>1, <1>2
    <2>1. CASE Whole(c)
      <3>1. Stored(c) = s[1].val BY <1>7, <2>1, StoredCases
      <3>2. s[1].op = "SET" \/ (1 + 2 <= Len(s) /\ s[1 + 2].op = "REST")
        BY <1>7, <2>0, <2>1 DEF Whole
      <3> QED BY <3>1, <3>2, Zenon DEF ValueAt
    <2>2. CASE ~Whole(c)
      <3>1. s[1].op = "KEY" /\ Len(c) > 1 BY <1>7, <1>10, <2>2 DEF Whole, IsSet
      <3>2. Len(c) = 2
        <4>1. Len(c) > 2 => s[2] = c[2] BY <1>1, <1>2
        <4>2. ~(Len(c) > 2) BY <1>8, <2>0, <2>2, <3>1, <4>1, Zenon DEF Whole, Padded
        <4>3. Len(c) = 2 \/ Len(c) > 2 BY <1>1, <3>1, AtLeastOne
        <4> QED BY <4>2, <4>3, Zenon
      <3>3. Stored(c) = <<"cut", s[1].val>> BY <1>7, <2>2, <3>2, StoredCases
      <3>4. ~(1 + 2 <= Len(s) /\ s[1 + 2].op = "REST")
        <4> SUFFICES ASSUME 3 <= Len(s) PROVE s[3].op # "REST" OBVIOUS
        <4>1. 1 \in 1..Len(d) BY <1>2, <3>2
        <4>2. s[3] = d[1] BY <1>2, <3>2, <4>1
        <4>3. d # <<>> BY <4>1, SeqFacts
        <4> QED BY <2>2, <4>2, <4>3
      <3>5. s[1].op # "SET" BY <3>1
      <3> QED BY <3>3, <3>4, <3>5, Zenon DEF ValueAt
    <2> QED BY <2>1, <2>2
  <1>13. y = IF j > 0 /\ Writes(s, 1, k) THEN ValueAt(s, 1) ELSE x
    <2>1. Writes(s, 1, k) <=> k = c[1].key BY <1>7 DEF Writes
    <2> QED BY <1>4, <1>12, <2>1
  <1> QED BY <1>2, <1>4, <1>5, <1>6, <1>11, <1>13, Consumes

(* The master's value is the one its copies of the chunk will leave.       *)
LEMMA MasterStores ==
  ASSUME NEW i, IsSeq(i), Framed(i), NEW c, IsSeq(c), c # <<>>, NEW p \in Nat, IsRest(c, i, p),
         IsSet(c[1]), ~Throws(c), HoldsSet(Tail(c)) => AfterSet(c) # <<>>
  PROVE  /\ p + 1 \in 1..Len(i) /\ i[p + 1] = c[1] /\ Stored(c) = ValueAt(i, p + 1)
         /\ i[p + 1].op = "KEY" => p + 1 < Len(i)
         /\ \E q \in (p + 1)..Len(i) :
              /\ IsRest(AfterSet(c), i, q) /\ (AfterSet(c) = <<>> => q = Len(i))
              /\ \A m \in (p + 2)..q : ~IsSet(i[m])
  <1>1. Len(c) \in Nat /\ 1 \in 1..Len(c) BY FirstPiece
  <1>2. /\ Len(i) \in Nat /\ Len(i) = p + Len(c) /\ \A n \in 1..Len(c) : c[n] = i[p + n]
    BY SeqFacts DEF IsRest
  <1>3. IsSeq(AfterSet(c)) BY AfterSetRest
  <1> PICK j \in 1..Len(c) :
        /\ IsRest(AfterSet(c), c, j)
        /\ IF AfterSet(c) = <<>> THEN j = Len(c)
           ELSE Whole(c) /\ j = IF c[1].op = "SET" THEN 1 ELSE 3
    BY AfterSetRest
  <1>4. p + 1 \in 1..Len(i) /\ c[1] = i[p + 1] BY <1>1, <1>2
  <1>5. c[1].op = "KEY" /\ Len(c) > 1 => c[2].op = "VAL"
    <2> SUFFICES ASSUME c[1].op = "KEY", Len(c) > 1 PROVE c[2].op = "VAL" OBVIOUS
    <2>1. p + 1 \in 1..(Len(i) - 1) /\ (p + 1) + 1 = p + 2 /\ 2 \in 1..Len(c) BY <1>1, <1>2
    <2>2. c[2] = i[p + 2] BY <1>2, <2>1
    <2> QED BY <1>4, <2>1, <2>2 DEF Framed
  <1>6. /\ \A m \in 2..j : ~IsSet(c[m])
        /\ c[1].op = "KEY" => Len(c) > 1
    BY <1>5, OneSetExecuted
  <1>7. i[p + 1].op = "KEY" => p + 1 < Len(i) BY <1>2, <1>4, <1>6
  <1>8. Len(c) > 2 => i[p + 3] = c[3] /\ p + 3 <= Len(i) BY <1>1, <1>2
  <1>9. Stored(c) = ValueAt(i, p + 1)
    <2>1. (p + 1) + 2 = p + 3 OBVIOUS
    <2>2. CASE Whole(c)
      <3>1. Stored(c) = i[p + 1].val BY <1>4, <2>2, StoredCases
      <3>2. i[p + 1].op = "SET" \/ (p + 3 <= Len(i) /\ i[p + 3].op = "REST")
        BY <1>4, <1>8, <2>2 DEF Whole
      <3> QED BY <2>1, <3>1, <3>2, Zenon DEF ValueAt
    <2>3. CASE ~Whole(c)
      <3>1. c[1].op = "KEY" /\ Len(c) > 1 BY <1>6, <2>3 DEF Whole, IsSet
      <3>2. Len(c) > 2 => c[3].op = "REST"
        <4> SUFFICES ASSUME Len(c) > 2 PROVE c[3].op = "REST" OBVIOUS
        <4>1. p + 2 \in 1..(Len(i) - 1) /\ (p + 2) + 1 = p + 3 /\ 2 \in 1..Len(c) BY <1>1, <1>2
        <4>2. i[p + 2].op = "VAL" BY <1>2, <1>5, <3>1, <4>1
        <4>3. i[p + 3].op = "REST" BY <4>1, <4>2 DEF Framed
        <4> QED BY <1>8, <4>3
      <3>3. ~(Len(c) > 2) BY <2>3, <3>2, Zenon DEF Whole
      <3>4. Len(c) = 2 BY <1>1, <3>1, <3>3, AtLeastOne
      <3>5. Stored(c) = <<"cut", i[p + 1].val>> BY <1>4, <2>3, <3>4, StoredCases
      <3>6. ~(p + 3 <= Len(i)) BY <1>2, <3>4
      <3>7. i[p + 1].op # "SET" BY <1>4, <3>1
      <3> QED BY <2>1, <3>5, <3>6, <3>7, Zenon DEF ValueAt
    <2> QED BY <2>2, <2>3
  <1> PICK q : q = p + j OBVIOUS
  <1>10. q \in (p + 1)..Len(i) BY <1>1, <1>2
  <1>11. IsRest(AfterSet(c), i, q)
    <2> PICK a : a = AfterSet(c) OBVIOUS
    <2>1. Len(a) \in Nat BY <1>3, SeqFacts
    <2>2. Len(c) = j + Len(a) /\ \A n \in 1..Len(a) : a[n] = c[j + n] BY DEF IsRest
    <2>3. \A n \in 1..Len(a) : a[n] = i[q + n]
      <3> TAKE n \in 1..Len(a)
      <3>1. j + n \in 1..Len(c) /\ p + (j + n) = q + n BY <1>1, <2>1, <2>2, SMTT(40)
      <3> QED BY <1>2, <2>2, <3>1
    <2>4. Len(i) = q + Len(a) BY <1>2, <2>1, <2>2
    <2> QED BY <2>3, <2>4 DEF IsRest
  <1>12. AfterSet(c) = <<>> => q = Len(i) BY <1>2
  <1>13. \A m \in (p + 2)..q : ~IsSet(i[m])
    <2> TAKE m \in (p + 2)..q
    <2>1. m - p \in 2..j /\ m - p \in 1..Len(c) /\ p + (m - p) = m BY <1>1, <1>2
    <2> PICK n \in 2..j : n = m - p BY <2>1
    <2>2. ~IsSet(c[n]) /\ c[n] = i[m] BY <1>2, <1>6, <2>1
    <2> QED BY <2>2
  <1> QED BY <1>4, <1>7, <1>9, <1>10, <1>11, <1>12, <1>13

NoSetsIn(s, m, n) == \A j \in m..n : ~IsSet(s[j])
Overwritten(s, m, k, x) == IF Writes(s, m, k) THEN ValueAt(s, m) ELSE x

(* From p to q pieces executed, the first of which may be a SET.           *)
LEMMA Executes ==
  ASSUME NEW i, NEW p \in Nat, NEW q \in Nat, p < q, NoSetsIn(i, p + 2, q), NEW k,
         NEW x, NEW y, Writes(i, p + 1, k) \/ NoneIn(i, p, k) \/ LastIn(i, p, k, x),
         y = Overwritten(i, p + 1, k, x)
  PROVE  LastIn(i, q, k, y) \/ (NoneIn(i, p, k) /\ NoneIn(i, q, k) /\ y = x)
  <1>1. \A m \in (p + 2)..q : ~Writes(i, m, k) BY DEF NoSetsIn, Writes
  <1>2. p + 1 \in 1..q OBVIOUS
  <1>0. y = IF Writes(i, p + 1, k) THEN ValueAt(i, p + 1) ELSE x BY DEF Overwritten
  <1>3. CASE Writes(i, p + 1, k)
    <2>1. \A m \in ((p + 1) + 1)..q : ~Writes(i, m, k) BY <1>1
    <2> QED BY <1>0, <1>2, <1>3, <2>1 DEF LastIn
  <1>4. CASE ~Writes(i, p + 1, k)
    <2>1. \A m \in (p + 1)..q : ~Writes(i, m, k)
      <3> TAKE m \in (p + 1)..q
      <3>1. m = p + 1 \/ m \in (p + 2)..q OBVIOUS
      <3> QED BY <1>1, <1>4, <3>1
    <2>2. CASE NoneIn(i, p, k)
      <3>1. \A m \in 1..q : m \in 1..p \/ m \in (p + 1)..q OBVIOUS
      <3> QED BY <1>0, <1>4, <2>1, <2>2, <3>1 DEF NoneIn
    <2>3. ASSUME NEW m \in 1..p, Writes(i, m, k), x = ValueAt(i, m),
                 \A n \in (m + 1)..p : ~Writes(i, n, k)
          PROVE  LastIn(i, q, k, y)
      <3>1. m \in 1..q OBVIOUS
      <3>2. \A n \in (m + 1)..q : ~Writes(i, n, k)
        <4> TAKE n \in (m + 1)..q
        <4>1. n \in (m + 1)..p \/ n \in (p + 1)..q OBVIOUS
        <4> QED BY <2>1, <2>3, <4>1
      <3> QED BY <1>0, <1>4, <2>3, <3>1, <3>2 DEF LastIn
    <2> QED BY <1>4, <2>2, <2>3 DEF LastIn
  <1> QED BY <1>3, <1>4

LEMMA ConcatAgain ==
  ASSUME NEW r, IsSeq(r), NEW d, IsSeq(d), NEW t, IsSeq(t)
  PROVE  r \o (d \o t) = (r \o d) \o t
  <1> PICK R : r \in Seq(R) BY DEF IsSeq
  <1> PICK D : d \in Seq(D) BY DEF IsSeq
  <1> PICK T : t \in Seq(T) BY DEF IsSeq
  <1> PICK S : S = R \cup D \cup T OBVIOUS
  <1>1. r \in Seq(S) /\ d \in Seq(S) /\ t \in Seq(S) OBVIOUS
  <1>2. r \o (d \o t) \in Seq(S) /\ (r \o d) \o t \in Seq(S) BY <1>1
  <1>3. Len(r \o (d \o t)) = Len((r \o d) \o t) BY <1>1
  <1>4. \A n \in 1..Len(r \o (d \o t)) : (r \o (d \o t))[n] = ((r \o d) \o t)[n] BY <1>1
  <1> QED BY <1>2, <1>3, <1>4

LEMMA SamePieces ==
  ASSUME NEW s, IsSeq(s), NEW t, IsSeq(t), Len(s) = Len(t), \A n \in 1..Len(s) : s[n] = t[n]
  PROVE  s = t
  <1> PICK S : s \in Seq(S) BY DEF IsSeq
  <1> PICK T : t \in Seq(T) BY DEF IsSeq
  <1>1. s \in Seq(S \cup T) /\ t \in Seq(S \cup T) OBVIOUS
  <1> QED BY <1>1

Joined(s, a, b) == (\A m \in 1..Len(a) : a[m] = s[m]) /\ IsRest(b, s, Len(a))

LEMMA RestJoined ==
  ASSUME NEW s, IsSeq(s), NEW a, IsSeq(a), NEW b, IsSeq(b), Joined(s, a, b)
  PROVE  a \o b = s
  <1>0. /\ Len(s) = Len(a) + Len(b) /\ \A m \in 1..Len(a) : a[m] = s[m]
        /\ \A m \in 1..Len(b) : b[m] = s[Len(a) + m]
    BY DEF Joined, IsRest
  <1> PICK u : u = a \o b OBVIOUS
  <1>1. /\ IsSeq(u) /\ Len(u) = Len(a) + Len(b) /\ Len(a) \in Nat /\ Len(b) \in Nat
        /\ \A m \in 1..Len(a) : u[m] = a[m]
        /\ \A m \in 1..Len(b) : u[Len(a) + m] = b[m]
    <2>1. IsConcat(u, a, b) BY ConcatIs, Zenon
    <2> QED BY <2>1 DEF IsConcat
  <1>2. ASSUME NEW m \in 1..Len(u) PROVE u[m] = s[m]
    <2>1. CASE m <= Len(a)
      <3>1. m \in 1..Len(a) BY <1>1, <2>1
      <3> QED BY <1>0, <1>1, <3>1
    <2>2. CASE m > Len(a)
      <3>1. m - Len(a) \in 1..Len(b) /\ Len(a) + (m - Len(a)) = m BY <1>1, <2>2
      <3> PICK i \in 1..Len(b) : m = Len(a) + i BY <3>1
      <3> QED BY <1>0, <1>1
    <2>3. m <= Len(a) \/ m > Len(a) BY <1>1
    <2> QED BY <2>1, <2>2, <2>3
  <1>3. u = s BY <1>0, <1>1, <1>2, SamePieces
  <1> QED BY <1>3

LEMMA ConcatCut ==
  ASSUME NEW s, IsSeq(s), NEW n \in 1..Len(s)
  PROVE  SubSeq(s, 1, n) \o Drop(s, n) = s
  <1> PICK a : a = SubSeq(s, 1, n) OBVIOUS
  <1> PICK b : b = Drop(s, n) OBVIOUS
  <1>1. /\ IsSeq(a) /\ Len(a) = n /\ Len(s) \in Nat /\ \A k \in 1..n : a[k] = s[k]
        /\ IsSeq(b) /\ Len(b) = Len(s) - n /\ \A k \in 1..(Len(s) - n) : b[k] = s[n + k]
    BY CutPieces
  <1>2. Joined(s, a, b) BY <1>1 DEF Joined, IsRest
  <1>3. IsSeq(a) /\ IsSeq(b) BY <1>1
  <1>4. a \o b = s BY <1>2, <1>3, RestJoined, Zenon
  <1> QED BY <1>4, Zenon

LEMMA ConcatEmpty ==
  ASSUME NEW s, IsSeq(s)
  PROVE  <<>> \o s = s /\ s \o <<>> = s
  <1> PICK S : s \in Seq(S) BY DEF IsSeq
  <1> QED OBVIOUS

LEMMA EndIsRest ==
  ASSUME NEW s, IsSeq(s), NEW t, IsSeq(t)
  PROVE  Len(s) \in Nat /\ IsRest(t, s \o t, Len(s))
  <1> PICK u : u = s \o t OBVIOUS
  <1>1. /\ Len(s) \in Nat /\ Len(u) = Len(s) + Len(t)
        /\ \A n \in 1..Len(t) : u[Len(s) + n] = t[n]
    <2>1. IsConcat(u, s, t) BY ConcatIs, Zenon
    <2> QED BY <2>1 DEF IsConcat
  <1>2. IsRest(t, u, Len(s)) BY <1>1 DEF IsRest
  <1> QED BY <1>1, <1>2

(* Without what the replica throws away when it holds no SET.              *)
LEMMA Discarded ==
  ASSUME NEW c, IsSeq(c), ~HoldsSet(c), NEW d, IsSeq(d), NEW k, NEW x, NEW v,
         Pending(c \o d, k, x, v)
  PROVE  Pending(d, k, x, v)
  <1> PICK s : s = c \o d OBVIOUS
  <1>1. /\ IsSeq(s) /\ Len(c) \in Nat /\ Len(s) = Len(c) + Len(d)
        /\ \A n \in 1..Len(c) : s[n] = c[n]
        /\ \A n \in 1..Len(d) : s[Len(c) + n] = d[n]
    <2>1. IsConcat(s, c, d) BY ConcatIs, Zenon
    <2> QED BY <2>1 DEF IsConcat
  <1>2. IsRest(d, s, Len(c)) BY <1>1 DEF IsRest
  <1>3. \A m \in 1..Len(c) : ~IsSet(s[m]) BY <1>1 DEF HoldsSet
  <1>4. \A m \in 2..Len(c) : ~IsSet(s[m]) BY <1>1, <1>3
  <1>5. x = IF Len(c) > 0 /\ Writes(s, 1, k) THEN ValueAt(s, 1) ELSE x
    <2>1. Len(c) > 0 => 1 \in 1..Len(c) BY <1>1
    <2> QED BY <1>3, <2>1 DEF Writes
  <1> QED BY <1>1, <1>2, <1>4, <1>5, Consumes

-----------------------------------------------------------------------------
(* What the master has executed of its chunk                               *)

(* After n SETs: all but r of i.                                           *)
Executed(i, r, n) == IF n = 0 THEN 0 ELSE Len(i) - Len(r)
RestOf(i, r, n) ==
  n > 0 =>
    /\ IsRest(r, i, Executed(i, r, n)) /\ Executed(i, r, n) \in Nat
    /\ Orderly(r) /\ OneSendOnly(r)
    /\ \A m \in 1..Executed(i, r, n) : i[m].op = "KEY" => m < Len(i)

LEMMA SetExecuted ==
  ASSUME OrderlyClients, FramedClients, NEW i \in ClientChunks, NEW r, IsSeq(r), r # <<>>,
         IsSet(r[1]), ~Throws(r), NEW n \in Nat, RestOf(i, r, n), n = 0 => r = i,
         NEW p, p = Executed(i, r, n)
  PROVE  /\ RestOf(i, AfterSet(r), n + 1)
         /\ p \in Nat /\ i[p + 1] = r[1] /\ Stored(r) = ValueAt(i, p + 1)
         /\ Executed(i, AfterSet(r), n + 1) \in Nat /\ p < Executed(i, AfterSet(r), n + 1)
         /\ NoSetsIn(i, p + 2, Executed(i, AfterSet(r), n + 1))
  <1>1. IsSeq(i) /\ Framed(i) BY ClientChunkTyped DEF FramedClients
  <1>2. Len(i) \in Nat BY <1>1, SeqFacts
  <1>3. p \in Nat /\ IsRest(r, i, p) /\ Orderly(r) /\ OneSendOnly(r)
        /\ \A m \in 1..p : i[m].op = "KEY" => m < Len(i)
    <2>1. CASE n = 0
      <3>1. p = 0 BY <2>1 DEF Executed
      <3>2. IsRest(i, i, 0) BY <1>2 DEF IsRest
      <3>3. \A m \in 1..Len(i) : i[m].last <=> m = Len(i) BY DEF OrderlyClients
      <3>4. OneSendOnly(i) BY <1>2, <3>3 DEF OneSendOnly
      <3>5. Orderly(i) BY <2>1 DEF OrderlyClients
      <3> QED BY <2>1, <3>1, <3>2, <3>4, <3>5
    <2>2. CASE n # 0 BY <2>2 DEF RestOf
    <2> QED BY <2>1, <2>2
  <1> PICK a : a = AfterSet(r) OBVIOUS
  <1>4. Orderly(a) /\ OneSendOnly(a) /\ (HoldsSet(Tail(r)) => a # <<>>) BY <1>3, NextSetFound
  <1>5. IsSeq(a) BY AfterSetRest
  <1>6. /\ p + 1 \in 1..Len(i) /\ i[p + 1] = r[1] /\ Stored(r) = ValueAt(i, p + 1)
        /\ i[p + 1].op = "KEY" => p + 1 < Len(i)
        /\ \E q \in (p + 1)..Len(i) :
             /\ IsRest(a, i, q) /\ (a = <<>> => q = Len(i))
             /\ \A m \in (p + 2)..q : ~IsSet(i[m])
    BY <1>1, <1>3, <1>4, MasterStores
  <1> PICK q \in (p + 1)..Len(i) : IsRest(a, i, q) /\ \A m \in (p + 2)..q : ~IsSet(i[m])
    BY <1>6
  <1>7. q = Executed(i, a, n + 1) /\ q \in Nat /\ p < q
    <2>1. Len(a) \in Nat /\ Len(i) = q + Len(a) BY <1>5, SeqFacts DEF IsRest
    <2>2. n + 1 # 0 OBVIOUS
    <2>3. Executed(i, a, n + 1) = Len(i) - Len(a) BY <2>2, Zenon DEF Executed
    <2> QED BY <1>3, <2>1, <2>3
  <1>8. \A m \in 1..q : i[m].op = "KEY" => m < Len(i)
    <2> SUFFICES ASSUME NEW m \in 1..q, i[m].op = "KEY" PROVE m < Len(i) OBVIOUS
    <2>1. IsSet(i[m]) BY DEF IsSet
    <2>2. ~(m \in (p + 2)..q) BY <2>1
    <2>3. m \in 1..p \/ m = p + 1 BY <1>3, <2>2
    <2> QED BY <1>3, <1>6, <2>3
  <1>9. RestOf(i, a, n + 1) BY <1>4, <1>7, <1>8, Zenon DEF RestOf
  <1>10. NoSetsIn(i, p + 2, q) BY DEF NoSetsIn
  <1> QED BY <1>3, <1>6, <1>7, <1>9, <1>10, Zenon

(* No SET is left in a chunk at whose front there is none.                 *)
LEMMA RestIgnored ==
  ASSUME NEW i, IsSeq(i), NEW r, IsSeq(r), r # <<>>, ~IsSet(r[1]),
         NEW n \in Nat \ {0}, RestOf(i, r, n), NEW p, p = Executed(i, r, n), NEW e, e = <<>>
  PROVE  /\ RestOf(i, e, n)
         /\ p \in Nat /\ Executed(i, e, n) \in Nat /\ p < Executed(i, e, n)
         /\ NoSetsIn(i, p + 1, Executed(i, e, n))
  <1>1. p \in Nat /\ IsRest(r, i, p) /\ Orderly(r) /\ OneSendOnly(r)
        /\ \A m \in 1..p : i[m].op = "KEY" => m < Len(i)
    BY DEF RestOf
  <1>2. /\ Len(i) \in Nat /\ Len(r) \in Nat /\ Len(r) > 0 /\ Len(i) = p + Len(r)
        /\ \A m \in 1..Len(r) : r[m] = i[p + m]
    BY <1>1, SeqFacts DEF IsRest
  <1>3. ~HoldsSet(r) BY <1>1, SetComesFirst
  <1>4. ASSUME NEW m \in (p + 1)..Len(i) PROVE ~IsSet(i[m])
    <2>1. m - p \in 1..Len(r) /\ p + (m - p) = m BY <1>1, <1>2
    <2> PICK k \in 1..Len(r) : p + k = m BY <2>1
    <2>2. r[k] = i[m] BY <1>2
    <2> QED BY <1>3, <2>2 DEF HoldsSet
  <1>5. IsSeq(e) /\ Len(e) = 0 /\ Pieces(e) = {} BY EmptyPieces
  <1>6. Executed(i, e, n) = Len(i)
    <2>1. Executed(i, e, n) = Len(i) - Len(e) BY Zenon DEF Executed
    <2> QED BY <1>2, <1>5, <2>1
  <1>7. IsRest(e, i, Len(i)) BY <1>2, <1>5 DEF IsRest
  <1>8. Orderly(e) /\ OneSendOnly(e)
    BY <1>5, NoSetsOrderly DEF OneSendOnly
  <1>9. \A m \in 1..Len(i) : i[m].op = "KEY" => m < Len(i)
    <2> SUFFICES ASSUME NEW m \in 1..Len(i), i[m].op = "KEY" PROVE m < Len(i) OBVIOUS
    <2>1. IsSet(i[m]) BY DEF IsSet
    <2>2. ~(m \in (p + 1)..Len(i)) BY <1>4, <2>1
    <2>3. m \in 1..p BY <1>1, <1>2, <2>2
    <2> QED BY <1>1, <2>3
  <1>10. RestOf(i, e, n) BY <1>2, <1>6, <1>7, <1>8, <1>9, Zenon DEF RestOf
  <1>11. NoSetsIn(i, p + 1, Len(i)) BY <1>4 DEF NoSetsIn
  <1> QED BY <1>1, <1>2, <1>6, <1>10, <1>11

(* The value v of k is the one that what is executed of i, still to be     *)
(* forwarded, or else s leaves where k is x.                               *)
Due(i, p, s, k, x, v) == LastIn(i, p, k, v) \/ (NoneIn(i, p, k) /\ Pending(s, k, x, v))

LEMMA DueExecuted ==
  ASSUME NEW i, NEW p \in Nat, NEW q \in Nat, p < q, NoSetsIn(i, p + 2, q), NEW k,
         NEW s, NEW x, NEW v, Writes(i, p + 1, k) \/ Due(i, p, s, k, x, v),
         NEW w, w = Overwritten(i, p + 1, k, v)
  PROVE  Due(i, q, s, k, x, w)
  <1>1. Writes(i, p + 1, k) \/ NoneIn(i, p, k) \/ LastIn(i, p, k, v) BY DEF Due
  <1>2. LastIn(i, q, k, w) \/ (NoneIn(i, p, k) /\ NoneIn(i, q, k) /\ w = v) BY <1>1, Executes
  <1>3. CASE LastIn(i, q, k, w) BY <1>3 DEF Due
  <1>4. CASE NoneIn(i, p, k) /\ NoneIn(i, q, k) /\ w = v
    <2>1. ~LastIn(i, p, k, v) BY <1>4 DEF LastIn, NoneIn
    <2>2. ~Writes(i, p + 1, k)
      <3>1. p + 1 \in 1..q OBVIOUS
      <3> QED BY <1>4, <3>1 DEF NoneIn
    <2> QED BY <1>4, <2>1, <2>2 DEF Due
  <1> QED BY <1>2, <1>3, <1>4

(* Forwarding what has been executed leaves nothing to be forwarded.       *)
LEMMA DueForwarded ==
  ASSUME NEW i, IsSeq(i), NEW s, IsSeq(s), FramedStream(s), i # <<>> => IsSet(i[1]),
         NEW k, NEW x, NEW v, Due(i, Len(i), s, k, x, v), NEW q \in {0, Len(i)}
  PROVE  Due(i, q, s \o i, k, x, v)
  <1>0. i # <<>> => i[1].op # "REST" BY DEF IsSet
  <1>1. Pending(s \o i, k, x, v) BY <1>0, Appended DEF Due
  <1>2. CASE q = 0 BY <1>1, <1>2 DEF Due, NoneIn
  <1>3. CASE q = Len(i) BY <1>1, <1>3, Zenon DEF Due
  <1> QED BY <1>2, <1>3

-----------------------------------------------------------------------------
(* What is due to the replica                                              *)

(* Forwarded and not executed yet.                                         *)
Stream == rtask \o down

RestInv == RestOf(mtask.input, mtask.rest, mtask.sets)
FramedInv == FramedStream(Stream) /\ (slaves = 0 => fresh = {} /\ ~HoldsSet(Stream))
SyncInv ==
  ~skipped /\ Alive =>
    \A k \in fresh : Due(mtask.input, Executed(mtask.input, mtask.rest, mtask.sets), Stream,
                         k, replica[k], master[k])

LEMMA DueNothing ==
  ASSUME NEW i, NEW s, NEW k, NEW x, NEW v
  PROVE  Due(i, 0, s, k, x, v) <=> Pending(s, k, x, v)
  BY DEF Due, LastIn, NoneIn

LEMMA NoneExecuted ==
  ASSUME NEW i, NEW r
  PROVE  Executed(i, r, 0) = 0 /\ RestOf(i, r, 0)
  BY DEF Executed, RestOf

LEMMA SetsAreClients ==
  ASSUME TypeInv, mtask.rest # <<>>, IsSet(mtask.rest[1])
  PROVE  mtask.from = "client"
  <1>0. PieceInv /\ TaskInv BY DEF TypeInv
  <1> PICK p : p = mtask.rest[1] OBVIOUS
  <1>1. p \in Pieces(mtask.rest) BY <1>0, FirstPiece DEF PieceInv
  <1>2. p \in Pieces(mtask.input) BY <1>0, <1>1 DEF PieceInv
  <1>3. mtask.from # "replica"
    <2>1. mtask.from = "replica" => ReadFromReplica(p) BY <1>0, <1>2 DEF PieceInv
    <2> QED BY <2>1 DEF ReadFromReplica, FromReplica, IsSet
  <1>4. mtask.from # "none" BY <1>0 DEF PieceInv
  <1> QED BY <1>0, <1>3, <1>4 DEF TaskInv

LEMMA TakeKeepsSync ==
  ASSUME TypeInv, FramedInv, SyncInv, TakeStep
  PROVE  RestInv' /\ FramedInv' /\ SyncInv'
  <1>1. /\ UNCHANGED <<rtask, down, slaves, fresh, master, replica, skipped, mpc>>
        /\ mtask.sets = 0 /\ mtask'.sets = 0
    <2>1. ASSUME NEW c \in ClientChunks, TakeClientChunk(c)
          PROVE  /\ UNCHANGED <<rtask, down, slaves, fresh, master, replica, skipped, mpc>>
                 /\ mtask.sets = 0 /\ mtask'.sets = 0
      <3>1. /\ UNCHANGED <<rtask, down, slaves, fresh, master, replica, mpc>>
            /\ mtask = Idle /\ mtask' = [from |-> "client", input |-> c, rest |-> c, sets |-> 0]
        BY <2>1 DEF TakeClientChunk, startVars
      <3>2. skipped' = skipped BY <2>1, Zenon DEF TakeClientChunk
      <3> QED BY <3>1, <3>2 DEF Idle
    <2>2. CASE MasterTakes
      <3>1. mtask = Idle
        BY <2>2 DEF MasterTakes, TakeReplicaChunk, CutReplicaChunk, TakeFromReplica
      <3>2. IsSeq(up) BY DEF TypeInv, PieceInv
      <3>3. UNCHANGED <<rtask, down, slaves, fresh, master, replica, skipped, mpc>>
        BY <2>2, <3>2, ReplicaChunk
      <3> PICK t : mtask' = TaskOf(t) BY <2>2, <3>2, ReplicaChunk
      <3>4. mtask.sets = 0 /\ mtask'.sets = 0 BY <3>1 DEF TaskOf, Idle
      <3> QED BY <3>3, <3>4
    <2> QED BY <2>1, <2>2 DEF TakeStep
  <1>2. Stream' = Stream BY <1>1 DEF Stream
  <1>3. RestInv' BY <1>1, NoneExecuted DEF RestInv
  <1>4. FramedInv' BY <1>1, <1>2 DEF FramedInv
  <1>5. SyncInv'
    <2> SUFFICES ASSUME ~skipped', Alive', NEW k \in fresh'
                 PROVE  Pending(Stream', k, replica'[k], master'[k])
      BY <1>1, DueNothing, NoneExecuted DEF SyncInv
    <2>1. ~skipped /\ Alive /\ k \in fresh BY <1>1 DEF Alive
    <2>2. Pending(Stream, k, replica[k], master[k])
      BY <1>1, <2>1, DueNothing, NoneExecuted DEF SyncInv
    <2> QED BY <1>1, <1>2, <2>2
  <1> QED BY <1>3, <1>4, <1>5

LEMMA NoSetsTogether ==
  ASSUME NEW s, IsSeq(s), NEW t, IsSeq(t), ~HoldsSet(s), ~HoldsSet(t)
  PROVE  ~HoldsSet(s \o t)
  <1> PICK u : u = s \o t OBVIOUS
  <1>1. Pieces(u) \subseteq Pieces(s) \cup Pieces(t) BY ConcatPieces
  <1>2. \A p \in Pieces(s) \cup Pieces(t) : ~IsSet(p) BY DEF Pieces, HoldsSet
  <1>3. ~HoldsSet(u) BY <1>1, <1>2 DEF Pieces, HoldsSet
  <1> QED BY <1>3

LEMMA AnswersHoldNoSet ==
  ASSUME NEW t, WritesAnswer(t)
  PROVE  IsSeq(t) /\ FramedStream(t) /\ ~HoldsSet(t) /\ (t # <<>> => t[1].op # "REST")
  <1>1. IsSeq(t) /\ \A p \in Pieces(t) : p.op \in AnswerOps
    <2>1. CASE t = <<>> BY <2>1, EmptyPieces
    <2>2. ASSUME NEW d, t = Replies(mtask.rest[1], d), Answered(mtask.rest[1])
          PROVE  IsSeq(t) /\ \A p \in Pieces(t) : p.op \in AnswerOps
      BY <2>2, RepliesAnswer DEF Answered, AllAnswers
    <2> QED BY <2>1, <2>2 DEF WritesAnswer
  <1>2. \A n \in 1..Len(t) : ~IsSet(t[n]) BY <1>1 DEF Pieces, IsSet, AnswerOps
  <1>3. t # <<>> => t[1].op # "REST" BY <1>1, FirstPiece DEF AnswerOps
  <1> QED BY <1>1, <1>2, <1>3, NoSetsFramed DEF HoldsSet

LEMMA MasterKeepsSync ==
  ASSUME OrderlyClients, FramedClients, TypeInv, ChunkInv, RestInv, FramedInv, SyncInv,
         MasterStep
  PROVE  RestInv' /\ FramedInv' /\ SyncInv'
  <1>0. PieceInv /\ PsyncInv /\ StoreInv /\ TaskInv BY DEF TypeInv
  <1> PICK f, i, r, n : mtask = [from |-> f, input |-> i, rest |-> r, sets |-> n]
    BY <1>0 DEF TaskInv
  <1>1. mtask.from = f /\ mtask.input = i /\ mtask.rest = r /\ mtask.sets = n OBVIOUS
  <1>2. IsSeq(down) /\ IsSeq(rtask) /\ IsSeq(r) /\ IsSeq(i) /\ n \in Nat /\ slaves \in {0, 1}
    BY <1>0, <1>1 DEF PieceInv, PsyncInv
  <1>3. IsSeq(Stream) BY <1>2, ConcatPieces DEF Stream
  <1>4. RestOf(i, r, n) BY <1>1 DEF RestInv
  <1> PICK p : p = Executed(i, r, n) OBVIOUS
  <1>5. FramedStream(Stream) /\ (slaves = 0 => fresh = {} /\ ~HoldsSet(Stream)) BY DEF FramedInv
  <1>6. ~skipped /\ Alive =>
          \A k \in fresh : Due(i, p, Stream, k, replica[k], master[k])
    BY <1>1 DEF SyncInv
  <1>7. rtask' = rtask /\ replica' = replica /\ mpc' = mpc /\ (skipped' <=> skipped)
    <2>1. rtask' = rtask /\ replica' = replica /\ mpc' = mpc
      BY DEF MasterStep, MasterIgnores, MasterThrows, MasterSets, MasterReplies, MasterForwards,
             MasterEnds, replVars, startVars
    <2>2. skipped' = skipped
      BY Zenon DEF MasterStep, MasterIgnores, MasterThrows, MasterSets, MasterReplies,
                   MasterForwards, MasterEnds, replVars
    <2> QED BY <2>1, <2>2
  <1>8. Alive' <=> Alive BY <1>7 DEF Alive
  <1> PICK e : e = <<>> OBVIOUS
  (* What is left to show of a step that ends with r2 of the chunk.          *)
  <1>9. ASSUME NEW f2, NEW r2, NEW n2,
               mtask' = [from |-> f2, input |-> i, rest |-> r2, sets |-> n2],
               RestOf(i, r2, n2), FramedInv',
               \A k \in fresh' : Alive /\ ~skipped =>
                 Due(i, Executed(i, r2, n2), Stream', k, replica[k], master'[k])
        PROVE  RestInv' /\ FramedInv' /\ SyncInv'
    <2>1. mtask'.input = i /\ mtask'.rest = r2 /\ mtask'.sets = n2 BY <1>9
    <2>2. RestInv' BY <1>9, <2>1 DEF RestInv
    <2>3. SyncInv' BY <1>7, <1>8, <1>9, <2>1 DEF SyncInv
    <2> QED BY <1>9, <2>2, <2>3
  <1>10. ASSUME UNCHANGED <<down, slaves, fresh>> PROVE FramedInv' /\ Stream' = Stream
    BY <1>5, <1>7, <1>10 DEF FramedInv, Stream
  (* Nothing but the end of the chunk is passed over.                        *)
  <1>11. ASSUME r # <<>>, ~IsSet(r[1]), mtask' = [from |-> f, input |-> i, rest |-> e, sets |-> n],
                FramedInv', Stream' = Stream, UNCHANGED <<fresh, master>>
         PROVE  RestInv' /\ FramedInv' /\ SyncInv'
    <2>1. CASE n = 0
      <3>1. p = 0 /\ Executed(i, e, n) = 0 /\ RestOf(i, e, n) BY <2>1, NoneExecuted
      <3> QED BY <1>6, <1>9, <1>11, <3>1
    <2>2. CASE n # 0
      <3>1. n \in Nat \ {0} BY <1>2, <2>2
      <3> PICK q : q = Executed(i, e, n) OBVIOUS
      <3>2. /\ RestOf(i, e, n) /\ p \in Nat /\ q \in Nat /\ p < q
            /\ NoSetsIn(i, p + 1, q)
        BY <1>2, <1>4, <1>11, <3>1, RestIgnored
      <3>3. NoSetsIn(i, p + 2, q) /\ ~IsSet(i[p + 1])
        <4>1. p + 1 \in (p + 1)..q /\ \A m \in (p + 2)..q : m \in (p + 1)..q BY <3>2
        <4> QED BY <3>2, <4>1 DEF NoSetsIn
      <3>4. ASSUME NEW k \in fresh', Alive, ~skipped
            PROVE  Due(i, q, Stream', k, replica[k], master'[k])
        <4> PICK v : v = master[k] OBVIOUS
        <4> PICK x : x = replica[k] OBVIOUS
        <4> PICK s : s = Stream OBVIOUS
        <4>1. Due(i, p, s, k, x, v) BY <1>6, <1>11, <3>4
        <4>2. v = Overwritten(i, p + 1, k, v) BY <3>3 DEF Overwritten, Writes
        <4>3. Due(i, q, s, k, x, v) BY <3>2, <3>3, <4>1, <4>2, DueExecuted
        <4> QED BY <1>11, <4>3
      <3> QED BY <1>9, <1>11, <3>2, <3>4
    <2> QED BY <2>1, <2>2
  <1>12. CASE MasterIgnores
    <2>1. /\ r # <<>> /\ ~AtArray(r) /\ mtask' = [from |-> f, input |-> i, rest |-> e, sets |-> n]
          /\ UNCHANGED <<down, slaves, fresh, master>>
      BY <1>1, <1>12 DEF MasterIgnores, MasterRuns
    <2>2. ~IsSet(r[1]) BY <2>1 DEF AtArray, IsSet, Texts
    <2> QED BY <1>10, <1>11, <2>1, <2>2
  <1>13. CASE MasterThrows
    <2>1. UNCHANGED <<down, slaves, fresh, master, mtask>> BY <1>13 DEF MasterThrows, replVars
    <2> QED BY <1>4, <1>6, <1>9, <1>10, <2>1
  <1>14. CASE MasterSets
    <2>1. /\ r # <<>> /\ ~Throws(r) /\ IsSet(r[1]) /\ UNCHANGED <<down, slaves>>
          /\ mtask' = [from |-> f, input |-> i, rest |-> AfterSet(r), sets |-> n + 1]
          /\ master' = [master EXCEPT ![r[1].key] = Stored(r)]
          /\ fresh' = IF slaves > 0 THEN fresh \cup {r[1].key} ELSE fresh
      BY <1>1, <1>14 DEF MasterSets, MasterRuns
    <2>2. i \in ClientChunks BY <1>1, <2>1, SetsAreClients DEF ChunkInv
    <2>3. n = 0 => r = i BY <1>1, <2>1 DEF ChunkInv
    <2> PICK a : a = AfterSet(r) OBVIOUS
    <2> PICK q : q = Executed(i, a, n + 1) OBVIOUS
    <2>4. /\ RestOf(i, a, n + 1) /\ p \in Nat /\ q \in Nat /\ p < q /\ NoSetsIn(i, p + 2, q)
          /\ i[p + 1] = r[1] /\ Stored(r) = ValueAt(i, p + 1)
      BY <1>2, <1>4, <2>1, <2>2, <2>3, SetExecuted
    <2>5. FramedInv' /\ Stream' = Stream
      <3>1. Stream' = Stream BY <1>7, <2>1 DEF Stream
      <3>2. slaves = 0 => fresh' = fresh BY <2>1
      <3> QED BY <1>5, <2>1, <3>1, <3>2 DEF FramedInv
    <2>6. ASSUME NEW k \in fresh', Alive, ~skipped
          PROVE  Due(i, q, Stream', k, replica[k], master'[k])
      <3> PICK v : v = master[k] OBVIOUS
      <3> PICK w : w = master'[k] OBVIOUS
      <3> PICK x : x = replica[k] OBVIOUS
      <3> PICK s : s = Stream OBVIOUS
      <3>1. Writes(i, p + 1, k) <=> k = r[1].key BY <2>1, <2>4 DEF Writes
      <3>2. Writes(i, p + 1, k) \/ Due(i, p, s, k, x, v)
        <4>1. k \in fresh \/ k = r[1].key BY <2>1
        <4> QED BY <1>6, <2>6, <3>1, <4>1
      <3>3. k \in DOMAIN master
        <4>1. r[1] \in Pieces(r) /\ Pieces(r) \subseteq Pieces(i)
          BY <1>0, <1>1, <1>2, <2>1, FirstPiece DEF PieceInv
        <4> PICK c : c = r[1] OBVIOUS
        <4>2. FromClient(c) BY <2>2, <4>1, ClientChunkTyped
        <4>3. c.key \in Keys BY <2>1, <4>2 DEF FromClient
        <4>4. k \in fresh \/ k = c.key BY <2>1
        <4> QED BY <1>0, <4>3, <4>4 DEF StoreInv
      <3>4. w = IF k = r[1].key THEN Stored(r) ELSE v BY <2>1, <3>3
      <3>5. w = Overwritten(i, p + 1, k, v) BY <2>4, <3>1, <3>4, Zenon DEF Overwritten
      <3>6. Due(i, q, s, k, x, w) BY <2>4, <3>2, <3>5, DueExecuted
      <3> QED BY <2>5, <3>6
    <2> QED BY <1>9, <2>1, <2>4, <2>5, <2>6
  <1>15. CASE MasterReplies
    <2>1. /\ r # <<>> /\ Answers(r) /\ UNCHANGED <<fresh, master>>
          /\ mtask' = [from |-> f, input |-> i, rest |-> e, sets |-> n]
          /\ slaves' = 0 => slaves = 0
      BY <1>1, <1>2, <1>15 DEF MasterReplies, MasterRuns
    <2>2. ~IsSet(r[1]) BY <2>1 DEF Answers, IsSet
    <2>3. ASSUME down' = down PROVE Stream' = Stream /\ FramedInv'
      <3>1. Stream' = Stream BY <1>7, <2>3 DEF Stream
      <3> QED BY <1>5, <2>1, <3>1 DEF FramedInv
    <2>4. CASE f = "replica"
      <3>1. n = 0 BY <1>0, <1>1, <2>4 DEF PieceInv
      <3>2. CASE down' = down /\ ~Alive BY <1>9, <2>1, <2>3, <3>1, <3>2, NoneExecuted
      <3>3. CASE Alive
        <4>1. PICK t : WritesAnswer(t) /\ down' = down \o t
          BY <1>0, <1>15, <3>3, MasterWrites DEF WritesAnswer
        <4>2. IsSeq(t) /\ FramedStream(t) /\ ~HoldsSet(t) /\ (t # <<>> => t[1].op # "REST")
          BY <4>1, AnswersHoldNoSet
        <4>3. Stream' = Stream \o t BY <1>2, <1>7, <4>1, <4>2, ConcatAgain, SMTT(40) DEF Stream
        <4>4. FramedInv'
          <5>1. FramedStream(Stream \o t) BY <1>3, <1>5, <4>2, FramedAppend
          <5>2. slaves' = 0 => fresh' = {} /\ ~HoldsSet(Stream \o t)
            BY <1>3, <1>5, <2>1, <4>2, NoSetsTogether
          <5> QED BY <4>3, <5>1, <5>2 DEF FramedInv
        <4>5. ASSUME NEW k \in fresh', ~skipped
              PROVE  Due(i, 0, Stream', k, replica[k], master'[k])
          <5> PICK v : v = master[k] OBVIOUS
          <5> PICK x : x = replica[k] OBVIOUS
          <5> PICK s : s = Stream OBVIOUS
          <5>1. Due(i, p, s, k, x, v) BY <1>6, <2>1, <3>3, <4>5
          <5>2. Pending(s, k, x, v) BY <3>1, <5>1, NoneExecuted, DueNothing
          <5>3. NoneIn(t, Len(t), k) BY <4>2 DEF NoneIn, Writes, HoldsSet
          <5>4. Pending(s \o t, k, x, v) BY <1>3, <1>5, <4>2, <5>2, <5>3, Appended
          <5> QED BY <2>1, <4>3, <5>4, DueNothing
        <4> QED BY <1>9, <2>1, <3>1, <4>4, <4>5, NoneExecuted
      <3> QED BY <1>15, <3>2, <3>3 DEF MasterReplies, SendToReplica
    <2>5. CASE f # "replica"
      <3>1. down' = down
        <4>1. down' \in {down, down \o <<>>} BY <1>1, <1>15, <2>5 DEF MasterReplies, SendToReplica
        <4> QED BY <1>2, <4>1, ConcatEmpty
      <3> QED BY <1>11, <2>1, <2>2, <2>3, <3>1
    <2> QED BY <2>4, <2>5
  <1>16. CASE MasterForwards
    <2>1. /\ r = e /\ n > 0 /\ UNCHANGED <<slaves, fresh, master>>
          /\ mtask' = [from |-> f, input |-> i, rest |-> r, sets |-> n - 1]
          /\ down' = down \/ (down' = down \o Copies(i, slaves))
          /\ Alive => down' = down \o Copies(i, slaves)
      BY <1>1, <1>16 DEF MasterForwards, SendToReplica
    <2>2. Len(e) = 0 /\ Len(i) \in Nat BY <1>2, SeqFacts
    <2>3. p = Len(i)
      <3>1. n # 0 BY <1>2, <2>1
      <3>2. p = Len(i) - Len(r) BY <3>1, Zenon DEF Executed
      <3> QED BY <2>1, <2>2, <3>2
    <2> PICK q : q = Executed(i, r, n - 1) OBVIOUS
    <2>4. q \in {0, Len(i)} /\ RestOf(i, r, n - 1)
      <3>1. CASE n - 1 = 0 BY <3>1, NoneExecuted
      <3>2. CASE n - 1 # 0
        <4>1. n - 1 > 0 BY <1>2, <2>1, <3>2
        <4>2. Executed(i, r, n - 1) = Executed(i, r, n) BY <2>1, <3>2 DEF Executed
        <4> QED BY <1>4, <2>1, <2>3, <4>1, <4>2 DEF RestOf
      <3> QED BY <3>1, <3>2
    <2>5. CASE slaves = 0
      <3>1. down' = down
        <4>1. Copies(i, 0) = e BY <1>2, CopiesOne
        <4> QED BY <1>2, <2>1, <2>5, <4>1, ConcatEmpty
      <3>2. FramedInv' /\ fresh' = {} BY <1>5, <1>10, <2>1, <2>5, <3>1
      <3> QED BY <1>9, <2>1, <2>4, <3>2
    <2>6. CASE slaves = 1
      <3>1. Copies(i, 1) = i BY <1>2, CopiesOne
      <3>2. i # <<>> /\ IsSet(i[1]) BY <1>1, <2>1 DEF ChunkInv
      <3>3. i \in ClientChunks
        <4>1. f = "client" BY <1>0, <1>1, <2>1 DEF PieceInv, TaskInv
        <4> QED BY <1>1, <4>1 DEF ChunkInv
      <3>4. FramedStream(i)
        <4>1. \A m \in 1..Len(i) : i[m].op = "KEY" => m < Len(i) BY <1>4, <2>1, <2>3 DEF RestOf
        <4>2. \A m \in 1..Len(i) : i[m].last <=> m = Len(i) BY <3>3 DEF OrderlyClients
        <4> QED BY <1>2, <3>3, <4>1, <4>2, ChunkFramed DEF FramedClients
      <3>5. CASE down' = down /\ ~Alive
        <4>1. FramedInv' BY <1>10, <2>1, <3>5
        <4> QED BY <1>9, <2>1, <2>4, <3>5, <4>1
      <3>6. CASE down' = down \o i
        <4>1. Stream' = Stream \o i BY <1>2, <1>7, <3>6, ConcatAgain DEF Stream
        <4>2. FramedInv'
          BY <1>2, <1>3, <1>5, <2>1, <2>6, <3>4, <4>1, FramedAppend DEF FramedInv
        <4>3. ASSUME NEW k \in fresh', Alive, ~skipped
              PROVE  Due(i, q, Stream', k, replica[k], master'[k])
          <5> PICK v : v = master[k] OBVIOUS
          <5> PICK x : x = replica[k] OBVIOUS
          <5> PICK s : s = Stream OBVIOUS
          <5>1. Due(i, Len(i), s, k, x, v) BY <1>6, <2>1, <2>3, <4>3
          <5>2. IsSeq(s) /\ FramedStream(s) BY <1>3, <1>5
          <5>3. Due(i, q, s \o i, k, x, v) BY <1>2, <2>4, <3>2, <5>1, <5>2, DueForwarded
          <5> QED BY <2>1, <4>1, <5>3
        <4> QED BY <1>9, <2>1, <2>4, <4>2, <4>3
      <3> QED BY <2>1, <2>6, <3>1, <3>5, <3>6
    <2> QED BY <1>2, <2>5, <2>6
  <1>17. CASE MasterEnds
    <2>1. /\ mtask'.sets = 0 /\ n = 0 /\ UNCHANGED <<down, slaves, fresh, master>>
      BY <1>1, <1>17 DEF MasterEnds, Idle
    <2>2. RestInv' BY <2>1, NoneExecuted DEF RestInv
    <2>3. FramedInv' /\ Stream' = Stream BY <1>10, <2>1
    <2>4. SyncInv'
      <3> SUFFICES ASSUME ~skipped', Alive', NEW k \in fresh'
                   PROVE  Pending(Stream', k, replica'[k], master'[k])
        BY <2>1, DueNothing, NoneExecuted DEF SyncInv
      <3>1. Due(i, p, Stream, k, replica[k], master[k]) BY <1>6, <1>7, <1>8, <2>1
      <3>2. p = 0 BY <2>1, NoneExecuted
      <3> QED BY <1>7, <2>1, <2>3, <3>1, <3>2, DueNothing
    <2> QED BY <2>2, <2>3, <2>4
  <1> QED BY <1>12, <1>13, <1>14, <1>15, <1>16, <1>17 DEF MasterStep

LEMMA ReplicaKeepsSync ==
  ASSUME TypeInv, RestInv, FramedInv, SyncInv, ReplicaStep
  PROVE  RestInv' /\ FramedInv' /\ SyncInv'
  <1>0. PieceInv /\ PsyncInv /\ StoreInv BY DEF TypeInv
  <1>1. IsSeq(down) /\ IsSeq(rtask) BY <1>0 DEF PieceInv
  <1>2. IsSeq(Stream) BY <1>1, ConcatPieces DEF Stream
  <1>3. UNCHANGED <<slaves, mtask, fresh, master>> /\ (Alive' => Alive)
    <2>1. UNCHANGED <<slaves, mtask, fresh, master>>
      BY DEF ReplicaStep, ReplicaIgnores, ReplicaThrows, ReplicaSets, ReplicaReplies,
             TakeMasterChunk, replVars
    <2>2. mpc' \in {mpc, "ended"} BY RunKeepsConnection DEF RunStep
    <2> QED BY <2>1, <2>2 DEF Alive
  <1>4. RestInv' BY <1>3 DEF RestInv
  <1>5. FramedStream(Stream) /\ (slaves = 0 => fresh = {} /\ ~HoldsSet(Stream)) BY DEF FramedInv
  <1> PICK i : i = mtask.input OBVIOUS
  <1> PICK p : p = Executed(mtask.input, mtask.rest, mtask.sets) OBVIOUS
  <1>6. ~skipped /\ Alive => \A k \in fresh : Due(i, p, Stream, k, replica[k], master[k])
    BY DEF SyncInv
  <1> PICK e : e = <<>> OBVIOUS
  <1> PICK c : c = rtask OBVIOUS
  <1> PICK d : d = down OBVIOUS
  <1>7. Stream = c \o d /\ IsSeq(c) /\ IsSeq(d) BY <1>1 DEF Stream
  <1>8. e \o d = d BY <1>7, ConcatEmpty
  (* A step that leaves t of the stream.                                     *)
  <1>9. ASSUME NEW t, IsSeq(t), Stream' = t, NEW j \in Nat, IsRest(t, Stream, j),
               ~skipped' => ~skipped,
               \A k \in fresh : ~skipped' /\ Alive /\ Pending(Stream, k, replica[k], master[k]) =>
                 Pending(t, k, replica'[k], master[k])
        PROVE  RestInv' /\ FramedInv' /\ SyncInv'
    <2>1. FramedStream(t) BY <1>2, <1>5, <1>9, FramedRest
    <2>2. ~HoldsSet(Stream) => ~HoldsSet(t)
      <3> PICK s : s = Stream OBVIOUS
      <3>1. IsRest(t, s, j) /\ IsSeq(s) BY <1>2, <1>9
      <3>2. Len(s) \in Nat /\ Len(t) \in Nat BY <1>9, <3>1, SeqFacts
      <3>3. ~HoldsSet(s) => ~HoldsSet(t) BY <3>1, <3>2 DEF IsRest, HoldsSet
      <3> QED BY <3>3
    <2>3. FramedInv' BY <1>3, <1>5, <1>9, <2>1, <2>2 DEF FramedInv
    <2>4. ASSUME ~skipped', Alive', NEW k \in fresh'
          PROVE  Due(i, p, t, k, replica'[k], master[k])
      <3>1. ~skipped /\ Alive /\ k \in fresh BY <1>3, <1>9, <2>4
      <3>2. Due(i, p, Stream, k, replica[k], master[k]) BY <1>6, <3>1
      <3> QED BY <1>9, <2>4, <3>1, <3>2 DEF Due
    <2>5. mtask'.input = i /\ Executed(mtask'.input, mtask'.rest, mtask'.sets) = p BY <1>3
    <2>6. SyncInv' BY <1>3, <1>9, <2>4, <2>5 DEF SyncInv
    <2> QED BY <1>4, <2>3, <2>6
  <1>10. ASSUME rtask' = e, UNCHANGED <<down, replica>>, skipped' = (skipped \/ HoldsSet(rtask))
         PROVE  RestInv' /\ FramedInv' /\ SyncInv'
    <2>1. Stream' = d BY <1>8, <1>10 DEF Stream
    <2>2. Len(c) \in Nat /\ IsRest(d, c \o d, Len(c)) BY <1>7, EndIsRest
    <2>3. ASSUME NEW k \in fresh, ~skipped', Pending(Stream, k, replica[k], master[k])
          PROVE  Pending(d, k, replica'[k], master[k])
      <3>1. ~HoldsSet(c) BY <1>10, <2>3
      <3> PICK x : x = replica[k] OBVIOUS
      <3> PICK v : v = master[k] OBVIOUS
      <3>2. Pending(c \o d, k, x, v) BY <1>7, <2>3
      <3>3. Pending(d, k, x, v) BY <1>7, <3>1, <3>2, Discarded
      <3> QED BY <1>10, <3>3
    <2> QED BY <1>7, <1>9, <1>10, <2>1, <2>2, <2>3
  <1>11. ASSUME UNCHANGED <<skipped, replica>>, Stream' = Stream
         PROVE  RestInv' /\ FramedInv' /\ SyncInv'
    <2>1. IsRest(Stream, Stream, 0)
      <3> PICK s : s = Stream OBVIOUS
      <3>1. Len(s) \in Nat BY <1>2, SeqFacts
      <3>2. IsRest(s, s, 0) BY <3>1 DEF IsRest
      <3> QED BY <3>2
    <2> QED BY <1>2, <1>9, <1>11, <2>1
  <1>12. CASE ReplicaIgnores
    <2>1. rtask' = e /\ UNCHANGED <<down, replica>> BY <1>12 DEF ReplicaIgnores
    <2>2. skipped' = (skipped \/ HoldsSet(rtask)) BY <1>12, Zenon DEF ReplicaIgnores
    <2> QED BY <1>10, <2>1, <2>2
  <1>13. CASE ReplicaThrows
    <2>1. UNCHANGED <<down, replica, rtask>> BY <1>13 DEF ReplicaThrows, replVars
    <2>2. skipped' = skipped BY <1>13, Zenon DEF ReplicaThrows, replVars
    <2> QED BY <1>11, <2>1, <2>2 DEF Stream
  <1>14. CASE ReplicaReplies
    <2>1. rtask' = e /\ UNCHANGED <<down, replica>> BY <1>14 DEF ReplicaReplies
    <2>2. skipped' = (skipped \/ HoldsSet(rtask)) BY <1>14, Zenon DEF ReplicaReplies
    <2> QED BY <1>10, <2>1, <2>2
  <1>15. CASE ReplicaSets
    <2>1. /\ c # <<>> /\ ~Throws(c) /\ IsSet(c[1]) /\ down' = down /\ rtask' = AfterSet(c)
          /\ replica' = [replica EXCEPT ![c[1].key] = Stored(c)]
      BY <1>15 DEF ReplicaSets, ReplicaRuns
    <2>2. ~skipped' => /\ ~skipped /\ (HoldsSet(Tail(c)) => AfterSet(c) # <<>>)
                       /\ Whole(c) \/ d = <<>> \/ d[1].op # "REST"
                       /\ ~Padded(c)
      BY <1>15, Zenon DEF ReplicaSets
    <2> PICK a : a = AfterSet(c) OBVIOUS
    <2>3. IsSeq(a) /\ \E j \in 1..Len(c) : IsRest(a, c, j) BY <1>7, <2>1, AfterSetRest
    <2> PICK j \in 1..Len(c) : IsRest(a, c, j) BY <2>3
    <2>4. j \in Nat /\ IsRest(a \o d, c \o d, j) /\ IsSeq(a \o d)
      <3>1. j \in Nat OBVIOUS
      <3>2. IsSeq(a \o d) BY <1>7, <2>3, ConcatPieces
      <3> QED BY <1>7, <2>3, <3>1, <3>2, StreamRest
    <2>5. Stream' = a \o d BY <2>1 DEF Stream
    <2>6. ASSUME NEW k \in fresh, ~skipped', Pending(Stream, k, replica[k], master[k])
          PROVE  Pending(a \o d, k, replica'[k], master[k])
      <3> PICK x : x = replica[k] OBVIOUS
      <3> PICK y : y = replica'[k] OBVIOUS
      <3> PICK v : v = master[k] OBVIOUS
      <3>1. k \in DOMAIN replica BY <1>0 DEF StoreInv
      <3>2. y = IF k = c[1].key THEN Stored(c) ELSE x BY <2>1, <3>1
      <3>3. Pending(c \o d, k, x, v) /\ FramedStream(c \o d) BY <1>5, <1>7, <2>6
      <3>4. Pending(a \o d, k, y, v) BY <1>7, <2>1, <2>2, <2>6, <3>2, <3>3, ReplicaConsumes
      <3> QED BY <3>4
    <2> QED BY <1>7, <1>9, <2>2, <2>4, <2>5, <2>6
  <1>16. ASSUME NEW n \in 1..Len(down), TakeMasterChunk(n)
         PROVE  RestInv' /\ FramedInv' /\ SyncInv'
    <2>1. rtask = e /\ rtask' = SubSeq(d, 1, n) /\ down' = Drop(d, n) /\ UNCHANGED replica
      BY <1>16 DEF TakeMasterChunk
    <2>2. skipped' = skipped BY <1>16, Zenon DEF TakeMasterChunk
    <2>3. Stream = d BY <1>8, <2>1 DEF Stream
    <2>4. SubSeq(d, 1, n) \o Drop(d, n) = d BY <1>7, ConcatCut
    <2>5. Stream' = d BY <2>1, <2>4, Zenon DEF Stream
    <2> QED BY <1>11, <2>1, <2>2, <2>3, <2>5
  <1> QED BY <1>12, <1>13, <1>14, <1>15, <1>16 DEF ReplicaStep

LEMMA SyncInit == Init => RestInv /\ FramedInv /\ SyncInv
  <1> SUFFICES ASSUME Init PROVE RestInv /\ FramedInv /\ SyncInv OBVIOUS
  <1> PICK e : e = <<>> OBVIOUS
  <1>1. /\ down = e /\ rtask = e /\ fresh = {}
        /\ mtask = [from |-> "none", input |-> e, rest |-> e, sets |-> 0]
    BY DEF Init, StartInit, Idle
  <1>2. mtask.rest = e /\ mtask.sets = 0 BY <1>1
  <1>3. IsSeq(e) /\ Len(e) = 0 /\ Pieces(e) = {} BY EmptyPieces, EmptyIsSeq
  <1>5. RestInv BY <1>2, NoneExecuted DEF RestInv
  <1>6. Stream = e BY <1>1, <1>3, ConcatEmpty DEF Stream
  <1>7. FramedInv BY <1>1, <1>3, <1>6 DEF FramedInv, FramedStream, HoldsSet
  <1>8. SyncInv BY <1>1 DEF SyncInv
  <1> QED BY <1>5, <1>7, <1>8

LEMMA SyncStep ==
  /\ OrderlyClients /\ FramedClients /\ TypeInv /\ ChunkInv
  /\ RestInv /\ FramedInv /\ SyncInv /\ [Next]_vars
  => RestInv' /\ FramedInv' /\ SyncInv'
  <1> SUFFICES ASSUME OrderlyClients, FramedClients, TypeInv, ChunkInv, RestInv, FramedInv,
                      SyncInv, [Next]_vars
               PROVE  RestInv' /\ FramedInv' /\ SyncInv'
    OBVIOUS
  <1>1. CASE TakeStep BY <1>1, TakeKeepsSync
  <1>2. CASE MasterStep BY <1>2, MasterKeepsSync
  <1>3. CASE ReplicaStep BY <1>3, ReplicaKeepsSync
  <1>4. ASSUME UNCHANGED replVars, Alive' => Alive PROVE RestInv' /\ FramedInv' /\ SyncInv'
    <2>1. UNCHANGED <<rtask, down, slaves, fresh, master, replica, mtask>> BY <1>4 DEF replVars
    <2>2. skipped' = skipped BY <1>4, Zenon DEF replVars
    <2>3. Stream' = Stream BY <2>1 DEF Stream
    <2>4. RestInv' BY <2>1 DEF RestInv
    <2>5. FramedInv' BY <2>1, <2>3 DEF FramedInv
    <2>6. SyncInv' BY <1>4, <2>1, <2>2, <2>3 DEF SyncInv
    <2> QED BY <2>4, <2>5, <2>6
  <1>5. CASE (StartStep \/ AcceptFails) /\ UNCHANGED replVars
    <2>2. Alive
      BY <1>5 DEF StartStep, SetDir, SetDbfilename, SetPort, SetReplicaOf, SkipWord, AtOption,
                  LoadRdb, OpenPort, StartMasterThread, SendPing, SendListeningPort, SendCapa,
                  SendPsync, AcceptFails, Alive
    <2> QED BY <1>4, <1>5, <2>2
  <1>6. CASE UNCHANGED vars
    <2>1. UNCHANGED <<replVars, mpc>> BY <1>6 DEF vars, startVars
    <2>3. Alive' => Alive BY <2>1 DEF Alive
    <2> QED BY <1>4, <2>1, <2>3
  <1> QED BY <1>1, <1>2, <1>3, <1>5, <1>6 DEF Next, TakeStep

(* Clients that send whole commands, none but a SET before a SET: once     *)
(* everything has arrived, a replica that has thrown no part of a SET away *)
(* and added nothing to one holds the master's value of every key set      *)
(* since it was registered, through repeated chunks, values cut by the     *)
(* master's recv(), messages joined by its own, and the master's answers   *)
(* to what it answered itself to commands forwarded behind a SET.          *)
THEOREM InSyncUnlessSkipped ==
  ASSUME OrderlyClients, FramedClients
  PROVE  Spec => []PropagatedUnlessSkipped
  <1>1. SyncInv => PropagatedUnlessSkipped
    <2> SUFFICES ASSUME SyncInv, ~skipped, Settled, NEW k \in fresh
                 PROVE  replica[k] = master[k]
      BY DEF PropagatedUnlessSkipped, Propagated, InSync
    <2> PICK e : e = <<>> OBVIOUS
    <2>1. Alive /\ mtask.sets = 0 /\ Stream = e
      <3>1. IsSeq(e) BY EmptyPieces
      <3>2. rtask = e /\ down = e /\ Alive /\ mtask = Idle BY DEF Settled
      <3>3. Stream = e BY <3>1, <3>2, ConcatEmpty DEF Stream
      <3> QED BY <3>2, <3>3 DEF Idle
    <2>2. Due(mtask.input, 0, e, k, replica[k], master[k]) BY <2>1, NoneExecuted DEF SyncInv
    <2>3. Pending(e, k, replica[k], master[k]) BY <2>2, DueNothing
    <2>4. Len(e) = 0 BY EmptyIsSeq
    <2> QED BY <2>3, <2>4 DEF Pending, LastIn
  <1>2. /\ TypeInv /\ ChunkInv /\ RestInv /\ FramedInv /\ SyncInv /\ [Next]_vars
        => RestInv' /\ FramedInv' /\ SyncInv'
    BY SyncStep
  <1>3. TypeInv /\ ChunkInv /\ DeliveryInv /\ [Next]_vars => ChunkInv' /\ DeliveryInv'
    BY DeliveryStep
  <1> QED BY <1>1, <1>2, <1>3, DeliveryInit, SyncInit, TypeInvHolds, PTL DEF Spec
=============================================================================
