----------------------- MODULE NonBlockingQueueProofs -----------------------
(***************************************************************************)
(* Theorems about the lock-free queue, for any numbers of producers,       *)
(* consumers and enqueues, and whether or not compare_exchange_weak fails  *)
(* without cause.                                                          *)
(***************************************************************************)
EXTENDS NonBlockingQueue, SequenceTheorems, TLAPS

(* Node(i) is the i-th node that was linked; the stub is Node(0).          *)
L == Len(linked)
Node(i) == IF i = 0 THEN 0 ELSE linked[i]

(* An enqueue has a node it has not linked; it has read tail.              *)
Pending   == {"loadTail", "tailNext", "link", "help"}
HoldsTail == {"tailNext", "link", "help", "advance"}

(* Who is where: producers enqueue, consumers dequeue, and callers count   *)
(* as users.                                                               *)
CallInv ==
  /\ \A p \in Producers : pc[p] \in Pending \cup {"idle", "advance"}
  /\ \A c \in Consumers : pc[c] \in {"idle", "loadHead", "headNext", "swing", "take"}
  /\ \A t \in Threads : pc[t] # "idle" => t \in users

(* The next pointers lead from the stub through the linked nodes in order. *)
ChainInv ==
  /\ \A i \in 1..L : linked[i] \in 1..allocated
  /\ \A i, j \in 0..L : Node(i) = Node(j) => i = j
  /\ \A i \in 0..L : next[Node(i)] = IF i < L THEN Node(i + 1) ELSE Null
  /\ taken \in 0..L

(* A node that was allocated is linked, or one producer is about to.       *)
NewInv ==
  /\ \A p \in Producers : pc[p] \in Pending =>
       mine[p] \in 1..allocated /\ next[mine[p]] = Null /\ \A i \in 1..L : linked[i] # mine[p]
  /\ \A p, q \in Producers :
       pc[p] \in Pending /\ pc[q] \in Pending /\ mine[p] = mine[q] => p = q
  /\ \A n \in 1..allocated :
       \/ \E i \in 1..L : linked[i] = n
       \/ \E p \in Producers : pc[p] \in Pending /\ mine[p] = n
  /\ \A n \in Nodes : n > allocated => next[n] = Null

(* tail points at the last node or the one before, and then the producer   *)
(* that linked the last is about to move tail on, or it has tried in vain, *)
(* its exchange having failed without cause; no producer is ahead of tail. *)
Linker(p) == pc[p] = "advance" /\ mine[p] = Node(L)
Behind(p, t) == pc[p] \in HoldsTail =>
  \E k \in 0..t :
    /\ cur[p] = Node(k)
    /\ pc[p] = "help" => k < L /\ nxt[p] = Node(k + 1)
    /\ pc[p] = "advance" => k < L /\ mine[p] = Node(k + 1)
TailAt(t) ==
  /\ tail = Node(t)
  /\ t = L \/ (t = L - 1 /\ (lagged \/ \E p \in Producers : Linker(p)))
  /\ lagged => WeakFailures /\ t < L
  /\ \A p \in Producers : Behind(p, t)
TailInv == \E t \in 0..L : TailAt(t)

(* head has passed the first nodes, which are freed, or about to be by one *)
(* consumer; no consumer is ahead of head.                                 *)
Follows(c) ==
  /\ pc[c] \in {"headNext", "swing"} => \E j \in 0..taken :
       cur[c] = Node(j) /\ (pc[c] = "swing" => j < L /\ nxt[c] = Node(j + 1))
  /\ pc[c] = "take" => \E j \in 0..(taken - 1) : cur[c] = Node(j) /\ nxt[c] = Node(j + 1)
HeadInv == ~closing =>
  /\ head = Node(taken)
  /\ \A c \in Consumers : Follows(c)
  /\ \A c, d \in Consumers : pc[c] = "take" /\ pc[d] = "take" /\ cur[c] = cur[d] => c = d
  /\ \A n \in freed : \E j \in 0..(taken - 1) : n = Node(j)
  /\ \A j \in 0..(taken - 1) :
       Node(j) \in freed \/ \E c \in Consumers : pc[c] = "take" /\ cur[c] = Node(j)
  /\ \A c \in Consumers : pc[c] = "take" => cur[c] \notin freed

(* The destructor: every call has returned, and the nodes before head are  *)
(* the ones that are freed.                                                *)
ClosingInv == closing =>
  /\ \A t \in Threads : pc[t] = "idle"
  /\ \E h \in taken..(L + 1) :
       /\ head = IF h <= L THEN Node(h) ELSE Null
       /\ freed = {Node(j) : j \in 0..(h - 1)}

(* With one producer and one consumer what either has read is still so,   *)
(* and while tail is not left behind the producer does not have to help.   *)
PairReads ==
  /\ \A p \in Producers :
       /\ pc[p] \in HoldsTail => cur[p] = tail
       /\ pc[p] = "help" => lagged
       /\ pc[p] \in {"link", "advance"} => ~lagged
       /\ pc[p] = "advance" => mine[p] = Node(L)
  /\ ~closing => \A c \in Consumers :
       /\ pc[c] \in {"headNext", "swing"} => cur[c] = head
       /\ pc[c] = "take" => nxt[c] = head
PairInv == OnePair => (broken => lagged) /\ PairReads

IInv ==
  /\ QueueTypeOK /\ CallInv /\ ChainInv /\ NewInv /\ TailInv /\ HeadInv /\ ClosingInv /\ PairInv
  /\ FreedOnce

ProducerStep(p) ==
  \/ NewNode(p) \/ LoadTail(p) \/ LoadTailNext(p) \/ LinkNode(p) \/ HelpTail(p) \/ AdvanceTail(p)
ConsumerStep(c) == LoadHead(c) \/ LoadHeadNext(c) \/ SwingHead(c) \/ TakeValue(c)

-----------------------------------------------------------------------------
(* The two ends of what a thread has read.                                 *)

(* A producer's tail is a node of the list; what comes after it is no      *)
(* null pointer.                                                           *)
LEMMA TailNodes ==
  ASSUME QueueTypeOK, ChainInv, TailInv
  PROVE  /\ tail \in Nodes
         /\ \A p \in Producers : pc[p] = "help" => nxt[p] \in Nodes
  <1> PICK t \in 0..L : TailAt(t) BY DEF TailInv
  <1>1. linked \in Seq(Nodes) /\ L \in Nat BY DEF QueueTypeOK, L
  <1>2. ASSUME NEW p \in Producers, pc[p] = "help" PROVE nxt[p] \in Nodes
    <2>1. PICK k \in 0..t : k < L /\ nxt[p] = Node(k + 1) BY <1>2 DEF TailAt, Behind, HoldsTail
    <2> QED BY <1>1, <2>1 DEF Node, L
  <1> QED BY <1>2 DEF QueueTypeOK

LEMMA HeadNodes ==
  ASSUME QueueTypeOK, ChainInv, HeadInv, ClosingInv
  PROVE  /\ ~closing => head \in Nodes
         /\ \A c \in Consumers : pc[c] \in {"swing", "take"} => nxt[c] \in Nodes
  <1>1. linked \in Seq(Nodes) /\ L \in Nat /\ taken \in 0..L BY DEF QueueTypeOK, L, ChainInv
  <1>2. \A i \in 0..L : Node(i) \in Nodes BY <1>1, NodesAssumption DEF Node, L, Nodes
  <1>3. CASE closing BY <1>3 DEF ClosingInv, Threads
  <1>4. CASE ~closing
    <2>1. ASSUME NEW c \in Consumers, pc[c] = "swing" PROVE nxt[c] \in Nodes
      <3>1. PICK j \in 0..taken : j < L /\ nxt[c] = Node(j + 1) BY <1>4, <2>1 DEF HeadInv, Follows
      <3> QED BY <1>1, <1>2, <3>1
    <2>2. ASSUME NEW c \in Consumers, pc[c] = "take" PROVE nxt[c] \in Nodes
      <3>1. PICK j \in 0..(taken - 1) : nxt[c] = Node(j + 1) BY <1>4, <2>2 DEF HeadInv, Follows
      <3> QED BY <1>1, <1>2, <3>1
    <2> QED BY <1>1, <1>2, <1>4, <2>1, <2>2 DEF HeadInv, Follows
  <1> QED BY <1>3, <1>4

-----------------------------------------------------------------------------
(* Types                                                                   *)

LEMMA ProducerKeepsTypes ==
  ASSUME QueueTypeOK, ChainInv, TailInv, NEW p \in Producers, ProducerStep(p)
  PROVE  QueueTypeOK'
  <1> USE NodesAssumption, WeakAssumption DEF QueueTypeOK, Threads, PC, Goto
  <1>0. p \in Threads /\ (pc[p] = "help" => nxt[p] \in Nodes) BY TailNodes
  <1>1. CASE NewNode(p)
    <2>1. allocated + 1 \in Nodes BY <1>1 DEF NewNode, Nodes
    <2> QED BY <1>0, <1>1, <2>1 DEF NewNode
  <1>2. CASE LoadTail(p) BY <1>0, <1>2 DEF LoadTail, list, history
  <1>3. CASE LoadTailNext(p) BY <1>0, <1>3 DEF LoadTailNext, list, history
  <1>4. CASE LinkNode(p)
    <2>0. mine[p] \in Nodes /\ linked \in Seq(Nodes) OBVIOUS
    <2>1. linked' \in Seq(Nodes)
      <3>1. Append(linked, mine[p]) \in Seq(Nodes) BY <2>0
      <3> QED BY <1>4, <2>0, <3>1 DEF LinkNode
    <2>3. next' \in [Nodes -> Nodes \cup {Null}] BY <1>4, <2>0 DEF LinkNode
    <2>2. pc' \in [Threads -> PC] BY <1>0, <1>4 DEF LinkNode
    <2> QED BY <1>4, <2>1, <2>2, <2>3 DEF LinkNode
  <1>5. CASE HelpTail(p) BY <1>0, <1>5 DEF HelpTail, SwingTail
  <1>6. CASE AdvanceTail(p) BY <1>0, <1>6 DEF AdvanceTail, SwingTail
  <1> QED BY <1>1, <1>2, <1>3, <1>4, <1>5, <1>6 DEF ProducerStep

LEMMA ConsumerKeepsTypes ==
  ASSUME QueueTypeOK, ChainInv, HeadInv, ClosingInv, NEW c \in Consumers, ConsumerStep(c)
  PROVE  QueueTypeOK'
  <1> USE NodesAssumption, WeakAssumption DEF QueueTypeOK, Threads, PC, Goto
  <1>0. /\ c \in Threads /\ (pc[c] \in {"swing", "take"} => nxt[c] \in Nodes)
        /\ pc[c] # "idle" => ~closing
        /\ ~closing => head \in Nodes
    BY HeadNodes DEF ClosingInv
  <1>1. CASE LoadHead(c) BY <1>0, <1>1 DEF LoadHead, list
  <1>2. CASE LoadHeadNext(c) BY <1>0, <1>2 DEF LoadHeadNext, list, history
  <1>3. CASE SwingHead(c) BY <1>0, <1>3 DEF SwingHead
  <1>4. CASE TakeValue(c) BY <1>0, <1>4 DEF TakeValue, Delete
  <1> QED BY <1>1, <1>2, <1>3, <1>4 DEF ConsumerStep

-----------------------------------------------------------------------------
(* A link                                                                  *)

(* The producer whose compare_exchange succeeds has read the last node.    *)
LEMMA LinksToLast ==
  ASSUME QueueTypeOK, CallInv, ChainInv, TailInv, NEW p \in Producers,
         pc[p] = "link", next[cur[p]] = Null
  PROVE  cur[p] = Node(L) /\ tail = Node(L)
  <1> PICK t \in 0..L : TailAt(t) BY DEF TailInv
  <1>1. PICK k \in 0..t : cur[p] = Node(k) BY DEF TailAt, Behind, HoldsTail
  <1>2. linked \in Seq(Nodes) /\ L \in Nat BY DEF QueueTypeOK, L
  <1>3. k \in 0..L BY <1>1, <1>2
  <1>4. k < L => next[Node(k)] = Node(k + 1) BY <1>3 DEF ChainInv
  <1>5. k < L => Node(k + 1) \in Nat BY <1>2, <1>3, NodesAssumption DEF Node, L, Nodes
  <1>6. k = L BY <1>1, <1>2, <1>3, <1>4, <1>5, NullAssumption
  <1>7. t = L BY <1>2, <1>6
  <1> QED BY <1>1, <1>6, <1>7 DEF TailAt

LEMMA AppendNode ==
  ASSUME QueueTypeOK, NEW n \in Nodes, linked' = Append(linked, n)
  PROVE  /\ L \in Nat /\ L' = L + 1
         /\ \A i \in 0..L : Node(i)' = Node(i)
         /\ Node(L)' = n
         /\ \A i \in 1..L : linked'[i] = linked[i]
         /\ linked'[L + 1] = n
  <1>1. linked \in Seq(Nodes) BY DEF QueueTypeOK
  <1>2. L \in Nat /\ L' = L + 1 BY <1>1 DEF L
  <1>3. \A i \in 1..L : linked'[i] = linked[i] BY <1>1 DEF L
  <1>4. linked'[L + 1] = n BY <1>1 DEF L
  <1>5. \A i \in 0..L : Node(i)' = Node(i)
    <2> TAKE i \in 0..L
    <2>1. CASE i = 0 BY <2>1 DEF Node
    <2>2. CASE i \in 1..L BY <1>3, <2>2 DEF Node
    <2> QED BY <1>2, <2>1, <2>2
  <1>6. Node(L)' = n BY <1>2, <1>4 DEF Node
  <1> QED BY <1>2, <1>3, <1>4, <1>5, <1>6

LEMMA LinkKeepsChain ==
  ASSUME QueueTypeOK, CallInv, ChainInv, NewInv, TailInv, NEW p \in Producers, LinkNode(p)
  PROVE  ChainInv'
  <1>0. /\ \A i \in 1..L : linked[i] \in 1..allocated
        /\ mine[p] \in 1..allocated /\ next[mine[p]] = Null
        /\ \A i \in 1..L : linked[i] # mine[p]
        /\ pc[p] = "link" /\ allocated' = allocated /\ taken' = taken /\ L \in Nat /\ taken \in 0..L
        /\ allocated \in Nat /\ allocated \in Nodes /\ mine[p] \in Nodes
    BY NodesAssumption DEF LinkNode, ChainInv, NewInv, Pending, QueueTypeOK, L, Nodes
  <1>1. CASE UNCHANGED <<next, linked>> BY <1>0, <1>1 DEF ChainInv, Node, L
  <1>2. CASE /\ next[cur[p]] = Null
             /\ next' = [next EXCEPT ![cur[p]] = mine[p]] /\ linked' = Append(linked, mine[p])
    <2>1. cur[p] = Node(L) BY <1>0, <1>2, LinksToLast
    <2>2. /\ L' = L + 1 /\ \A i \in 0..L : Node(i)' = Node(i)
          /\ Node(L)' = mine[p]
          /\ linked'[L + 1] = mine[p]
      BY <1>0, <1>2, AppendNode
    <2>3. \A i \in 1..(L + 1) : linked'[i] \in 1..allocated
      <3>1. \A i \in 1..L : linked'[i] = linked[i] BY <1>0, <1>2, AppendNode
      <3>2. \A i \in 1..(L + 1) : i \in 1..L \/ i = L + 1 BY <1>0
      <3> QED BY <1>0, <2>2, <3>1, <3>2
    <2>4. \A i, j \in 0..L : Node(i) = Node(j) => i = j BY DEF ChainInv
    <2>5. \A i \in 0..L : Node(i) # mine[p] BY <1>0 DEF Node
    <2>6. \A i \in 0..(L + 1) : i \in 0..L \/ i = L + 1 BY <1>0
    <2>7. \A i \in 0..(L + 1) : i = L + 1 => Node(i)' = mine[p] BY <1>0, <2>2 DEF Node
    <2>8. ASSUME NEW i \in 0..(L + 1), NEW j \in 0..(L + 1), Node(i)' = Node(j)' PROVE i = j
      BY <2>2, <2>4, <2>5, <2>6, <2>7, <2>8
    <2>9. ASSUME NEW i \in 0..(L + 1)
          PROVE  next'[Node(i)'] = IF i < L + 1 THEN Node(i + 1)' ELSE Null
      <3>0. next \in [Nodes -> Nodes \cup {Null}] BY DEF QueueTypeOK
      <3>1. CASE i \in 0..L /\ i # L
        <4>1. i + 1 \in 0..L /\ i < L BY <1>0, <3>1
        <4>2. Node(i)' = Node(i) /\ Node(i + 1)' = Node(i + 1) /\ Node(i) # cur[p]
          BY <1>0, <2>1, <2>2, <2>4, <3>1, <4>1
        <4>3. next[Node(i)] = Node(i + 1) BY <3>1, <4>1 DEF ChainInv
        <4>4. Node(i) \in Nodes BY <1>0, <3>1, NodesAssumption DEF Node, Nodes, QueueTypeOK, L
        <4> QED BY <1>0, <1>2, <3>0, <4>1, <4>2, <4>3, <4>4
      <3>2. CASE i = L
        <4>1. Node(i)' = cur[p] BY <1>0, <2>1, <2>2, <3>2
        <4>2. Node(i + 1)' = mine[p] BY <1>0, <2>7, <3>2
        <4>3. cur[p] \in Nodes BY <1>0, <2>1, NodesAssumption DEF Node, Nodes, QueueTypeOK, L
        <4> QED BY <1>0, <1>2, <3>0, <3>2, <4>1, <4>2, <4>3
      <3>3. CASE i = L + 1
        <4>1. Node(i)' = mine[p] BY <2>7, <3>3
        <4>2. mine[p] # cur[p] BY <1>0, <2>1, <2>5
        <4> QED BY <1>0, <1>2, <3>0, <3>3, <4>1, <4>2
      <3> QED BY <2>6, <3>1, <3>2, <3>3
    <2>10. taken' \in 0..(L + 1) BY <1>0
    <2> QED BY <1>0, <2>2, <2>3, <2>8, <2>9, <2>10 DEF ChainInv
  <1> QED BY <1>1, <1>2 DEF LinkNode

-----------------------------------------------------------------------------
(* What leaves an invariant alone                                          *)

SameProducers ==
  \A p \in Producers : pc'[p] = pc[p] /\ cur'[p] = cur[p] /\ nxt'[p] = nxt[p]
SameConsumers ==
  \A c \in Consumers : pc'[c] = pc[c] /\ cur'[c] = cur[c] /\ nxt'[c] = nxt[c]
MoreNodes == L \in Nat /\ L' \in {L, L + 1} /\ \A i \in 0..L : Node(i)' = Node(i)

LEMMA SameNodes ==
  ASSUME QueueTypeOK, linked' = linked
  PROVE  L \in Nat /\ L' = L /\ (\A i \in 0..L : Node(i)' = Node(i)) /\ MoreNodes
  <1>1. L \in Nat /\ L' = L BY DEF QueueTypeOK, L
  <1>2. \A i \in 0..L : Node(i)' = Node(i) BY DEF Node
  <1> QED BY <1>1, <1>2 DEF MoreNodes

LEMMA ChainFrame ==
  ASSUME QueueTypeOK, ChainInv, UNCHANGED <<next, linked, taken>>,
         allocated' \in {allocated, allocated + 1}
  PROVE  ChainInv'
  <1>1. \A n \in 1..allocated : n \in 1..allocated' BY NodesAssumption DEF QueueTypeOK, Nodes
  <1> QED BY <1>1 DEF ChainInv, Node, L

LEMMA NewFrame ==
  ASSUME NewInv, UNCHANGED <<next, linked, allocated, mine>>,
         \A p \in Producers : pc'[p] \in Pending <=> pc[p] \in Pending
  PROVE  NewInv'
  BY DEF NewInv, L

LEMMA TailFrame ==
  ASSUME QueueTypeOK, TailInv, UNCHANGED <<tail, linked, lagged, mine>>, SameProducers
  PROVE  TailInv'
  <1> PICK t \in 0..L : TailAt(t) BY DEF TailInv
  <1>1. L' = L /\ L \in Nat /\ t \in 0..L' BY SameNodes
  <1>2. TailAt(t)' BY DEF TailAt, Behind, Linker, SameProducers, Node, L
  <1> QED BY <1>1, <1>2 DEF TailInv

LEMMA HeadFrame ==
  ASSUME ChainInv, HeadInv, UNCHANGED <<head, taken, freed, closing>>, MoreNodes, SameConsumers
  PROVE  HeadInv'
  <1> SUFFICES ASSUME ~closing PROVE HeadInv' BY DEF HeadInv, Follows
  <1>0. taken \in 0..L /\ taken' = taken /\ L \in Nat /\ L' \in {L, L + 1}
        /\ \A j \in 0..taken : Node(j)' = Node(j)
        /\ \A i \in 0..L : Node(i)' = Node(i)
    BY DEF ChainInv, MoreNodes
  <1>1. head' = Node(taken)' BY <1>0 DEF HeadInv, Follows
  <1>2. ASSUME NEW c \in Consumers, pc[c] \in {"headNext", "swing"}
        PROVE  \E j \in 0..taken : cur[c] = Node(j)' /\ (pc[c] = "swing" => j < L' /\ nxt[c] = Node(j + 1)')
    <2>1. PICK j \in 0..taken : cur[c] = Node(j) /\ (pc[c] = "swing" => j < L /\ nxt[c] = Node(j + 1))
      BY <1>2 DEF HeadInv, Follows
    <2>2. cur[c] = Node(j)' BY <1>0, <2>1
    <2>3. pc[c] = "swing" => j < L' /\ nxt[c] = Node(j + 1)'
      <3>1. j < L => j + 1 \in 0..L BY <1>0
      <3> QED BY <1>0, <2>1, <3>1
    <2> QED BY <2>2, <2>3
  <1>3. ASSUME NEW c \in Consumers, pc[c] = "take"
        PROVE  \E j \in 0..(taken - 1) : cur[c] = Node(j)' /\ nxt[c] = Node(j + 1)'
    <2>1. PICK j \in 0..(taken - 1) : cur[c] = Node(j) /\ nxt[c] = Node(j + 1) BY <1>3 DEF HeadInv, Follows
    <2>2. j \in 0..L /\ j + 1 \in 0..L BY <1>0
    <2> QED BY <1>0, <2>1, <2>2
  <1>4. \A j \in 0..(taken - 1) : Node(j)' = Node(j) BY <1>0
  <1> QED BY <1>0, <1>1, <1>2, <1>3, <1>4 DEF HeadInv, Follows, SameConsumers

-----------------------------------------------------------------------------
(* tail                                                                    *)

(* The other producers stay where they are, and tail may only move on.     *)
LEMMA OthersBehind ==
  ASSUME QueueTypeOK, MoreNodes, NEW t \in 0..L, NEW u \in Nat, t <= u,
         NEW q \in Producers, Behind(q, t),
         pc'[q] = pc[q], cur'[q] = cur[q], nxt'[q] = nxt[q], mine'[q] = mine[q]
  PROVE  Behind(q, u)'
  <1> SUFFICES ASSUME pc[q] \in HoldsTail PROVE Behind(q, u)' BY DEF Behind
  <1>1. PICK k \in 0..t : /\ cur[q] = Node(k)
                          /\ pc[q] = "help" => k < L /\ nxt[q] = Node(k + 1)
                          /\ pc[q] = "advance" => k < L /\ mine[q] = Node(k + 1)
    BY DEF Behind
  <1>2. L \in Nat /\ L' \in {L, L + 1} /\ \A i \in 0..L : Node(i)' = Node(i) BY DEF MoreNodes
  <1>3. k \in 0..u /\ k \in 0..L /\ (k < L => k + 1 \in 0..L /\ k < L') BY <1>2
  <1>4. Node(k)' = Node(k) /\ (k < L => Node(k + 1)' = Node(k + 1)) BY <1>2, <1>3
  <1> QED BY <1>1, <1>3, <1>4 DEF Behind

LEMMA NewNodeKeepsTail ==
  ASSUME QueueTypeOK, TailInv, NEW p \in Producers, NewNode(p)
  PROVE  TailInv'
  <1> PICK t \in 0..L : TailAt(t) BY DEF TailInv
  <1>1. L' = L /\ L \in Nat /\ MoreNodes BY SameNodes DEF NewNode
  <1>2. /\ \A q \in Producers : q # p => /\ pc'[q] = pc[q] /\ cur'[q] = cur[q]
                                         /\ nxt'[q] = nxt[q] /\ mine'[q] = mine[q]
        /\ pc[p] = "idle" /\ pc'[p] = "loadTail"
        /\ tail' = tail /\ lagged' = lagged
    BY DEF NewNode, Goto, QueueTypeOK, Threads
  <1>3. \A q \in Producers : Behind(q, t)'
    <2> TAKE q \in Producers
    <2>1. CASE q = p BY <1>2, <2>1 DEF Behind, HoldsTail
    <2>2. CASE q # p BY <1>1, <1>2, <2>2, OthersBehind DEF TailAt
    <2> QED BY <2>1, <2>2
  <1>4. \A q \in Producers : Linker(q) => Linker(q)' BY <1>1, <1>2 DEF Linker, MoreNodes
  <1>5. tail' = Node(t)' BY <1>1, <1>2 DEF TailAt, MoreNodes
  <1> QED BY <1>1, <1>2, <1>3, <1>4, <1>5 DEF TailInv, TailAt

(* p moves on, from a state in which it had read no more than it has now;  *)
(* tail stays, and p was not about to move it to the last node.            *)
LEMMA ReadKeepsTail ==
  ASSUME QueueTypeOK, NEW t \in 0..L, TailAt(t), NEW p \in Producers,
         UNCHANGED <<tail, linked, mine>>, lagged => lagged',
         lagged' => lagged \/ (WeakFailures /\ t < L),
         \A q \in Producers : q # p => pc'[q] = pc[q] /\ cur'[q] = cur[q] /\ nxt'[q] = nxt[q],
         Linker(p) => t = L \/ lagged',
         Behind(p, t)'
  PROVE  TailInv'
  <1>1. L' = L /\ L \in Nat /\ MoreNodes BY SameNodes
  <1>2. \A q \in Producers : Behind(q, t)'
    <2> TAKE q \in Producers
    <2>1. CASE q # p BY <1>1, <2>1, OthersBehind DEF TailAt
    <2> QED BY <2>1
  <1>3. \A q \in Producers : q # p /\ Linker(q) => Linker(q)' BY <1>1 DEF Linker, MoreNodes
  <1>4. tail' = Node(t)' BY <1>1 DEF TailAt, MoreNodes
  <1>5. (lagged => lagged') /\ (lagged' => WeakFailures /\ t < L') BY <1>1 DEF TailAt
  <1>6. t = L' \/ (t = L' - 1 /\ (lagged' \/ \E q \in Producers : Linker(q)'))
    BY <1>1, <1>3, <1>5 DEF TailAt
  <1> QED BY <1>1, <1>2, <1>4, <1>5, <1>6 DEF TailInv, TailAt

LEMMA LoadsKeepTail ==
  ASSUME QueueTypeOK, CallInv, ChainInv, TailInv, NEW p \in Producers,
         LoadTail(p) \/ LoadTailNext(p)
  PROVE  TailInv'
  <1> PICK t \in 0..L : TailAt(t) BY DEF TailInv
  <1>1. /\ L' = L /\ L \in Nat /\ \A i \in 0..L : Node(i)' = Node(i)
        /\ UNCHANGED <<tail, linked, mine>> /\ lagged' = lagged
        /\ \A q \in Producers : q # p => pc'[q] = pc[q] /\ cur'[q] = cur[q] /\ nxt'[q] = nxt[q]
        /\ pc[p] # "advance"
    <2>1. UNCHANGED <<tail, linked, mine, lagged>> /\ pc[p] \in {"loadTail", "tailNext"}
      BY DEF LoadTail, LoadTailNext, list, history
    <2>2. \A q \in Producers : q # p => pc'[q] = pc[q] /\ cur'[q] = cur[q] /\ nxt'[q] = nxt[q]
      BY DEF LoadTail, LoadTailNext, Goto, QueueTypeOK, Threads
    <2> QED BY <2>1, <2>2, SameNodes
  <1>2. Behind(p, t)'
    <2>1. CASE LoadTail(p)
      <3>1. cur'[p] = tail /\ pc'[p] = "tailNext"
        BY <2>1 DEF LoadTail, Goto, QueueTypeOK, Threads
      <3>2. tail = Node(t)' /\ t \in 0..t BY <1>1 DEF TailAt
      <3> QED BY <3>1, <3>2 DEF Behind
    <2>2. CASE LoadTailNext(p)
      <3>1. /\ cur'[p] = cur[p] /\ pc[p] = "tailNext" /\ nxt'[p] = next[cur[p]]
            /\ pc'[p] = IF next[cur[p]] = Null THEN "link" ELSE "help"
        BY <2>2 DEF LoadTailNext, Goto, QueueTypeOK, Threads, list
      <3>2. PICK k \in 0..t : cur[p] = Node(k) BY <3>1 DEF TailAt, Behind, HoldsTail
      <3>3. k \in 0..L /\ (k < L => k + 1 \in 0..L) BY <1>1
      <3>4. next[cur[p]] = IF k < L THEN Node(k + 1) ELSE Null BY <3>2, <3>3 DEF ChainInv
      <3>5. cur'[p] = Node(k)' /\ (k < L => Node(k + 1)' = Node(k + 1)) BY <1>1, <3>1, <3>2, <3>3
      <3> QED BY <1>1, <3>1, <3>4, <3>5 DEF Behind
    <2> QED BY <2>1, <2>2
  <1>3. ~Linker(p) BY <1>1 DEF Linker
  <1> QED BY <1>1, <1>2, <1>3, ReadKeepsTail

LEMMA LinkKeepsTail ==
  ASSUME QueueTypeOK, CallInv, ChainInv, NewInv, TailInv, NEW p \in Producers, LinkNode(p)
  PROVE  TailInv'
  <1> PICK t \in 0..L : TailAt(t) BY DEF TailInv
  <1>1. /\ L \in Nat /\ UNCHANGED <<tail, mine, lagged>> /\ pc[p] = "link" /\ mine[p] \in Nodes
        /\ \A q \in Producers : q # p => pc'[q] = pc[q] /\ cur'[q] = cur[q] /\ nxt'[q] = nxt[q]
    <2>1. UNCHANGED <<tail, mine, lagged>> /\ pc[p] = "link" BY DEF LinkNode
    <2>2. \A q \in Producers : q # p => pc'[q] = pc[q] /\ cur'[q] = cur[q] /\ nxt'[q] = nxt[q]
      BY DEF LinkNode, Goto, QueueTypeOK, Threads
    <2>3. L \in Nat /\ mine[p] \in Nodes BY DEF QueueTypeOK, L
    <2> QED BY <2>1, <2>2, <2>3
  <1>2. CASE pc' = [pc EXCEPT ![p] = "loadTail"] /\ UNCHANGED <<next, linked>>
    <2>1. pc'[p] = "loadTail" BY <1>2 DEF QueueTypeOK, Threads
    <2>2. Behind(p, t)' BY <2>1 DEF Behind, HoldsTail
    <2>3. ~Linker(p) BY <1>1 DEF Linker
    <2> QED BY <1>1, <1>2, <2>2, <2>3, ReadKeepsTail
  <1>3. CASE /\ next[cur[p]] = Null /\ pc' = [pc EXCEPT ![p] = "advance"]
             /\ linked' = Append(linked, mine[p])
    <2>1. cur[p] = Node(L) /\ tail = Node(L) BY <1>1, <1>3, LinksToLast
    <2>2. t = L
      <3>1. Node(t) = Node(L) BY <2>1 DEF TailAt
      <3>2. L \in 0..L BY <1>1
      <3> QED BY <3>1, <3>2 DEF ChainInv
    <2>3. MoreNodes /\ L' = L + 1 /\ Node(L)' = mine[p]
      BY <1>1, <1>3, AppendNode DEF MoreNodes
    <2>4. pc'[p] = "advance" /\ cur'[p] = cur[p]
      BY <1>3 DEF LinkNode, QueueTypeOK, Threads
    <2>5. Behind(p, t)'
      <3>1. t < L' /\ t + 1 = L' /\ t \in 0..t BY <1>1, <2>2, <2>3
      <3>2. cur'[p] = Node(t)' BY <1>1, <2>1, <2>2, <2>3, <2>4 DEF MoreNodes
      <3>3. mine'[p] = Node(t + 1)' BY <1>1, <2>3, <3>1
      <3> QED BY <2>4, <3>1, <3>2, <3>3 DEF Behind
    <2>6. \A q \in Producers : Behind(q, t)'
      <3> TAKE q \in Producers
      <3>1. CASE q # p BY <1>1, <2>3, <3>1, OthersBehind DEF TailAt
      <3> QED BY <2>5, <3>1
    <2>7. Linker(p)' BY <1>1, <2>3, <2>4 DEF Linker
    <2>8. tail' = Node(t)' BY <1>1, <2>1, <2>2, <2>3 DEF MoreNodes
    <2>9. t \in 0..L' /\ t = L' - 1 BY <1>1, <2>2, <2>3
    <2>10. ~lagged' BY <1>1, <2>2 DEF TailAt
    <2> QED BY <2>6, <2>7, <2>8, <2>9, <2>10 DEF TailInv, TailAt
  <1> QED BY <1>2, <1>3 DEF LinkNode, Goto

(* What an exchange of tail does to lagged.                                *)
LaggedBy(p) ==
  /\ pc[p] = "help" => lagged' = (lagged /\ tail' = tail)
  /\ pc[p] = "advance" => lagged' = (tail' = tail /\ (lagged \/ tail = cur[p]))

LEMMA LaggedMoves ==
  ASSUME NEW p \in Producers, pc[p] \in {"help", "advance"}, LaggedBy(p)
  PROVE  /\ tail' # tail => ~lagged'
         /\ tail' = tail => (lagged => lagged')
         /\ tail' = tail /\ pc[p] = "advance" /\ tail = cur[p] => lagged'
         /\ lagged' /\ ~lagged => tail = cur[p]
  <1>1. CASE pc[p] = "help"
    <2>1. lagged' = (lagged /\ tail' = tail) BY <1>1 DEF LaggedBy
    <2> QED BY <1>1, <2>1
  <1>2. CASE pc[p] = "advance"
    <2>1. lagged' = (tail' = tail /\ (lagged \/ tail = cur[p])) BY <1>2 DEF LaggedBy
    <2> QED BY <1>2, <2>1
  <1> QED BY <1>1, <1>2

(* A compare_exchange of tail, by the producer that linked the next node   *)
(* or by one that found it.                                                *)
LEMMA SwingKeepsTail ==
  ASSUME QueueTypeOK, CallInv, ChainInv, TailInv, NEW p \in Producers,
         HelpTail(p) \/ AdvanceTail(p)
  PROVE  TailInv'
  <1> PICK t \in 0..L : TailAt(t) BY DEF TailInv
  <1> DEFINE to == IF pc[p] = "help" THEN nxt[p] ELSE mine[p]
  <1>1. pc[p] \in {"help", "advance"} /\ pc'[p] \notin HoldsTail
    BY DEF HelpTail, AdvanceTail, Goto, QueueTypeOK, Threads, HoldsTail
  <1>2. /\ UNCHANGED <<linked, mine>>
        /\ \A q \in Producers : q # p => pc'[q] = pc[q] /\ cur'[q] = cur[q] /\ nxt'[q] = nxt[q]
    <2>1. UNCHANGED <<linked, mine>> BY DEF HelpTail, AdvanceTail
    <2>2. \A q \in Producers : q # p => pc'[q] = pc[q] /\ cur'[q] = cur[q] /\ nxt'[q] = nxt[q]
      BY DEF HelpTail, AdvanceTail, Goto, QueueTypeOK, Threads
    <2> QED BY <2>1, <2>2
  <1>3. /\ SwingTail(p, to)
        /\ LaggedBy(p)
    BY DEF HelpTail, AdvanceTail, LaggedBy
  <1>9. PICK k \in 0..t : cur[p] = Node(k) /\ k < L /\ to = Node(k + 1)
    BY <1>1 DEF TailAt, Behind, HoldsTail
  <1>4. Behind(p, t)' BY <1>1 DEF Behind
  <1>5. L' = L /\ L \in Nat /\ MoreNodes /\ \A i \in 0..L : Node(i)' = Node(i) BY <1>2, SameNodes
  <1>6. k \in 0..L /\ k + 1 \in 0..L /\ k + 1 # k BY <1>5, <1>9
  <1>10. pc[p] = "advance" => to = mine[p] OBVIOUS
  <1> HIDE DEF to
  <1>7. CASE tail' = tail /\ (tail = cur[p] => WeakFailures)
    <2>0. lagged => lagged' BY <1>1, <1>3, <1>7, LaggedMoves
    <2>1. Linker(p) => t = L \/ lagged'
      <3> SUFFICES ASSUME Linker(p), t # L PROVE lagged' OBVIOUS
      <3>1. pc[p] = "advance" /\ to = Node(L) BY <1>10 DEF Linker
      <3>2. k + 1 = L
        <4>1. Node(k + 1) = Node(L) /\ L \in 0..L BY <1>5, <1>9, <3>1
        <4> QED BY <1>6, <4>1 DEF ChainInv
      <3>3. k = t BY <1>5, <3>2
      <3>4. tail = cur[p] BY <1>9, <3>3 DEF TailAt
      <3> QED BY <1>3, <1>7, <3>1, <3>4, LaggedMoves
    <2>2. lagged' => lagged \/ (WeakFailures /\ t < L)
      <3> SUFFICES ASSUME lagged', ~lagged PROVE WeakFailures /\ t < L OBVIOUS
      <3>1. tail = cur[p] BY <1>1, <1>3, LaggedMoves
      <3>2. k = t
        <4>1. Node(k) = Node(t) BY <1>9, <3>1 DEF TailAt
        <4> QED BY <1>5, <1>6, <4>1 DEF ChainInv
      <3> QED BY <1>7, <1>9, <3>1, <3>2
    <2> QED BY <1>2, <1>4, <1>7, <2>0, <2>1, <2>2, ReadKeepsTail
  <1>8. CASE tail = cur[p] /\ tail' = to
    <2>1. k = t BY <1>5, <1>6, <1>8, <1>9 DEF TailAt, ChainInv
    <2>2. t + 1 = L BY <1>5, <1>9, <2>1 DEF TailAt
    <2>3. tail' = Node(L)'
      <3>1. tail' = Node(L) BY <1>8, <1>9, <2>1, <2>2
      <3> QED BY <1>5, <3>1
    <2>4. \A q \in Producers : Behind(q, L)'
      <3> TAKE q \in Producers
      <3>1. CASE q # p BY <1>2, <1>5, <3>1, OthersBehind DEF TailAt
      <3>2. CASE q = p BY <1>1, <3>2 DEF Behind
      <3> QED BY <3>1, <3>2
    <2>5. tail' # tail
      <3>1. Node(k + 1) # Node(k) BY <1>5, <1>6 DEF ChainInv
      <3> QED BY <1>8, <1>9, <3>1
    <2>6. ~lagged' BY <1>1, <1>3, <2>5, LaggedMoves
    <2> QED BY <1>5, <2>3, <2>4, <2>6 DEF TailInv, TailAt
  <1> QED BY <1>3, <1>7, <1>8 DEF SwingTail

LEMMA ProducerKeepsTail ==
  ASSUME QueueTypeOK, CallInv, ChainInv, NewInv, TailInv, NEW p \in Producers, ProducerStep(p)
  PROVE  TailInv'
  BY NewNodeKeepsTail, LoadsKeepTail, LinkKeepsTail, SwingKeepsTail DEF ProducerStep

-----------------------------------------------------------------------------
(* The nodes that are not linked yet                                       *)

LEMMA NewNodeKeepsNew ==
  ASSUME QueueTypeOK, CallInv, ChainInv, NewInv, NEW p \in Producers, NewNode(p)
  PROVE  NewInv'
  <1>0. allocated \in Nat /\ allocated < MaxNodes BY NodesAssumption DEF NewNode, QueueTypeOK, Nodes
  <1>1. /\ pc[p] = "idle" /\ pc'[p] = "loadTail" /\ mine'[p] = allocated + 1
        /\ allocated' = allocated + 1 /\ next' = next /\ linked' = linked
        /\ \A q \in Producers : q # p => pc'[q] = pc[q] /\ mine'[q] = mine[q]
    BY DEF NewNode, Goto, QueueTypeOK, Threads
  <1>2. \A i \in 1..L : linked[i] \in 1..allocated BY DEF ChainInv
  <1>3. allocated + 1 \in Nodes /\ allocated + 1 \in 1..allocated' BY <1>0, <1>1, NodesAssumption DEF Nodes
  <1>4. ASSUME NEW q \in Producers, pc'[q] \in Pending
        PROVE  /\ mine'[q] \in 1..allocated' /\ next'[mine'[q]] = Null
               /\ \A i \in 1..L : linked[i] # mine'[q]
    <2>1. CASE q = p BY <1>0, <1>1, <1>2, <1>3, <2>1 DEF NewInv
    <2>2. CASE q # p
      <3>1. pc[q] \in Pending /\ mine'[q] = mine[q] BY <1>1, <1>4, <2>2
      <3> QED BY <1>0, <1>1, <3>1 DEF NewInv
    <2> QED BY <2>1, <2>2
  <1>5. \A q, r \in Producers : pc'[q] \in Pending /\ pc'[r] \in Pending /\ mine'[q] = mine'[r] => q = r
    <2>1. \A q \in Producers : q # p /\ pc[q] \in Pending => mine[q] # allocated + 1
      BY <1>0 DEF NewInv
    <2> QED BY <1>1, <2>1 DEF NewInv
  <1>6. ASSUME NEW n \in 1..allocated'
        PROVE  \/ \E i \in 1..L : linked[i] = n
               \/ \E q \in Producers : pc'[q] \in Pending /\ mine'[q] = n
    <2>1. CASE n = allocated + 1 BY <1>1, <2>1 DEF Pending
    <2>2. CASE n \in 1..allocated
      <3>1. CASE \E i \in 1..L : linked[i] = n BY <3>1
      <3>2. CASE \E q \in Producers : pc[q] \in Pending /\ mine[q] = n
        <4>1. PICK q \in Producers : pc[q] \in Pending /\ mine[q] = n BY <3>2
        <4>2. q # p BY <1>1, <4>1 DEF Pending
        <4> QED BY <1>1, <4>1, <4>2
      <3> QED BY <2>2, <3>1, <3>2 DEF NewInv
    <2> QED BY <1>0, <1>1, <2>1, <2>2
  <1>7. \A n \in Nodes : n > allocated' => next'[n] = Null BY <1>0, <1>1, NodesAssumption DEF NewInv, Nodes
  <1>8. L' = L BY <1>1 DEF L
  <1> QED BY <1>1, <1>4, <1>5, <1>6, <1>7, <1>8 DEF NewInv

LEMMA LinkKeepsNew ==
  ASSUME QueueTypeOK, CallInv, ChainInv, NewInv, TailInv, NEW p \in Producers, LinkNode(p)
  PROVE  NewInv'
  <1>0. /\ allocated' = allocated /\ mine' = mine /\ pc[p] = "link" /\ pc[p] \in Pending
        /\ \A q \in Producers : q # p => pc'[q] = pc[q]
        /\ L \in Nat /\ allocated \in Nat /\ mine[p] \in Nodes
    BY NodesAssumption DEF LinkNode, Goto, QueueTypeOK, Threads, Pending, L, Nodes
  <1>1. CASE pc' = [pc EXCEPT ![p] = "loadTail"] /\ UNCHANGED <<next, linked>>
    <2>1. pc'[p] \in Pending BY <1>1 DEF QueueTypeOK, Threads, Pending
    <2> QED BY <1>0, <1>1, <2>1, NewFrame
  <1>2. CASE /\ next[cur[p]] = Null /\ pc' = [pc EXCEPT ![p] = "advance"]
             /\ next' = [next EXCEPT ![cur[p]] = mine[p]] /\ linked' = Append(linked, mine[p])
    <2>1. pc'[p] \notin Pending BY <1>2 DEF QueueTypeOK, Threads, Pending
    <2>2. cur[p] = Node(L) BY <1>0, <1>2, LinksToLast
    <2>3. L' = L + 1 /\ (\A i \in 1..L : linked'[i] = linked[i]) /\ linked'[L + 1] = mine[p]
      BY <1>0, <1>2, AppendNode
    <2>4. \A i \in 1..(L + 1) : i \in 1..L \/ i = L + 1 BY <1>0
    <2>5. cur[p] \in 0..allocated /\ (\A q \in Producers : pc[q] \in Pending => cur[p] # mine[q])
      BY <1>0, <2>2 DEF Node, ChainInv, NewInv
    <2>6. next \in [Nodes -> Nodes \cup {Null}] BY DEF QueueTypeOK
    <2>7. ASSUME NEW q \in Producers, pc'[q] \in Pending
          PROVE  /\ mine[q] \in 1..allocated /\ next'[mine[q]] = Null
                 /\ \A i \in 1..(L + 1) : linked'[i] # mine[q]
      <3>1. q # p /\ pc[q] \in Pending BY <1>0, <2>1, <2>7
      <3>2. mine[q] \in 1..allocated /\ next[mine[q]] = Null /\ mine[q] # mine[p]
            /\ \A i \in 1..L : linked[i] # mine[q]
        BY <1>0, <3>1 DEF NewInv
      <3>3. next'[mine[q]] = Null BY <1>2, <2>5, <2>6, <3>1, <3>2
      <3> QED BY <2>3, <2>4, <3>2, <3>3
    <2>8. \A q, r \in Producers : pc'[q] \in Pending /\ pc'[r] \in Pending /\ mine[q] = mine[r] => q = r
      BY <1>0, <2>1 DEF NewInv
    <2>9. ASSUME NEW n \in 1..allocated
          PROVE  \/ \E i \in 1..(L + 1) : linked'[i] = n
                 \/ \E q \in Producers : pc'[q] \in Pending /\ mine[q] = n
      <3>1. CASE \E i \in 1..L : linked[i] = n
        <4>1. PICK i \in 1..L : linked[i] = n BY <3>1
        <4>2. i \in 1..(L + 1) /\ linked'[i] = n BY <1>0, <2>3, <4>1
        <4> QED BY <4>2
      <3>2. CASE \E q \in Producers : pc[q] \in Pending /\ mine[q] = n
        <4>1. PICK q \in Producers : pc[q] \in Pending /\ mine[q] = n BY <3>2
        <4>2. CASE q = p
          <5>1. L + 1 \in 1..(L + 1) BY <1>0
          <5> QED BY <2>3, <4>1, <4>2, <5>1
        <4>3. CASE q # p BY <1>0, <4>1, <4>3
        <4> QED BY <4>2, <4>3
      <3> QED BY <3>1, <3>2 DEF NewInv
    <2>10. \A n \in Nodes : n > allocated => next'[n] = Null
      BY <1>0, <1>2, <2>5, <2>6, NodesAssumption DEF NewInv, Nodes
    <2> QED BY <1>0, <2>3, <2>7, <2>8, <2>9, <2>10 DEF NewInv
  <1> QED BY <1>1, <1>2 DEF LinkNode, Goto

-----------------------------------------------------------------------------
(* head                                                                    *)

(* The consumers that stay where they are; head may move on.               *)
LEMMA OthersFollow ==
  ASSUME QueueTypeOK, ChainInv, linked' = linked, taken' \in {taken, taken + 1},
         NEW d \in Consumers, Follows(d), pc'[d] = pc[d], cur'[d] = cur[d], nxt'[d] = nxt[d]
  PROVE  Follows(d)'
  <1>0. L' = L /\ taken \in Nat /\ taken \in 0..L /\ L \in Nat BY SameNodes DEF ChainInv
  <1>1. \A j : Node(j)' = Node(j) /\ Node(j + 1)' = Node(j + 1) BY DEF Node
  <1>2. /\ \A j \in 0..taken : j \in 0..taken'
        /\ \A j \in 0..(taken - 1) : j \in 0..(taken' - 1)
    <2>1. CASE taken' = taken BY <1>0, <2>1
    <2>2. CASE taken' = taken + 1 BY <1>0, <2>2
    <2> QED BY <2>1, <2>2
  <1>3. ASSUME pc[d] \in {"headNext", "swing"}
        PROVE  \E j \in 0..taken' :
                 cur[d] = Node(j)' /\ (pc[d] = "swing" => j < L' /\ nxt[d] = Node(j + 1)')
    <2>1. PICK j \in 0..taken : cur[d] = Node(j) /\ (pc[d] = "swing" => j < L /\ nxt[d] = Node(j + 1))
      BY <1>3 DEF Follows
    <2> QED BY <1>0, <1>1, <1>2, <2>1
  <1>4. ASSUME pc[d] = "take"
        PROVE  \E j \in 0..(taken' - 1) : cur[d] = Node(j)' /\ nxt[d] = Node(j + 1)'
    <2>1. PICK j \in 0..(taken - 1) : cur[d] = Node(j) /\ nxt[d] = Node(j + 1)
      BY <1>4 DEF Follows
    <2> QED BY <1>0, <1>1, <1>2, <2>1
  <1> QED BY <1>3, <1>4 DEF Follows

LEMMA ConsumerKeepsHead ==
  ASSUME QueueTypeOK, CallInv, ChainInv, HeadInv, ClosingInv, NEW c \in Consumers, ConsumerStep(c)
  PROVE  HeadInv'
  <1>0. /\ ~closing /\ closing' = closing /\ linked' = linked /\ c \in Threads
        /\ \A d \in Consumers : d # c => pc'[d] = pc[d] /\ cur'[d] = cur[d] /\ nxt'[d] = nxt[d]
    <2>1. ~closing BY DEF ConsumerStep, LoadHead, LoadHeadNext, SwingHead, TakeValue, ClosingInv, Threads
    <2>2. closing' = closing /\ linked' = linked
      BY DEF ConsumerStep, LoadHead, LoadHeadNext, SwingHead, TakeValue, history
    <2>3. \A d \in Consumers : d # c => pc'[d] = pc[d] /\ cur'[d] = cur[d] /\ nxt'[d] = nxt[d]
      BY DEF ConsumerStep, LoadHead, LoadHeadNext, SwingHead, TakeValue, Goto, QueueTypeOK, Threads
    <2> QED BY <2>1, <2>2, <2>3 DEF Threads
  <1>1. /\ L' = L /\ L \in Nat /\ taken \in 0..L /\ taken \in Nat
        /\ (\A j : Node(j)' = Node(j) /\ Node(j + 1)' = Node(j + 1))
        /\ \A i, j \in 0..L : Node(i) = Node(j) => i = j
    BY <1>0, SameNodes DEF ChainInv, Node
  <1>2. /\ head = Node(taken) /\ Follows(c) /\ \A d \in Consumers : Follows(d)
        /\ \A d, e \in Consumers : pc[d] = "take" /\ pc[e] = "take" /\ cur[d] = cur[e] => d = e
        /\ \A n \in freed : \E j \in 0..(taken - 1) : n = Node(j)
        /\ \A j \in 0..(taken - 1) :
             Node(j) \in freed \/ \E d \in Consumers : pc[d] = "take" /\ cur[d] = Node(j)
        /\ \A d \in Consumers : pc[d] = "take" => cur[d] \notin freed
    BY <1>0 DEF HeadInv
  <1>3. taken' \in {taken, taken + 1} => \A d \in Consumers : d # c => Follows(d)'
    BY <1>0, <1>2, OthersFollow
  <1>4. ASSUME UNCHANGED <<head, taken, freed>>, pc[c] # "take", pc'[c] # "take", Follows(c)'
        PROVE  HeadInv'
    <2>1. \A d \in Consumers : Follows(d)' BY <1>3, <1>4
    <2>2. \A d \in Consumers : pc'[d] = "take" <=> pc[d] = "take" BY <1>0, <1>4
    <2>3. \A d \in Consumers : pc'[d] = "take" => cur'[d] = cur[d] BY <1>0, <1>4
    <2> QED BY <1>1, <1>2, <1>4, <2>1, <2>2, <2>3 DEF HeadInv
  <1>5. CASE LoadHead(c)
    <2>1. /\ UNCHANGED <<head, taken, freed>> /\ pc[c] # "take"
          /\ pc'[c] = "headNext" /\ cur'[c] = head
      BY <1>0, <1>5 DEF LoadHead, Goto, QueueTypeOK, list
    <2>2. Follows(c)' BY <1>1, <1>2, <2>1 DEF Follows
    <2> QED BY <1>4, <2>1, <2>2
  <1>6. CASE LoadHeadNext(c)
    <2>1. /\ UNCHANGED <<head, taken, freed>> /\ pc[c] = "headNext" /\ cur'[c] = cur[c]
          /\ nxt'[c] = next[cur[c]]
          /\ \/ pc'[c] = "idle"
             \/ pc'[c] = "swing" /\ next[cur[c]] # Null
      BY <1>0, <1>6 DEF LoadHeadNext, Goto, QueueTypeOK, list, history
    <2>2. Follows(c)'
      <3>1. PICK j \in 0..taken : cur[c] = Node(j) BY <1>2, <2>1 DEF Follows
      <3>2. j \in 0..L /\ next[cur[c]] = IF j < L THEN Node(j + 1) ELSE Null
        BY <1>1, <3>1 DEF ChainInv
      <3> QED BY <1>1, <2>1, <3>1, <3>2 DEF Follows
    <2> QED BY <1>4, <2>1, <2>2
  <1>7. CASE SwingHead(c) /\ pc' = [pc EXCEPT ![c] = "loadHead"] /\ UNCHANGED <<head, taken>>
    <2>1. UNCHANGED <<head, taken, freed>> /\ pc[c] = "swing" /\ pc'[c] = "loadHead"
      BY <1>0, <1>7 DEF SwingHead, QueueTypeOK
    <2>2. Follows(c)' BY <2>1 DEF Follows
    <2> QED BY <1>4, <2>1, <2>2
  <1>8. CASE SwingHead(c) /\ head = cur[c] /\ head' = nxt[c] /\ taken' = taken + 1
             /\ pc' = [pc EXCEPT ![c] = "take"]
    <2>1. /\ freed' = freed /\ pc[c] = "swing" /\ pc'[c] = "take"
          /\ cur'[c] = cur[c] /\ nxt'[c] = nxt[c] /\ taken' = taken + 1
      BY <1>0, <1>8 DEF SwingHead, QueueTypeOK
    <2>2. PICK j \in 0..taken : cur[c] = Node(j) /\ j < L /\ nxt[c] = Node(j + 1)
      BY <1>2, <2>1 DEF Follows
    <2>3. j = taken
      <3>1. Node(j) = Node(taken) BY <1>2, <1>8, <2>2
      <3>2. j \in 0..L BY <1>1
      <3> QED BY <1>1, <3>1, <3>2 DEF ChainInv
    <2>4. cur[c] = Node(taken) /\ nxt[c] = Node(taken + 1) /\ taken \in 0..(taken' - 1)
      BY <1>1, <2>1, <2>2, <2>3
    <2>5. head' = Node(taken)' BY <1>1, <1>8, <2>4
    <2>6. Follows(c)' BY <1>1, <2>1, <2>4 DEF Follows
    <2>7. \A d \in Consumers : Follows(d)' BY <1>3, <2>1, <2>6
    <2>8. \A d \in Consumers : d # c /\ pc[d] = "take" => cur[d] # cur[c]
      <3> SUFFICES ASSUME NEW d \in Consumers, d # c, pc[d] = "take" PROVE cur[d] # cur[c]
        OBVIOUS
      <3>1. PICK i \in 0..(taken - 1) : cur[d] = Node(i) BY <1>2 DEF Follows
      <3>2. i \in 0..L /\ i # taken BY <1>1
      <3> QED BY <1>1, <2>4, <3>1, <3>2
    <2>9. \A d, e \in Consumers : pc'[d] = "take" /\ pc'[e] = "take" /\ cur'[d] = cur'[e] => d = e
      BY <1>0, <1>2, <2>1, <2>8
    <2>10. \A n \in freed : \E i \in 0..(taken' - 1) : n = Node(i)' BY <1>1, <1>2, <2>1
    <2>11. ASSUME NEW i \in 0..(taken' - 1)
           PROVE  Node(i)' \in freed \/ \E d \in Consumers : pc'[d] = "take" /\ cur'[d] = Node(i)'
      <3>1. CASE i = taken BY <1>1, <2>1, <2>4, <3>1
      <3>2. CASE i # taken
        <4>1. i \in 0..(taken - 1) BY <1>1, <2>1, <3>2
        <4>2. CASE Node(i) \in freed BY <1>1, <4>2
        <4>3. CASE \E d \in Consumers : pc[d] = "take" /\ cur[d] = Node(i)
          <5>1. PICK d \in Consumers : pc[d] = "take" /\ cur[d] = Node(i) BY <4>3
          <5>2. d # c BY <2>1, <5>1
          <5> QED BY <1>0, <1>1, <5>1, <5>2
        <4> QED BY <1>2, <4>1, <4>2, <4>3
      <3> QED BY <3>1, <3>2
    <2>12. cur[c] \notin freed
      <3> SUFFICES ASSUME cur[c] \in freed PROVE FALSE OBVIOUS
      <3>1. PICK i \in 0..(taken - 1) : Node(taken) = Node(i) BY <1>2, <2>4
      <3>2. i \in 0..L /\ i # taken BY <1>1
      <3> QED BY <1>1, <3>1, <3>2
    <2>13. \A d \in Consumers : pc'[d] = "take" => cur'[d] \notin freed BY <1>0, <1>2, <2>1, <2>12
    <2> QED BY <2>1, <2>5, <2>7, <2>9, <2>10, <2>11, <2>13 DEF HeadInv
  <1>9. CASE TakeValue(c)
    <2>1. /\ freed' = freed \cup {cur[c]} /\ pc[c] = "take" /\ pc'[c] = "idle"
          /\ UNCHANGED <<head, taken, cur>>
      BY <1>0, <1>9 DEF TakeValue, Delete, Goto, QueueTypeOK
    <2>2. PICK j \in 0..(taken - 1) : cur[c] = Node(j) BY <1>2, <2>1 DEF Follows
    <2>3. Follows(c)' BY <2>1 DEF Follows
    <2>4. \A d \in Consumers : Follows(d)' BY <1>3, <2>1, <2>3
    <2>5. \A d, e \in Consumers : pc'[d] = "take" /\ pc'[e] = "take" /\ cur'[d] = cur'[e] => d = e
      BY <1>0, <1>2, <2>1
    <2>6. \A n \in freed' : \E i \in 0..(taken - 1) : n = Node(i)' BY <1>1, <1>2, <2>1, <2>2
    <2>7. ASSUME NEW i \in 0..(taken - 1)
          PROVE  Node(i)' \in freed' \/ \E d \in Consumers : pc'[d] = "take" /\ cur'[d] = Node(i)'
      <3>1. CASE Node(i) \in freed BY <1>1, <2>1, <3>1
      <3>2. CASE \E d \in Consumers : pc[d] = "take" /\ cur[d] = Node(i)
        <4>1. PICK d \in Consumers : pc[d] = "take" /\ cur[d] = Node(i) BY <3>2
        <4>2. CASE d = c BY <1>1, <2>1, <4>1, <4>2
        <4>3. CASE d # c BY <1>0, <1>1, <2>1, <4>1, <4>3
        <4> QED BY <4>2, <4>3
      <3> QED BY <1>2, <3>1, <3>2
    <2>8. head' = Node(taken)' BY <1>1, <1>2, <2>1
    <2>9. \A d \in Consumers : pc'[d] = "take" => cur'[d] \notin freed'
      <3> TAKE d \in Consumers
      <3> HAVE pc'[d] = "take"
      <3>1. d # c /\ pc[d] = "take" /\ cur'[d] = cur[d] BY <1>0, <2>1
      <3>2. cur[d] # cur[c] BY <1>2, <2>1, <3>1
      <3> QED BY <1>2, <2>1, <3>1, <3>2
    <2> QED BY <2>1, <2>4, <2>5, <2>6, <2>7, <2>8, <2>9 DEF HeadInv
  <1> QED BY <1>5, <1>6, <1>7, <1>8, <1>9 DEF ConsumerStep, SwingHead, Goto

-----------------------------------------------------------------------------
(* The list and what it holds, for every step of a call                    *)

LEMMA ProducerKeepsChain ==
  ASSUME QueueTypeOK, CallInv, ChainInv, NewInv, TailInv, NEW p \in Producers, ProducerStep(p)
  PROVE  ChainInv'
  <1>1. CASE LinkNode(p) BY <1>1, LinkKeepsChain
  <1>2. CASE ~LinkNode(p)
    <2>1. UNCHANGED <<next, linked, taken>> /\ allocated' \in {allocated, allocated + 1}
      BY <1>2 DEF ProducerStep, NewNode, LoadTail, LoadTailNext, HelpTail, AdvanceTail, list, history
    <2> QED BY <2>1, ChainFrame
  <1> QED BY <1>1, <1>2

LEMMA ProducerKeepsNew ==
  ASSUME QueueTypeOK, CallInv, ChainInv, NewInv, TailInv, NEW p \in Producers, ProducerStep(p)
  PROVE  NewInv'
  <1>1. CASE NewNode(p) BY <1>1, NewNodeKeepsNew
  <1>2. CASE LinkNode(p) BY <1>2, LinkKeepsNew
  <1>3. CASE LoadTail(p) \/ LoadTailNext(p) \/ HelpTail(p) \/ AdvanceTail(p)
    <2>1. UNCHANGED <<next, linked, allocated, mine>>
      BY <1>3 DEF LoadTail, LoadTailNext, HelpTail, AdvanceTail, list, history
    <2>2. /\ \A q \in Producers : q # p => pc'[q] = pc[q]
          /\ pc'[p] \in Pending <=> pc[p] \in Pending
      BY <1>3 DEF LoadTail, LoadTailNext, HelpTail, AdvanceTail, Goto, QueueTypeOK, Threads, Pending
    <2> QED BY <2>1, <2>2, NewFrame
  <1> QED BY <1>1, <1>2, <1>3 DEF ProducerStep

(* A producer moves neither head nor a consumer.                           *)
LEMMA ProducerKeepsHead ==
  ASSUME QueueTypeOK, ChainInv, HeadInv, NEW p \in Producers, ProducerStep(p)
  PROVE  HeadInv'
  <1>1. UNCHANGED <<head, taken, freed, closing>>
    BY DEF ProducerStep, NewNode, LoadTail, LoadTailNext, LinkNode, HelpTail, AdvanceTail, list,
           history
  <1>2. SameConsumers
    <2>1. \A c \in Consumers : c # p BY ThreadsAssumption
    <2> QED BY <2>1 DEF SameConsumers, ProducerStep, NewNode, LoadTail, LoadTailNext, LinkNode, HelpTail,
                        AdvanceTail, Goto, QueueTypeOK, Threads
  <1>3. MoreNodes
    <2>1. CASE linked' = linked BY <2>1, SameNodes
    <2>2. CASE linked' = Append(linked, mine[p])
      <3>1. mine[p] \in Nodes BY DEF QueueTypeOK
      <3> QED BY <2>2, <3>1, AppendNode DEF MoreNodes
    <2> QED BY <2>1, <2>2 DEF ProducerStep, NewNode, LoadTail, LoadTailNext, LinkNode, HelpTail,
                              AdvanceTail, history
  <1> QED BY <1>1, <1>2, <1>3, HeadFrame

(* A consumer that moves head has read the node head is at, and the next.  *)
LEMMA ConsumerKeepsChain ==
  ASSUME QueueTypeOK, ChainInv, HeadInv, ClosingInv, NEW c \in Consumers, ConsumerStep(c)
  PROVE  ChainInv'
  <1>1. UNCHANGED <<next, linked, allocated>>
    BY DEF ConsumerStep, LoadHead, LoadHeadNext, SwingHead, TakeValue, list, history
  <1>2. CASE taken' = taken BY <1>1, <1>2, ChainFrame
  <1>3. CASE SwingHead(c) /\ head = cur[c] /\ taken' = taken + 1
    <2>1. pc[c] = "swing" /\ ~closing BY <1>3 DEF SwingHead, ClosingInv, Threads
    <2>2. PICK j \in 0..taken : cur[c] = Node(j) /\ j < L BY <2>1 DEF HeadInv, Follows
    <2>3. L \in Nat /\ taken \in 0..L BY DEF ChainInv, QueueTypeOK, L
    <2>4. j = taken
      <3>1. Node(j) = Node(taken) BY <1>3, <2>1, <2>2 DEF HeadInv
      <3>2. j \in 0..L BY <2>3
      <3> QED BY <2>3, <3>1, <3>2 DEF ChainInv
    <2>5. taken + 1 \in 0..L BY <2>2, <2>3, <2>4
    <2>6. L' = L /\ \A i : Node(i)' = Node(i) /\ Node(i + 1)' = Node(i + 1) BY <1>1 DEF L, Node
    <2> QED BY <1>1, <1>3, <2>5, <2>6 DEF ChainInv
  <1> QED BY <1>2, <1>3 DEF ConsumerStep, LoadHead, LoadHeadNext, SwingHead, TakeValue, history

(* A consumer moves neither tail nor a producer.                           *)
LEMMA ConsumerKeepsEnqueues ==
  ASSUME QueueTypeOK, NewInv, TailInv, NEW c \in Consumers, ConsumerStep(c)
  PROVE  NewInv' /\ TailInv'
  <1>1. UNCHANGED <<next, linked, allocated, mine, tail, lagged>>
    BY DEF ConsumerStep, LoadHead, LoadHeadNext, SwingHead, TakeValue, list, history
  <1>2. SameProducers
    <2>1. \A p \in Producers : p # c BY ThreadsAssumption
    <2> QED BY <2>1 DEF SameProducers, ConsumerStep, LoadHead, LoadHeadNext, SwingHead, TakeValue, Goto,
                        QueueTypeOK, Threads
  <1> QED BY <1>1, <1>2, NewFrame, TailFrame DEF SameProducers

-----------------------------------------------------------------------------
(* Who calls, and the destructor                                           *)

LEMMA ProducerKeepsCalls ==
  ASSUME QueueTypeOK, CallInv, NEW p \in Producers, ProducerStep(p)
  PROVE  CallInv'
  <1>0. p \in Threads /\ \A c \in Consumers : c # p BY ThreadsAssumption DEF Threads
  <1>1. /\ pc' = [pc EXCEPT ![p] = pc'[p]]
        /\ pc'[p] \in Pending \cup {"idle", "advance"}
        /\ users' = users \cup {p} \/ (users' = users /\ pc[p] # "idle")
    BY <1>0 DEF ProducerStep, NewNode, LoadTail, LoadTailNext, LinkNode, HelpTail, AdvanceTail, Goto,
                QueueTypeOK, history, Pending
  <1>2. \A t \in Threads : t # p => pc'[t] = pc[t] BY <1>0, <1>1 DEF QueueTypeOK
  <1>3. p \in users' BY <1>0, <1>1 DEF CallInv
  <1>4. users \subseteq users' BY <1>1
  <1>5. \A q \in Producers : pc'[q] \in Pending \cup {"idle", "advance"}
    BY <1>1, <1>2 DEF CallInv, Threads
  <1>6. \A c \in Consumers : pc'[c] = pc[c] BY <1>0, <1>2 DEF Threads
  <1>7. \A t \in Threads : pc'[t] # "idle" => t \in users' BY <1>2, <1>3, <1>4 DEF CallInv
  <1> QED BY <1>5, <1>6, <1>7 DEF CallInv

LEMMA ConsumerKeepsCalls ==
  ASSUME QueueTypeOK, CallInv, NEW c \in Consumers, ConsumerStep(c)
  PROVE  CallInv'
  <1>0. c \in Threads /\ \A p \in Producers : p # c BY ThreadsAssumption DEF Threads
  <1>1. /\ pc' = [pc EXCEPT ![c] = pc'[c]]
        /\ pc'[c] \in {"idle", "loadHead", "headNext", "swing", "take"}
        /\ users' = users \cup {c} \/ (users' = users /\ pc[c] # "idle")
    BY <1>0 DEF ConsumerStep, LoadHead, LoadHeadNext, SwingHead, TakeValue, Goto, QueueTypeOK, history
  <1>2. \A t \in Threads : t # c => pc'[t] = pc[t] BY <1>0, <1>1 DEF QueueTypeOK
  <1>3. c \in users' BY <1>0, <1>1 DEF CallInv
  <1>4. users \subseteq users' BY <1>1
  <1>5. \A p \in Producers : pc'[p] = pc[p] BY <1>0, <1>2 DEF Threads
  <1>6. \A d \in Consumers : pc'[d] \in {"idle", "loadHead", "headNext", "swing", "take"}
    BY <1>1, <1>2 DEF CallInv, Threads
  <1>7. \A t \in Threads : pc'[t] # "idle" => t \in users' BY <1>2, <1>3, <1>4 DEF CallInv
  <1> QED BY <1>5, <1>6, <1>7 DEF CallInv

(* No call is under way, or begins, once the destructor has started.       *)
LEMMA CallsBeforeClosing ==
  ASSUME ClosingInv, (\E p \in Producers : ProducerStep(p)) \/ \E c \in Consumers : ConsumerStep(c)
  PROVE  ~closing /\ ~closing' /\ ClosingInv'
  <1>1. ~closing
    BY DEF ClosingInv, Threads, ProducerStep, NewNode, LoadTail, LoadTailNext, LinkNode, HelpTail,
           AdvanceTail, ConsumerStep, LoadHead, LoadHeadNext, SwingHead, TakeValue
  <1>2. closing' = closing
    BY DEF ProducerStep, NewNode, LoadTail, LoadTailNext, LinkNode, HelpTail, AdvanceTail,
           ConsumerStep, LoadHead, LoadHeadNext, SwingHead, TakeValue
  <1> QED BY <1>1, <1>2 DEF ClosingInv

(* When every call has returned, the nodes that head has passed are freed. *)
LEMMA FreedBeforeHead ==
  ASSUME QueueTypeOK, ChainInv, HeadInv, ClosingInv, \A t \in Threads : pc[t] = "idle"
  PROVE  \E h \in taken..(L + 1) :
           /\ head = IF h <= L THEN Node(h) ELSE Null
           /\ freed = {Node(j) : j \in 0..(h - 1)}
  <1>1. CASE closing BY <1>1 DEF ClosingInv
  <1>2. CASE ~closing
    <2>1. taken \in 0..L /\ L \in Nat BY DEF ChainInv, QueueTypeOK, L
    <2>2. head = Node(taken) BY <1>2 DEF HeadInv
    <2>3. \A c \in Consumers : pc[c] # "take" BY DEF Threads
    <2>4. \A n \in freed : \E j \in 0..(taken - 1) : n = Node(j) BY <1>2 DEF HeadInv
    <2>5. \A j \in 0..(taken - 1) : Node(j) \in freed BY <1>2, <2>3 DEF HeadInv
    <2>6. freed = {Node(j) : j \in 0..(taken - 1)} BY <2>4, <2>5
    <2> QED BY <2>1, <2>2, <2>6
  <1> QED BY <1>1, <1>2

LEMMA DestroyKeepsClosing ==
  ASSUME QueueTypeOK, ChainInv, HeadInv, ClosingInv, DestroyNode
  PROVE  ClosingInv' /\ freed' \subseteq Nodes /\ head' \in Nodes \cup {Null}
  <1>1. PICK h \in taken..(L + 1) : /\ head = IF h <= L THEN Node(h) ELSE Null
                                    /\ freed = {Node(j) : j \in 0..(h - 1)}
    BY FreedBeforeHead DEF DestroyNode
  <1>2. taken \in 0..L /\ L \in Nat BY DEF ChainInv, QueueTypeOK, L
  <1>3. h \in 0..L /\ head = Node(h) BY <1>1, <1>2 DEF DestroyNode
  <1>4. head' = IF h < L THEN Node(h + 1) ELSE Null BY <1>3 DEF ChainInv, DestroyNode
  <1>5. freed' = freed \cup {Node(h)} BY <1>3 DEF DestroyNode, Delete
  <1>6. freed' = {Node(j) : j \in 0..h}
    <2>1. \A j : j \in 0..h <=> j \in 0..(h - 1) \/ j = h BY <1>3
    <2> QED BY <1>1, <1>5, <2>1
  <1>7. /\ L' = L /\ taken' = taken /\ linked' = linked /\ pc' = pc
        /\ \A j : Node(j)' = Node(j) /\ Node(j + 1)' = Node(j + 1)
    BY DEF DestroyNode, L, Node
  <1>8. h + 1 \in taken..(L + 1) /\ (h + 1 <= L <=> h < L) /\ (h + 1) - 1 = h BY <1>1, <1>2, <1>3
  <1>9. head' = (IF h + 1 <= L THEN Node(h + 1) ELSE Null) /\ freed' = {Node(j) : j \in 0..((h + 1) - 1)}
    BY <1>4, <1>6, <1>8
  <1>10. \E i \in taken..(L + 1) : /\ head' = IF i <= L THEN Node(i)' ELSE Null
                                   /\ freed' = {Node(j)' : j \in 0..(i - 1)}
    BY <1>7, <1>8, <1>9
  <1>11. head \in Nodes BY DEF DestroyNode, QueueTypeOK
  <1>12. freed' \subseteq Nodes /\ head' \in Nodes \cup {Null}
    BY <1>11 DEF DestroyNode, Delete, QueueTypeOK
  <1> QED BY <1>7, <1>10, <1>12 DEF ClosingInv, DestroyNode

-----------------------------------------------------------------------------
(* One producer and one consumer                                           *)

(* Under OnePair only p enqueues.                                          *)
LEMMA OneProducer ==
  ASSUME CallInv, OnePair, NEW p \in Producers, p \in users
  PROVE  \A q \in Producers : q # p => pc[q] = "idle"
  BY DEF CallInv, OnePair, Threads

LEMMA OneConsumer ==
  ASSUME CallInv, OnePair, NEW c \in Consumers, c \in users
  PROVE  \A d \in Consumers : d # c => pc[d] = "idle"
  BY DEF CallInv, OnePair, Threads

(* A pair was a pair before.                                               *)
LEMMA PairBefore ==
  ASSUME users \subseteq users', OnePair'
  PROVE  OnePair
  BY DEF OnePair

(* What head and tail of a pair point at is not freed, if tail is the last *)
(* node.                                                                   *)
LEMMA PairReadsLive ==
  ASSUME QueueTypeOK, ChainInv, TailInv, HeadInv, ~closing
  PROVE  /\ head \notin freed
         /\ ~lagged /\ (\A p \in Producers : pc[p] # "advance") => tail \notin freed
  <1>1. taken \in 0..L /\ L \in Nat BY DEF ChainInv, QueueTypeOK, L
  <1>2. \A n \in freed : \E j \in 0..(taken - 1) : n = Node(j) BY DEF HeadInv
  <1>3. ASSUME NEW i \in taken..L PROVE Node(i) \notin freed
    <2> SUFFICES ASSUME Node(i) \in freed PROVE FALSE OBVIOUS
    <2>1. PICK j \in 0..(taken - 1) : Node(i) = Node(j) BY <1>2
    <2>2. i \in 0..L /\ j \in 0..L /\ i # j BY <1>1
    <2> QED BY <2>1, <2>2 DEF ChainInv
  <1>4. head = Node(taken) /\ taken \in taken..L BY <1>1 DEF HeadInv
  <1>5. ~lagged /\ (\A p \in Producers : pc[p] # "advance") => tail = Node(L)
    <2> PICK t \in 0..L : TailAt(t) BY DEF TailInv
    <2> QED BY DEF TailAt, Linker
  <1>6. L \in taken..L BY <1>1
  <1>7. head \notin freed BY <1>3, <1>4
  <1>8. Node(L) \notin freed BY <1>3, <1>6
  <1> QED BY <1>5, <1>7, <1>8

LEMMA PairUsesNoFreed ==
  ASSUME QueueTypeOK, CallInv, ChainInv, TailInv, HeadInv, ClosingInv, PairInv, OnePair, ~lagged,
         NEW t \in Threads, UseFreed(t)
  PROVE  FALSE
  <1>0. PairReads BY DEF PairInv
  <1>1. pc[t] # "idle" BY DEF UseFreed
  <1>2. ~closing /\ t \in users BY <1>1 DEF ClosingInv, CallInv
  <1>3. CASE t \in Producers
    <2>1. pc[t] \in {"tailNext", "link"} => \A p \in Producers : pc[p] # "advance"
      BY <1>2, <1>3, OneProducer
    <2>2. pc[t] \in HoldsTail => cur[t] = tail BY <1>0, <1>3 DEF PairReads
    <2>3. pc[t] \in {"tailNext", "link"} => cur[t] \notin freed
      BY <1>2, <2>1, <2>2, PairReadsLive DEF HoldsTail
    <2>4. pc[t] \notin {"headNext", "swing", "take"} BY <1>3 DEF CallInv, Pending
    <2> QED BY <2>2, <2>3, <2>4 DEF UseFreed, HoldsTail
  <1>4. CASE t \in Consumers
    <2>1. /\ pc[t] \in {"headNext", "swing"} => cur[t] \notin freed
          /\ pc[t] = "take" => nxt[t] \notin freed
      BY <1>0, <1>2, <1>4, PairReadsLive DEF PairReads
    <2>2. pc[t] \notin {"tailNext", "link", "help", "advance"} BY <1>4 DEF CallInv
    <2> QED BY <2>1, <2>2 DEF UseFreed
  <1> QED BY <1>3, <1>4 DEF Threads

(* The one producer has read tail, and sees by next whether it is behind.  *)
LEMMA PairSeesTail ==
  ASSUME QueueTypeOK, ChainInv, TailInv, NEW p \in Producers, pc[p] = "tailNext", cur[p] = tail,
         \A q \in Producers : q # p => pc[q] = "idle"
  PROVE  next[cur[p]] = Null <=> ~lagged
  <1> PICK t \in 0..L : TailAt(t) BY DEF TailInv
  <1>1. linked \in Seq(Nodes) /\ L \in Nat BY DEF QueueTypeOK, L
  <1>2. cur[p] = Node(t) BY DEF TailAt
  <1>3. \A q \in Producers : ~Linker(q) BY DEF Linker
  <1>4. lagged <=> t < L BY <1>1, <1>3 DEF TailAt
  <1>5. next[cur[p]] = IF t < L THEN Node(t + 1) ELSE Null BY <1>2 DEF ChainInv
  <1>6. t < L => Node(t + 1) \in Nat BY <1>1, NodesAssumption DEF Node, L, Nodes
  <1> QED BY <1>4, <1>5, <1>6, NullAssumption

LEMMA ProducerKeepsPair ==
  ASSUME QueueTypeOK, CallInv, ChainInv, NewInv, TailInv, ClosingInv, PairInv, ~broken,
         NEW p \in Producers, ProducerStep(p)
  PROVE  PairInv'
  <1> SUFFICES ASSUME OnePair' PROVE PairInv' BY DEF PairInv
  <1>0. p \in Threads /\ (\A c \in Consumers : c # p) BY ThreadsAssumption DEF Threads
  <1>1. PairReads
    <2>1. users \subseteq users'
      BY DEF ProducerStep, NewNode, LoadTail, LoadTailNext, LinkNode, HelpTail, AdvanceTail, history
    <2> QED BY <2>1, PairBefore DEF PairInv
  <1>2. \A q \in Producers : q # p => pc[q] = "idle" /\ pc'[q] = "idle"
    <2>1. CallInv' BY ProducerKeepsCalls
    <2>2. p \in users'
      BY <1>0 DEF ProducerStep, NewNode, LoadTail, LoadTailNext, LinkNode, HelpTail, AdvanceTail,
                  CallInv, history
    <2>3. \A q \in Producers : q # p => pc'[q] = "idle" BY <2>1, <2>2 DEF CallInv, OnePair, Threads
    <2>4. \A q \in Producers : q # p => pc'[q] = pc[q]
      BY DEF ProducerStep, NewNode, LoadTail, LoadTailNext, LinkNode, HelpTail, AdvanceTail, Goto,
             QueueTypeOK, Threads
    <2> QED BY <2>3, <2>4
  <1>3. /\ ~broken' /\ UNCHANGED <<head, closing>>
        /\ \A c \in Consumers : pc'[c] = pc[c] /\ cur'[c] = cur[c] /\ nxt'[c] = nxt[c]
    <2>2. UNCHANGED <<head, closing>> /\ broken' = broken
      BY DEF ProducerStep, NewNode, LoadTail, LoadTailNext, LinkNode, HelpTail, AdvanceTail, list
    <2>3. \A c \in Consumers : pc'[c] = pc[c] /\ cur'[c] = cur[c] /\ nxt'[c] = nxt[c]
      BY <1>0 DEF ProducerStep, NewNode, LoadTail, LoadTailNext, LinkNode, HelpTail, AdvanceTail, Goto,
                  QueueTypeOK, Threads
    <2> QED BY <2>2, <2>3
  <1>4. ASSUME pc'[p] \in HoldsTail => cur'[p] = tail', pc'[p] = "help" => lagged',
               pc'[p] \in {"link", "advance"} => ~lagged', pc'[p] = "advance" => mine'[p] = Node(L)'
        PROVE  PairInv'
    <2>1. \A q \in Producers :
            /\ pc'[q] \in HoldsTail => cur'[q] = tail'
            /\ pc'[q] = "help" => lagged'
            /\ pc'[q] \in {"link", "advance"} => ~lagged'
            /\ pc'[q] = "advance" => mine'[q] = Node(L)'
      <3> TAKE q \in Producers
      <3>1. CASE q = p BY <1>4, <3>1
      <3>2. CASE q # p BY <1>2, <3>2 DEF HoldsTail
      <3> QED BY <3>1, <3>2
    <2>2. ~closing' => \A c \in Consumers : /\ pc'[c] \in {"headNext", "swing"} => cur'[c] = head'
                                            /\ pc'[c] = "take" => nxt'[c] = head'
      BY <1>1, <1>3 DEF PairReads
    <2>3. PairReads' BY <2>1, <2>2 DEF PairReads
    <2> QED BY <1>3, <2>3 DEF PairInv
  <1>7. /\ pc[p] \in HoldsTail => cur[p] = tail
        /\ pc[p] \in {"link", "advance"} => ~lagged
    BY <1>1 DEF PairReads
  <1>8. CASE NewNode(p)
    <2>1. pc'[p] = "loadTail" BY <1>0, <1>8 DEF NewNode, Goto, QueueTypeOK
    <2> QED BY <1>4, <2>1 DEF HoldsTail
  <1>9. CASE LoadTail(p)
    <2>1. pc'[p] = "tailNext" /\ cur'[p] = tail /\ tail' = tail
      BY <1>0, <1>9 DEF LoadTail, Goto, QueueTypeOK, list
    <2> QED BY <1>4, <2>1
  <1>10. CASE LoadTailNext(p)
    <2>1. pc[p] = "tailNext" /\ cur'[p] = cur[p] /\ tail' = tail /\ lagged' = lagged
          /\ pc'[p] = IF next[cur[p]] = Null THEN "link" ELSE "help"
      BY <1>0, <1>10 DEF LoadTailNext, Goto, QueueTypeOK, list, history
    <2>2. cur[p] = tail BY <1>7, <2>1 DEF HoldsTail
    <2>3. next[cur[p]] = Null <=> ~lagged BY <1>2, <2>1, <2>2, PairSeesTail
    <2> QED BY <1>4, <2>1, <2>2, <2>3
  <1>11. CASE LinkNode(p)
    <2>1. pc[p] = "link" /\ UNCHANGED <<cur, mine, tail, lagged>> BY <1>11 DEF LinkNode
    <2>2. CASE pc' = [pc EXCEPT ![p] = "loadTail"] /\ linked' = linked
      <3>1. pc'[p] = "loadTail" BY <1>0, <2>2 DEF QueueTypeOK
      <3> QED BY <1>4, <3>1 DEF HoldsTail
    <2>3. CASE pc' = [pc EXCEPT ![p] = "advance"] /\ linked' = Append(linked, mine[p])
      <3>1. pc'[p] = "advance" BY <1>0, <2>3 DEF QueueTypeOK
      <3>2. mine[p] \in Nodes BY DEF QueueTypeOK
      <3>3. Node(L)' = mine[p] BY <2>3, <3>2, AppendNode
      <3>4. cur[p] = tail /\ ~lagged BY <1>7, <2>1 DEF HoldsTail
      <3> QED BY <1>4, <2>1, <3>1, <3>3, <3>4
    <2> QED BY <1>11, <2>2, <2>3 DEF LinkNode, Goto
  <1>12. CASE HelpTail(p) \/ AdvanceTail(p)
    <2>1. pc'[p] \in {"loadTail", "idle"}
      BY <1>0, <1>12 DEF HelpTail, AdvanceTail, Goto, QueueTypeOK
    <2> QED BY <1>4, <2>1 DEF HoldsTail
  <1> QED BY <1>8, <1>9, <1>10, <1>11, <1>12 DEF ProducerStep

LEMMA ConsumerKeepsPair ==
  ASSUME QueueTypeOK, CallInv, ChainInv, HeadInv, ClosingInv, PairInv, ~broken,
         NEW c \in Consumers, ConsumerStep(c)
  PROVE  PairInv'
  <1> SUFFICES ASSUME OnePair' PROVE PairInv' BY DEF PairInv
  <1>0. c \in Threads /\ (\A p \in Producers : p # c) BY ThreadsAssumption DEF Threads
  <1>1. PairReads
    <2>1. users \subseteq users'
      BY DEF ConsumerStep, LoadHead, LoadHeadNext, SwingHead, TakeValue, history
    <2> QED BY <2>1, PairBefore DEF PairInv
  <1>2. \A d \in Consumers : d # c => pc'[d] = "idle"
    <2>1. CallInv' BY ConsumerKeepsCalls
    <2>2. c \in users'
      BY <1>0 DEF ConsumerStep, LoadHead, LoadHeadNext, SwingHead, TakeValue, CallInv, history
    <2> QED BY <2>1, <2>2 DEF CallInv, OnePair, Threads
  <1>3. /\ ~broken' /\ UNCHANGED <<tail, mine, lagged>> /\ Node(L)' = Node(L)
        /\ \A p \in Producers : pc'[p] = pc[p] /\ cur'[p] = cur[p] /\ nxt'[p] = nxt[p]
    <2>2. UNCHANGED <<tail, mine, linked, lagged>> /\ broken' = broken
      BY DEF ConsumerStep, LoadHead, LoadHeadNext, SwingHead, TakeValue, list, history
    <2>3. \A p \in Producers : pc'[p] = pc[p] /\ cur'[p] = cur[p] /\ nxt'[p] = nxt[p]
      BY <1>0 DEF ConsumerStep, LoadHead, LoadHeadNext, SwingHead, TakeValue, Goto, QueueTypeOK, Threads
    <2> QED BY <2>2, <2>3 DEF Node, L
  <1>4. ~closing BY <1>0, CallsBeforeClosing
  <1>5. /\ pc[c] \in {"headNext", "swing"} => cur[c] = head
        /\ pc[c] = "take" => nxt[c] = head
    BY <1>1, <1>4 DEF PairReads
  <1>6. /\ pc'[c] \in {"headNext", "swing"} => cur'[c] = head'
        /\ pc'[c] = "take" => nxt'[c] = head'
    <2>1. CASE LoadHead(c) BY <1>0, <2>1 DEF LoadHead, Goto, QueueTypeOK, list
    <2>2. CASE LoadHeadNext(c) BY <1>0, <1>5, <2>2 DEF LoadHeadNext, Goto, QueueTypeOK, list
    <2>3. CASE SwingHead(c) BY <1>0, <1>5, <2>3 DEF SwingHead, Goto, QueueTypeOK
    <2>4. CASE TakeValue(c) BY <1>0, <1>5, <2>4 DEF TakeValue, Goto, QueueTypeOK
    <2> QED BY <2>1, <2>2, <2>3, <2>4 DEF ConsumerStep
  <1>7. \A p \in Producers :
          /\ pc'[p] \in HoldsTail => cur'[p] = tail'
          /\ pc'[p] = "help" => lagged'
          /\ pc'[p] \in {"link", "advance"} => ~lagged'
          /\ pc'[p] = "advance" => mine'[p] = Node(L)'
    BY <1>1, <1>3 DEF PairReads
  <1>8. \A d \in Consumers : /\ pc'[d] \in {"headNext", "swing"} => cur'[d] = head'
                             /\ pc'[d] = "take" => nxt'[d] = head'
    BY <1>2, <1>6
  <1>9. PairReads' BY <1>7, <1>8 DEF PairReads
  <1> QED BY <1>3, <1>9 DEF PairInv

(* A dequeue deletes the node it left; nobody else does.                   *)
LEMMA FreesOnce ==
  ASSUME QueueTypeOK, ChainInv, HeadInv, ClosingInv, FreedOnce,
         \/ \E p \in Producers : ProducerStep(p)
         \/ \E c \in Consumers : ConsumerStep(c)
         \/ DestroyNode
  PROVE  FreedOnce'
  <1>1. CASE \E p \in Producers : ProducerStep(p)
    <2>1. twice' = twice
      BY <1>1 DEF ProducerStep, NewNode, LoadTail, LoadTailNext, LinkNode, HelpTail, AdvanceTail, history
    <2> QED BY <2>1 DEF FreedOnce
  <1>2. CASE \E c \in Consumers : ConsumerStep(c)
    <2> PICK c \in Consumers : ConsumerStep(c) BY <1>2
    <2>1. CASE TakeValue(c)
      <3>1. pc[c] = "take" /\ ~closing BY <2>1 DEF TakeValue, ClosingInv, Threads
      <3>2. cur[c] \notin freed BY <3>1 DEF HeadInv
      <3> QED BY <2>1, <3>2 DEF TakeValue, Delete, FreedOnce
    <2>2. CASE ~TakeValue(c)
      <3>1. twice' = twice BY <2>2 DEF ConsumerStep, LoadHead, LoadHeadNext, SwingHead, history
      <3> QED BY <3>1 DEF FreedOnce
    <2> QED BY <2>1, <2>2
  <1>3. CASE DestroyNode
    <2>1. PICK h \in taken..(L + 1) : /\ head = IF h <= L THEN Node(h) ELSE Null
                                      /\ freed = {Node(j) : j \in 0..(h - 1)}
      BY <1>3, FreedBeforeHead DEF DestroyNode
    <2>2. taken \in 0..L /\ L \in Nat BY DEF ChainInv, QueueTypeOK, L
    <2>3. h \in 0..L /\ head = Node(h) BY <1>3, <2>1, <2>2 DEF DestroyNode
    <2>4. head \notin freed
      <3> SUFFICES ASSUME head \in freed PROVE FALSE OBVIOUS
      <3>1. PICK j \in 0..(h - 1) : Node(h) = Node(j) BY <2>1, <2>3
      <3>2. j \in 0..L /\ j # h BY <2>2, <2>3
      <3> QED BY <2>3, <3>1, <3>2 DEF ChainInv
    <2> QED BY <1>3, <2>4 DEF DestroyNode, Delete, FreedOnce
  <1> QED BY <1>1, <1>2, <1>3

-----------------------------------------------------------------------------
(* The invariant                                                           *)

LEMMA InitHolds == Init => IInv
  <1> SUFFICES ASSUME Init PROVE IInv OBVIOUS
  <1> USE NodesAssumption, NullAssumption
  <1>1. QueueTypeOK
    <2>1. linked \in Seq(Nodes) BY DEF Init
    <2>2. 0 \in Nodes BY DEF Nodes
    <2> QED BY <2>1, <2>2 DEF Init, QueueTypeOK, PC
  <1>2. L = 0 /\ Node(0) = 0 /\ 0 \in Nodes BY DEF Init, L, Node, Nodes
  <1>3. \A i \in 0..L : i = 0 BY <1>2
  <1>4. CallInv BY DEF Init, CallInv, Threads, Pending
  <1>5. ChainInv BY <1>2, <1>3 DEF Init, ChainInv
  <1>6. NewInv
    <2>1. \A p \in Producers : pc[p] \notin Pending BY DEF Init, Threads, Pending
    <2>2. \A n \in 1..allocated : FALSE BY DEF Init
    <2>3. \A n \in Nodes : next[n] = Null BY DEF Init
    <2> QED BY <2>1, <2>2, <2>3 DEF NewInv
  <1>7. TailInv
    <2>1. \A p \in Producers : Behind(p, 0) BY DEF Init, Threads, Behind, HoldsTail
    <2>2. tail = Node(0) /\ 0 \in 0..L /\ ~lagged BY <1>2 DEF Init
    <2> QED BY <1>2, <2>1, <2>2 DEF TailInv, TailAt
  <1>8. HeadInv
    <2>1. \A c \in Consumers : Follows(c) /\ pc[c] # "take" BY DEF Init, Threads, Follows
    <2>2. head = Node(taken) /\ freed = {} /\ \A j \in 0..(taken - 1) : FALSE BY <1>2 DEF Init
    <2> QED BY <2>1, <2>2 DEF HeadInv
  <1>9. ClosingInv BY DEF Init, ClosingInv
  <1>10. PairInv
    <2>1. ~broken BY DEF Init
    <2>2. \A t \in Threads : pc[t] = "idle" BY DEF Init
    <2>3. PairReads BY <2>2 DEF PairReads, HoldsTail, Threads
    <2> QED BY <2>1, <2>3 DEF PairInv
  <1>11. FreedOnce BY DEF Init, FreedOnce
  <1> QED BY <1>1, <1>4, <1>5, <1>6, <1>7, <1>8, <1>9, <1>10, <1>11 DEF IInv

LEMMA ProducerHolds ==
  ASSUME IInv, ~broken, NEW p \in Producers, ProducerStep(p)
  PROVE  IInv'
  <1>1. QueueTypeOK' BY ProducerKeepsTypes DEF IInv
  <1>2. CallInv' BY ProducerKeepsCalls DEF IInv
  <1>3. ChainInv' BY ProducerKeepsChain DEF IInv
  <1>4. NewInv' BY ProducerKeepsNew DEF IInv
  <1>5. TailInv' BY ProducerKeepsTail DEF IInv
  <1>6. HeadInv' BY ProducerKeepsHead DEF IInv
  <1>7. ClosingInv' BY CallsBeforeClosing DEF IInv
  <1>8. PairInv' BY ProducerKeepsPair DEF IInv
  <1>9. FreedOnce' BY FreesOnce DEF IInv
  <1> QED BY <1>1, <1>2, <1>3, <1>4, <1>5, <1>6, <1>7, <1>8, <1>9 DEF IInv

LEMMA ConsumerHolds ==
  ASSUME IInv, ~broken, NEW c \in Consumers, ConsumerStep(c)
  PROVE  IInv'
  <1>1. QueueTypeOK' BY ConsumerKeepsTypes DEF IInv
  <1>2. CallInv' BY ConsumerKeepsCalls DEF IInv
  <1>3. ChainInv' BY ConsumerKeepsChain DEF IInv
  <1>4. NewInv' /\ TailInv' BY ConsumerKeepsEnqueues DEF IInv
  <1>5. HeadInv' BY ConsumerKeepsHead DEF IInv
  <1>6. ClosingInv' BY CallsBeforeClosing DEF IInv
  <1>7. PairInv' BY ConsumerKeepsPair DEF IInv
  <1>8. FreedOnce' BY FreesOnce DEF IInv
  <1> QED BY <1>1, <1>2, <1>3, <1>4, <1>5, <1>6, <1>7, <1>8 DEF IInv

LEMMA UseFreedHolds ==
  ASSUME IInv, NEW t \in Threads, UseFreed(t)
  PROVE  IInv'
  <1>1. /\ UNCHANGED <<next, head, tail, allocated, freed, pc, cur, nxt, mine, result, closing,
                       twice, linked, taken, users, lagged>>
        /\ broken' = TRUE
    BY DEF UseFreed, list, history
  <1>2. QueueTypeOK' BY <1>1 DEF IInv, QueueTypeOK
  <1>3. CallInv' BY <1>1 DEF IInv, CallInv
  <1>4. ChainInv' BY <1>1, ChainFrame DEF IInv
  <1>5. NewInv' BY <1>1, NewFrame DEF IInv
  <1>6. TailInv' BY <1>1, TailFrame DEF IInv, SameProducers
  <1>7. HeadInv' BY <1>1, HeadFrame, SameNodes DEF IInv, SameConsumers
  <1>8. ClosingInv' BY <1>1 DEF IInv, ClosingInv, L, Node
  <1>9. PairInv'
    <2>1. OnePair' => OnePair BY <1>1 DEF OnePair
    <2>2. OnePair => lagged BY PairUsesNoFreed DEF IInv
    <2>3. PairReads => PairReads' BY <1>1 DEF PairReads, Node, L
    <2> QED BY <1>1, <2>1, <2>2, <2>3 DEF IInv, PairInv
  <1>10. FreedOnce' BY <1>1 DEF IInv, FreedOnce
  <1> QED BY <1>2, <1>3, <1>4, <1>5, <1>6, <1>7, <1>8, <1>9, <1>10 DEF IInv

LEMMA DestroyHolds ==
  ASSUME IInv, DestroyNode
  PROVE  IInv'
  <1>1. /\ UNCHANGED <<next, tail, allocated, pc, cur, nxt, mine, result, broken,
                       linked, taken, users, lagged>>
        /\ closing' = TRUE /\ \A t \in Threads : pc[t] = "idle"
    BY DEF DestroyNode
  <1>2. ClosingInv' /\ freed' \subseteq Nodes /\ head' \in Nodes \cup {Null} BY DestroyKeepsClosing DEF IInv
  <1>10. FreedOnce' BY FreesOnce DEF IInv
  <1>11. twice' \in BOOLEAN BY DEF DestroyNode, Delete
  <1>3. QueueTypeOK' BY <1>1, <1>2, <1>11 DEF IInv, QueueTypeOK
  <1>4. CallInv' BY <1>1 DEF IInv, CallInv
  <1>5. ChainInv' BY <1>1, ChainFrame DEF IInv
  <1>6. NewInv' BY <1>1, NewFrame DEF IInv
  <1>7. TailInv' BY <1>1, TailFrame DEF IInv, SameProducers
  <1>8. HeadInv' BY <1>1 DEF HeadInv
  <1>9. PairInv'
    <2>1. OnePair' => OnePair BY <1>1 DEF OnePair
    <2>2. Node(L)' = Node(L) BY <1>1 DEF Node, L
    <2>3. PairReads => PairReads' BY <1>1, <2>2 DEF PairReads
    <2> QED BY <1>1, <2>1, <2>3 DEF IInv, PairInv
  <1> QED BY <1>2, <1>3, <1>4, <1>5, <1>6, <1>7, <1>8, <1>9, <1>10 DEF IInv

LEMMA StutterHolds ==
  ASSUME IInv, UNCHANGED vars
  PROVE  IInv'
  <1>1. QueueTypeOK' BY DEF IInv, QueueTypeOK, vars
  <1>2. CallInv' BY DEF IInv, CallInv, vars
  <1>3. ChainInv' BY ChainFrame DEF IInv, vars
  <1>4. NewInv' BY NewFrame DEF IInv, vars
  <1>5. TailInv' BY TailFrame DEF IInv, SameProducers, vars
  <1>6. HeadInv' BY HeadFrame, SameNodes DEF IInv, SameConsumers, vars
  <1>7. ClosingInv' BY DEF IInv, ClosingInv, L, Node, vars
  <1>8. PairInv' BY DEF IInv, PairInv, PairReads, OnePair, L, Node, vars
  <1>9. FreedOnce' BY DEF IInv, FreedOnce, vars
  <1> QED BY <1>1, <1>2, <1>3, <1>4, <1>5, <1>6, <1>7, <1>8, <1>9 DEF IInv

LEMMA StepHolds == IInv /\ [Next]_vars => IInv'
  <1> SUFFICES ASSUME IInv, [Next]_vars PROVE IInv' OBVIOUS
  <1>1. CASE ~broken /\ \E p \in Producers : ProducerStep(p) BY <1>1, ProducerHolds
  <1>2. CASE ~broken /\ \E c \in Consumers : ConsumerStep(c) BY <1>2, ConsumerHolds
  <1>3. CASE \E t \in Threads : UseFreed(t) BY <1>3, UseFreedHolds
  <1>4. CASE DestroyNode BY <1>4, DestroyHolds
  <1>5. CASE UNCHANGED vars BY <1>5, StutterHolds
  <1> QED BY <1>1, <1>2, <1>3, <1>4, <1>5 DEF Next, ProducerStep, ConsumerStep

(* The invariant holds of every behaviour.                                 *)
THEOREM IInvHolds == Spec => []IInv
  BY InitHolds, StepHolds, PTL DEF Spec

-----------------------------------------------------------------------------
(* What follows                                                            *)

(* enqueue, dequeue and the destructor never reach outside of the nodes    *)
(* they made: each pointer is a node or null where it may be null.         *)
THEOREM QueueTypeCorrect == Spec => []QueueTypeOK
  <1>1. IInv => QueueTypeOK BY DEF IInv
  <1> QED BY <1>1, IInvHolds, PTL

(* Between one producer and one consumer a freed node is read or compared  *)
(* with in one case only: by an enqueue that finds tail where the one      *)
(* before left it, whose last compare_exchange_weak failed without cause.  *)
THEOREM PairSafe == Spec => []SafeForOnePair
  <1>1. IInv => SafeForOnePair BY DEF IInv, PairInv, SafeForOnePair
  <1> QED BY <1>1, IInvHolds, PTL

(* Where compare_exchange_weak does not fail without cause, as on x86, one *)
(* producer and one consumer never use a freed node.                       *)
THEOREM StrongPairSafe ==
  ASSUME ~WeakFailures PROVE Spec => [](OnePair => ~broken)
  <1>1. ASSUME IInv PROVE OnePair => ~broken
    <2> PICK t \in 0..L : TailAt(t) BY <1>1 DEF IInv, TailInv
    <2>1. ~lagged BY DEF TailAt
    <2> QED BY <1>1, <2>1 DEF IInv, PairInv
  <1>2. IInv => (OnePair => ~broken) BY <1>1
  <1> QED BY <1>2, IInvHolds, PTL

(* Once every call has returned empty() is right, for any number of        *)
(* threads, unless tail is where a failed exchange left it: then it is     *)
(* wrong exactly when the queue holds one value or none.                   *)
THEOREM EmptyIsExact == Spec => []EmptyExact
  <1>1. ASSUME IInv PROVE EmptyExact
    <2> SUFFICES ASSUME ~closing, \A t \in Threads : pc[t] = "idle"
                 PROVE  Empty <=> taken = IF lagged THEN L - 1 ELSE L
      BY DEF EmptyExact, L
    <2> PICK t \in 0..L : TailAt(t) BY <1>1 DEF IInv, TailInv
    <2>1. \A p \in Producers : ~Linker(p) BY DEF Linker, Threads
    <2>2. L \in Nat /\ taken \in 0..L BY <1>1 DEF IInv, ChainInv, QueueTypeOK, L
    <2>3. tail = Node(t) /\ t = IF lagged THEN L - 1 ELSE L BY <2>1, <2>2 DEF TailAt
    <2>4. head = Node(taken) BY <1>1 DEF IInv, HeadInv
    <2>5. Node(taken) = Node(t) => taken = t BY <1>1, <2>2 DEF IInv, ChainInv
    <2> QED BY <2>3, <2>4, <2>5 DEF Empty
  <1>2. IInv => EmptyExact BY <1>1
  <1> QED BY <1>2, IInvHolds, PTL

(* No node is deleted twice: the dequeues delete different nodes, each     *)
(* before the one head is at, and the destructor those from head on.       *)
THEOREM NoDoubleFree == Spec => []FreedOnce
  <1>1. IInv => FreedOnce BY DEF IInv
  <1> QED BY <1>1, IInvHolds, PTL

(* The destructor walks the whole list: when head is null every node that  *)
(* was ever allocated is freed, by a dequeue or by the destructor.         *)
THEOREM DestructorFreesAll == Spec => []AllNodesFreed
  <1>1. ASSUME IInv PROVE AllNodesFreed
    <2> SUFFICES ASSUME head = Null PROVE freed = 0..allocated BY DEF AllNodesFreed
    <2>1. L \in Nat /\ taken \in 0..L /\ allocated \in Nat /\ \A i \in 0..L : Node(i) \in 0..allocated
      BY <1>1, NodesAssumption DEF IInv, ChainInv, QueueTypeOK, L, Node, Nodes
    <2>2. \A i \in 0..L : Node(i) # Null BY <2>1, NullAssumption
    <2>3. closing BY <1>1, <2>1, <2>2 DEF IInv, HeadInv
    <2>4. PICK h \in taken..(L + 1) : /\ head = IF h <= L THEN Node(h) ELSE Null
                                      /\ freed = {Node(j) : j \in 0..(h - 1)}
      BY <1>1, <2>3 DEF IInv, ClosingInv
    <2>5. h \in 0..L \/ h = L + 1 BY <2>1
    <2>6. h - 1 = L BY <2>1, <2>2, <2>4, <2>5
    <2>7. freed = {Node(j) : j \in 0..L} BY <2>4, <2>6
    <2>8. \A p \in Producers : pc[p] \notin Pending BY <1>1, <2>3 DEF IInv, ClosingInv, Threads, Pending
    <2>9. \A n \in 1..allocated : \E i \in 1..L : linked[i] = n BY <1>1, <2>8 DEF IInv, NewInv
    <2>10. ASSUME NEW n \in 0..allocated PROVE \E i \in 0..L : Node(i) = n
      <3>1. CASE n = 0 BY <2>1, <3>1 DEF Node
      <3>2. CASE n \in 1..allocated
        <4>1. PICK i \in 1..L : linked[i] = n BY <2>9, <3>2
        <4>2. i \in 0..L /\ Node(i) = n BY <4>1 DEF Node
        <4> QED BY <4>2
      <3> QED BY <2>1, <3>1, <3>2
    <2> QED BY <2>1, <2>7, <2>10
  <1>2. IInv => AllNodesFreed BY <1>1
  <1> QED BY <1>2, IInvHolds, PTL

-----------------------------------------------------------------------------
(* The list implements the queue it promises                               *)

(* What the abstract queue holds, and what its dequeues have returned.     *)
Waiting  == SubSeq(linked, taken + 1, Len(linked))
Returned == [c \in Consumers |-> IF pc[c] = "take" THEN nxt[c] ELSE result[c]]

(* A link appends to what waits; a step of head takes the first of it.     *)
LEMMA AppendWaiting ==
  ASSUME NEW S, NEW s \in Seq(S), NEW e \in S, NEW k \in 0..Len(s)
  PROVE  SubSeq(Append(s, e), k + 1, Len(s) + 1) = Append(SubSeq(s, k + 1, Len(s)), e)
  <1> DEFINE a == SubSeq(Append(s, e), k + 1, Len(s) + 1)
             b == SubSeq(s, k + 1, Len(s))
  <1>1. Len(s) \in Nat /\ k \in Nat OBVIOUS
  <1>2. /\ Append(s, e) \in Seq(S) /\ Len(Append(s, e)) = Len(s) + 1
        /\ \A i \in 1..Len(s) : Append(s, e)[i] = s[i]
        /\ Append(s, e)[Len(s) + 1] = e
    BY AppendProperties
  <1>3. \A i \in (k + 1)..(Len(s) + 1) : Append(s, e)[i] \in S
    <2> TAKE i \in (k + 1)..(Len(s) + 1)
    <2>1. i \in 1..Len(s) \/ i = Len(s) + 1 BY <1>1
    <2> QED BY <1>2, <2>1
  <1>4. /\ a \in Seq(S) /\ Len(a) = (Len(s) + 1) - (k + 1) + 1
        /\ \A i \in 1..((Len(s) + 1) - (k + 1) + 1) : a[i] = Append(s, e)[k + 1 + i - 1]
    <2>1. k + 1 \in Int /\ Len(s) + 1 \in Int /\ k + 1 <= Len(s) + 1 BY <1>1
    <2> QED BY <1>3, <2>1, SubSeqProperties
  <1>5. /\ b \in Seq(S) /\ Len(b) = Len(s) - k
        /\ \A i \in 1..(Len(s) - k) : b[i] = s[k + 1 + i - 1]
    <2>1. k + 1 \in Int /\ Len(s) \in Int /\ \A i \in (k + 1)..Len(s) : s[i] \in S BY <1>1
    <2>2. /\ b \in Seq(S) /\ Len(b) = IF k + 1 <= Len(s) THEN Len(s) - (k + 1) + 1 ELSE 0
          /\ \A i \in 1..(Len(s) - (k + 1) + 1) : b[i] = s[k + 1 + i - 1]
      BY <2>1, SubSeqProperties
    <2>3. Len(s) - (k + 1) + 1 = Len(s) - k /\ (~(k + 1 <= Len(s)) => Len(s) - k = 0) BY <1>1
    <2> QED BY <2>2, <2>3
  <1> HIDE DEF a, b
  <1>6. /\ Append(b, e) \in Seq(S) /\ Len(Append(b, e)) = Len(b) + 1
        /\ \A i \in 1..Len(b) : Append(b, e)[i] = b[i]
        /\ Append(b, e)[Len(b) + 1] = e
    BY <1>5, AppendProperties
  <1>7. Len(a) = Len(Append(b, e)) BY <1>1, <1>4, <1>5, <1>6
  <1>8. \A i \in 1..Len(a) : a[i] = Append(b, e)[i]
    <2> TAKE i \in 1..Len(a)
    <2>1. a[i] = Append(s, e)[k + i] BY <1>1, <1>4
    <2>2. CASE i \in 1..Len(b)
      <3>1. k + i \in 1..Len(s) /\ k + 1 + i - 1 = k + i BY <1>1, <1>5, <2>2
      <3>2. b[i] = s[k + i] BY <1>5, <2>2, <3>1
      <3> QED BY <1>2, <1>6, <2>1, <2>2, <3>1, <3>2
    <2>3. CASE i = Len(b) + 1
      <3>1. k + i = Len(s) + 1 BY <1>1, <1>5, <2>3
      <3> QED BY <1>2, <1>6, <2>1, <2>3, <3>1
    <2>4. Len(b) \in Nat /\ Len(a) = Len(b) + 1 BY <1>5, <1>6, <1>7
    <2>5. i \in 1..Len(b) \/ i = Len(b) + 1 BY <2>4
    <2> QED BY <2>2, <2>3, <2>5
  <1>9. a = Append(b, e) BY <1>4, <1>6, <1>7, <1>8, SeqEqual
  <1> QED BY <1>9 DEF a, b

LEMMA InitImplements == Init => Fifo!Init
  <1> SUFFICES ASSUME Init PROVE Fifo!Init OBVIOUS
  <1>1. Waiting = <<>>
    <2>1. taken + 1 \in Int /\ Len(linked) \in Int /\ Len(linked) < taken + 1 BY DEF Init
    <2> QED BY <2>1, SubSeqEmpty DEF Waiting
  <1>2. Returned = [c \in Consumers |-> Null] BY DEF Init, Returned, Threads
  <1> QED BY <1>1, <1>2 DEF Fifo!Init, Waiting, Returned

LEMMA ProducerImplements ==
  ASSUME IInv, NEW p \in Producers, ProducerStep(p)
  PROVE  (\E v \in Nodes : Fifo!Enqueue(v)) \/ UNCHANGED <<Waiting, Returned>>
  <1>1. \A c \in Consumers : c # p BY ThreadsAssumption
  <1>2. result' = result /\ taken' = taken
    BY DEF ProducerStep, NewNode, LoadTail, LoadTailNext, LinkNode, HelpTail, AdvanceTail, history
  <1>3. \A c \in Consumers : pc'[c] = pc[c] /\ nxt'[c] = nxt[c]
    BY <1>1 DEF ProducerStep, NewNode, LoadTail, LoadTailNext, LinkNode, HelpTail, AdvanceTail, Goto, IInv,
                QueueTypeOK, Threads
  <1>4. Returned' = Returned BY <1>2, <1>3 DEF Returned
  <1>5. CASE linked' = linked BY <1>2, <1>4, <1>5 DEF Waiting
  <1>6. CASE linked' = Append(linked, mine[p])
    <2>1. linked \in Seq(Nodes) /\ mine[p] \in Nodes /\ taken \in 0..Len(linked)
      BY DEF IInv, QueueTypeOK, ChainInv, L
    <2>2. Len(linked') = Len(linked) + 1 BY <1>6, <2>1
    <2>3. Waiting' = Append(Waiting, mine[p]) BY <1>2, <1>6, <2>1, <2>2, AppendWaiting DEF Waiting
    <2>4. Fifo!Enqueue(mine[p]) BY <1>4, <2>3 DEF Fifo!Enqueue, Waiting, Returned
    <2> QED BY <2>1, <2>4
  <1> QED BY <1>5, <1>6 DEF ProducerStep, NewNode, LoadTail, LoadTailNext, LinkNode, HelpTail,
                            AdvanceTail, history

LEMMA ConsumerImplements ==
  ASSUME IInv, NEW c \in Consumers, ConsumerStep(c)
  PROVE  Fifo!Dequeue(c) \/ Fifo!DequeueNothing(c) \/ UNCHANGED <<Waiting, Returned>>
  <1>0. /\ linked' = linked /\ ~closing /\ c \in Threads
        /\ linked \in Seq(Nodes) /\ taken \in 0..L /\ L \in Nat
        /\ \A i, j \in 0..L : Node(i) = Node(j) => i = j
    <2>1. linked' = linked BY DEF ConsumerStep, LoadHead, LoadHeadNext, SwingHead, TakeValue, history
    <2>2. ~closing BY CallsBeforeClosing DEF IInv
    <2> QED BY <2>1, <2>2 DEF IInv, QueueTypeOK, ChainInv, L, Threads
  <1>1. \A d \in Consumers : d # c => Returned'[d] = Returned[d]
    BY DEF ConsumerStep, LoadHead, LoadHeadNext, SwingHead, TakeValue, Goto, IInv, QueueTypeOK, Threads,
           Returned
  <1>2. ASSUME Returned'[c] = Returned[c] PROVE Returned' = Returned BY <1>1, <1>2 DEF Returned
  <1>3. ASSUME NEW v, Returned'[c] = v PROVE Returned' = [Returned EXCEPT ![c] = v]
    BY <1>1, <1>3 DEF Returned
  <1>4. taken' = taken => Waiting' = Waiting BY <1>0 DEF Waiting
  <1>5. Returned'[c] = (IF pc'[c] = "take" THEN nxt'[c] ELSE result'[c])
        /\ Returned[c] = IF pc[c] = "take" THEN nxt[c] ELSE result[c]
    BY DEF Returned
  <1>6. CASE LoadHead(c)
    <2>1. pc[c] # "take" /\ pc'[c] # "take" /\ result' = result /\ taken' = taken
      BY <1>0, <1>6 DEF LoadHead, Goto, IInv, QueueTypeOK
    <2> QED BY <1>2, <1>4, <1>5, <2>1
  <1>7. CASE LoadHeadNext(c) /\ next[cur[c]] # Null
    <2>1. pc[c] # "take" /\ pc'[c] # "take" /\ result' = result /\ taken' = taken
      BY <1>0, <1>7 DEF LoadHeadNext, Goto, IInv, QueueTypeOK, history
    <2> QED BY <1>2, <1>4, <1>5, <2>1
  <1>8. CASE LoadHeadNext(c) /\ next[cur[c]] = Null
    <2>1. pc[c] = "headNext" /\ pc'[c] = "idle" /\ result'[c] = Null /\ taken' = taken
      BY <1>0, <1>8 DEF LoadHeadNext, Goto, IInv, QueueTypeOK, history
    <2>2. PICK j \in 0..taken : cur[c] = Node(j) BY <1>0, <2>1 DEF IInv, HeadInv, Follows
    <2>3. ~(j < L)
      <3> SUFFICES ASSUME j < L PROVE FALSE OBVIOUS
      <3>1. next[cur[c]] = Node(j + 1) BY <1>0, <2>2 DEF IInv, ChainInv
      <3>2. Node(j + 1) \in Nat BY <1>0, NodesAssumption DEF Node, L, Nodes
      <3> QED BY <1>8, <3>1, <3>2, NullAssumption
    <2>4. Len(linked) < taken + 1 BY <1>0, <2>3 DEF L
    <2>5. Waiting = <<>>
      <3>1. taken + 1 \in Int /\ Len(linked) \in Int BY <1>0
      <3> QED BY <2>4, <3>1, SubSeqEmpty DEF Waiting
    <2>6. Returned' = [Returned EXCEPT ![c] = Null] BY <1>3, <1>5, <2>1
    <2>7. Fifo!DequeueNothing(c)
      BY <1>4, <2>1, <2>5, <2>6 DEF Fifo!DequeueNothing, Waiting, Returned
    <2> QED BY <2>7
  <1>9. CASE SwingHead(c) /\ Goto(c, "loadHead") /\ taken' = taken
    <2>1. pc[c] # "take" /\ pc'[c] # "take" /\ result' = result
      BY <1>0, <1>9 DEF SwingHead, Goto, IInv, QueueTypeOK
    <2> QED BY <1>2, <1>4, <1>5, <1>9, <2>1
  <1>10. CASE SwingHead(c) /\ head = cur[c] /\ taken' = taken + 1 /\ Goto(c, "take")
    <2>1. pc[c] = "swing" /\ pc'[c] = "take" /\ nxt'[c] = nxt[c]
      BY <1>0, <1>10 DEF SwingHead, Goto, IInv, QueueTypeOK
    <2>2. PICK j \in 0..taken : cur[c] = Node(j) /\ j < L /\ nxt[c] = Node(j + 1)
      BY <1>0, <2>1 DEF IInv, HeadInv, Follows
    <2>3. j = taken
      <3>1. Node(j) = Node(taken) BY <1>0, <1>10, <2>2 DEF IInv, HeadInv
      <3>2. j \in 0..L BY <1>0
      <3> QED BY <1>0, <3>1, <3>2
    <2>4. /\ taken + 1 \in 1..Len(linked) /\ Len(linked) \in (taken + 1)..Len(linked)
          /\ nxt[c] = linked[taken + 1]
      BY <1>0, <2>2, <2>3 DEF L, Node
    <2>5. Head(Waiting) = nxt[c] /\ Tail(Waiting) = SubSeq(linked, (taken + 1) + 1, Len(linked))
      BY <1>0, <2>4, HeadTailOfSubSeq DEF Waiting
    <2>6. Waiting' = Tail(Waiting) BY <1>0, <1>10, <2>5 DEF Waiting
    <2>7. Waiting # <<>>
      <3>1. taken + 1 \in Int /\ Len(linked) \in Int /\ taken + 1 <= Len(linked)
            /\ \A i \in (taken + 1)..Len(linked) : linked[i] \in Nodes
        BY <1>0, <2>4 DEF L
      <3>2. Len(Waiting) = Len(linked) - (taken + 1) + 1 BY <3>1, SubSeqProperties DEF Waiting
      <3> QED BY <3>1, <3>2
    <2>8. Returned' = [Returned EXCEPT ![c] = Head(Waiting)] BY <1>3, <1>5, <2>1, <2>5
    <2>9. Fifo!Dequeue(c) BY <2>6, <2>7, <2>8 DEF Fifo!Dequeue, Waiting, Returned
    <2> QED BY <2>9
  <1>11. CASE TakeValue(c)
    <2>1. pc[c] = "take" /\ pc'[c] = "idle" /\ result'[c] = nxt[c] /\ taken' = taken
      BY <1>0, <1>11 DEF TakeValue, Goto, IInv, QueueTypeOK, history
    <2> QED BY <1>2, <1>4, <1>5, <2>1
  <1> QED BY <1>6, <1>7, <1>8, <1>9, <1>10, <1>11 DEF ConsumerStep, SwingHead

(* The list is a FIFO queue for any number of threads: an enqueue takes    *)
(* effect when its node is linked, a dequeue when head moves or when it    *)
(* finds no next node; every other step, the destructor's and the use of   *)
(* a freed node too, changes nothing a user of the queue sees.             *)
THEOREM ImplementsFifo == Spec => IsFifo
  <1>1. ASSUME IInv, [Next]_vars PROVE [Fifo!Next]_<<Waiting, Returned>>
    <2>1. CASE \E p \in Producers : ProducerStep(p) BY <1>1, <2>1, ProducerImplements DEF Fifo!Next
    <2>2. CASE \E c \in Consumers : ConsumerStep(c) BY <1>1, <2>2, ConsumerImplements DEF Fifo!Next
    <2>3. CASE (\E t \in Threads : UseFreed(t)) \/ DestroyNode \/ UNCHANGED vars
      <3>1. UNCHANGED <<linked, taken, pc, nxt, result>>
        BY <2>3 DEF UseFreed, DestroyNode, history, vars
      <3> QED BY <3>1 DEF Waiting, Returned
    <2> QED BY <1>1, <2>1, <2>2, <2>3 DEF Next, ProducerStep, ConsumerStep
  <1>2. IInv /\ [Next]_vars => [Fifo!Next]_<<Waiting, Returned>> BY <1>1
  <1>3. <<Waiting, Returned>> =
          <<SubSeq(linked, taken + 1, Len(linked)),
            [c \in Consumers |-> IF pc[c] = "take" THEN nxt[c] ELSE result[c]]>>
    BY DEF Waiting, Returned
  <1> QED BY <1>2, InitImplements, IInvHolds, PTL DEF Spec, IsFifo, Fifo!Spec, Waiting, Returned
=============================================================================
