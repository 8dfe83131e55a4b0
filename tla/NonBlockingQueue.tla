-------------------------- MODULE NonBlockingQueue --------------------------
(***************************************************************************)
(* NonBlockingQueue<T>: a linked list with an atomic head and tail and a   *)
(* dummy node in front.  Every load and every compare_exchange_weak is a   *)
(* step of its own.  dequeue deletes the node it leaves behind and does    *)
(* not look at tail, which may still point at that node.                   *)
(*                                                                         *)
(* Node 0 is the stub, node n belongs to the n-th enqueue and stands for   *)
(* its value.  Addresses are not reused here; a step that reads a freed    *)
(* node, or compares with one where a node allocated since could answer,   *)
(* has no defined outcome and ends the behaviour in `broken'; so does the    *)
(* second delete of a node, in `twice'.                                    *)
(***************************************************************************)
EXTENDS Naturals, Sequences

CONSTANTS
  Producers, Consumers,  \* threads that call enqueue, threads that call dequeue
  MaxNodes,              \* bound: calls of enqueue
  WeakFailures,          \* may compare_exchange_weak fail without cause?
  Null                   \* nullptr; also a dequeue that returned false

Nodes == 0..MaxNodes
Threads == Producers \cup Consumers

ASSUME ThreadsAssumption == Producers \cap Consumers = {}
ASSUME NodesAssumption   == MaxNodes \in Nat
ASSUME WeakAssumption    == WeakFailures \in BOOLEAN
ASSUME NullAssumption    == Null \notin Nat

VARIABLES
  next, head, tail,  \* the list
  allocated, freed,  \* nodes 0..allocated exist or have existed; freed ones are gone
  pc, cur, nxt,      \* per thread: control, currentTail or currentHead, next
  mine,              \* per producer: newNode
  result,            \* per consumer: what the last dequeue gave
  closing,           \* the destructor has started
  broken,            \* a freed node was used
  twice,             \* a freed node was deleted again
  linked, taken,     \* history: the nodes linked, in order; how many head has passed
  users,             \* history: threads that have called
  lagged             \* history: tail is where an enqueue left it, by the exchange it ignores

list    == <<next, head, tail, allocated, freed>>
history == <<twice, linked, taken, users, lagged>>
vars    == <<next, head, tail, allocated, freed, pc, cur, nxt, mine, result, closing, broken,
             twice, linked, taken, users, lagged>>

PC == {"idle", "loadTail", "tailNext", "link", "help", "advance",
       "loadHead", "headNext", "swing", "take"}

Init ==
  /\ next = [n \in Nodes |-> Null] /\ head = 0 /\ tail = 0
  /\ allocated = 0 /\ freed = {}
  /\ pc = [t \in Threads |-> "idle"]
  /\ cur = [t \in Threads |-> 0] /\ nxt = [t \in Threads |-> Null]
  /\ mine = [p \in Producers |-> 0] /\ result = [c \in Consumers |-> Null]
  /\ closing = FALSE /\ broken = FALSE
  /\ twice = FALSE /\ linked = <<>> /\ taken = 0 /\ users = {} /\ lagged = FALSE

Goto(t, l) == pc' = [pc EXCEPT ![t] = l]

-----------------------------------------------------------------------------
(* enqueue                                                                 *)

NewNode(p) ==
  /\ pc[p] = "idle" /\ ~closing /\ allocated < MaxNodes /\ Goto(p, "loadTail")
  /\ allocated' = allocated + 1 /\ mine' = [mine EXCEPT ![p] = allocated + 1]
  /\ users' = users \cup {p}
  /\ UNCHANGED <<next, head, tail, freed, cur, nxt, result, closing, broken, twice, linked, taken,
                 lagged>>

LoadTail(p) ==
  /\ pc[p] = "loadTail" /\ Goto(p, "tailNext")
  /\ cur' = [cur EXCEPT ![p] = tail]
  /\ UNCHANGED <<list, nxt, mine, result, closing, broken, history>>

M_AlwaysHelp(p) ==
  /\ pc[p] = "tailNext" /\ cur[p] \notin freed
  /\ nxt' = [nxt EXCEPT ![p] = next[cur[p]]] /\ Goto(p, "help")
  /\ UNCHANGED <<list, cur, mine, result, closing, broken, history>>

LoadTailNext(p) ==
  /\ pc[p] = "tailNext" /\ cur[p] \notin freed
  /\ nxt' = [nxt EXCEPT ![p] = next[cur[p]]]
  /\ Goto(p, IF next[cur[p]] = Null THEN "link" ELSE "help")
  /\ UNCHANGED <<list, cur, mine, result, closing, broken, history>>

M_LinkByStore(p) ==
  /\ pc[p] = "link" /\ cur[p] \notin freed /\ Goto(p, "advance")
  /\ next' = [next EXCEPT ![cur[p]] = mine[p]] /\ linked' = Append(linked, mine[p])
  /\ UNCHANGED <<head, tail, allocated, freed, cur, nxt, mine, result, closing, broken, twice,
                 taken, users, lagged>>

(* The node is linked if tail's next is still null; otherwise once more.   *)
LinkNode(p) ==
  /\ pc[p] = "link" /\ cur[p] \notin freed
  /\ \/ /\ next[cur[p]] = Null /\ Goto(p, "advance")
        /\ next' = [next EXCEPT ![cur[p]] = mine[p]] /\ linked' = Append(linked, mine[p])
     \/ /\ next[cur[p]] # Null \/ WeakFailures
        /\ Goto(p, "loadTail") /\ UNCHANGED <<next, linked>>
  /\ UNCHANGED <<head, tail, allocated, freed, cur, nxt, mine, result, closing, broken, twice,
                 taken, users, lagged>>

(* tail.compare_exchange_weak(currentTail, to); the result is not looked   *)
(* at.                                                                     *)
SwingTail(p, to) ==
  \/ tail = cur[p] /\ tail' = to
  \/ tail # cur[p] /\ cur[p] \notin freed /\ UNCHANGED tail
  \/ WeakFailures /\ UNCHANGED tail

(* tail lags behind: help it on, if nobody else has, and start again.      *)
HelpTail(p) ==
  /\ pc[p] = "help" /\ Goto(p, "loadTail") /\ SwingTail(p, nxt[p])
  /\ lagged' = (lagged /\ tail' = tail)
  /\ UNCHANGED <<next, head, allocated, freed, cur, nxt, mine, result, closing, broken, twice,
                 linked, taken, users>>

M_LeaveTail(p) ==
  /\ pc[p] = "advance" /\ Goto(p, "idle")
  /\ UNCHANGED <<list, cur, nxt, mine, result, closing, broken, history>>

(* Nobody makes up for this exchange if it fails without cause, but the    *)
(* next enqueue.                                                           *)
AdvanceTail(p) ==
  /\ pc[p] = "advance" /\ Goto(p, "idle") /\ SwingTail(p, mine[p])
  /\ lagged' = (tail' = tail /\ (lagged \/ tail = cur[p]))
  /\ UNCHANGED <<next, head, allocated, freed, cur, nxt, mine, result, closing, broken, twice,
                 linked, taken, users>>

-----------------------------------------------------------------------------
(* dequeue                                                                 *)

LoadHead(c) ==
  /\ (pc[c] = "idle" /\ ~closing) \/ pc[c] = "loadHead"
  /\ Goto(c, "headNext")
  /\ cur' = [cur EXCEPT ![c] = head] /\ users' = users \cup {c}
  /\ UNCHANGED <<list, nxt, mine, result, closing, broken, twice, linked, taken, lagged>>

(* No next node: the queue is empty and dequeue returns false.             *)
LoadHeadNext(c) ==
  /\ pc[c] = "headNext" /\ cur[c] \notin freed
  /\ nxt' = [nxt EXCEPT ![c] = next[cur[c]]]
  /\ \/ /\ next[cur[c]] = Null /\ Goto(c, "idle")
        /\ result' = [result EXCEPT ![c] = Null]
     \/ next[cur[c]] # Null /\ Goto(c, "swing") /\ UNCHANGED result
  /\ UNCHANGED <<list, cur, mine, closing, broken, history>>

M_SwingByStore(c) ==
  /\ pc[c] = "swing" /\ cur[c] \notin freed
  /\ head' = nxt[c] /\ taken' = (IF head = cur[c] THEN taken + 1 ELSE taken) /\ Goto(c, "take")
  /\ UNCHANGED <<next, tail, allocated, freed, cur, nxt, mine, result, closing, broken, twice,
                 linked, users, lagged>>

SwingHead(c) ==
  /\ pc[c] = "swing" /\ cur[c] \notin freed
  /\ \/ /\ head = cur[c] /\ head' = nxt[c] /\ taken' = taken + 1
        /\ Goto(c, "take")
     \/ /\ head # cur[c] \/ WeakFailures
        /\ Goto(c, "loadHead") /\ UNCHANGED <<head, taken>>
  /\ UNCHANGED <<next, tail, allocated, freed, cur, nxt, mine, result, closing, broken, twice,
                 linked, users, lagged>>

Delete(n) == freed' = freed \cup {n} /\ twice' = (twice \/ n \in freed)

M_TakeFreesNext(c) ==
  /\ pc[c] = "take" /\ nxt[c] \notin freed /\ Goto(c, "idle")
  /\ result' = [result EXCEPT ![c] = nxt[c]]
  /\ Delete(nxt[c])
  /\ UNCHANGED <<next, head, tail, allocated, cur, nxt, mine, closing, broken, linked, taken, users,
                 lagged>>

M_TakeLeaks(c) ==
  /\ pc[c] = "take" /\ nxt[c] \notin freed /\ Goto(c, "idle")
  /\ result' = [result EXCEPT ![c] = nxt[c]]
  /\ UNCHANGED <<list, cur, nxt, mine, closing, broken, history>>

(* The value is moved out of the next node, the old head deleted.          *)
TakeValue(c) ==
  /\ pc[c] = "take" /\ nxt[c] \notin freed /\ Goto(c, "idle")
  /\ result' = [result EXCEPT ![c] = nxt[c]]
  /\ Delete(cur[c])
  /\ UNCHANGED <<next, head, tail, allocated, cur, nxt, mine, closing, broken, linked, taken, users,
                 lagged>>

-----------------------------------------------------------------------------
(* A dereference of a freed node, or a comparison with one: a node made    *)
(* since may have its address.                                             *)
UseFreed(t) ==
  /\ \/ pc[t] \in {"tailNext", "link", "headNext", "swing"} /\ cur[t] \in freed
     \/ pc[t] \in {"help", "advance"} /\ cur[t] \in freed /\ tail # cur[t]
     \/ pc[t] = "take" /\ nxt[t] \in freed
  /\ broken' = TRUE
  /\ UNCHANGED <<list, pc, cur, nxt, mine, result, closing, history>>

(* The destructor, when every call has returned: one node per iteration.   *)
DestroyNode ==
  /\ \A t \in Threads : pc[t] = "idle"
  /\ head # Null /\ closing' = TRUE
  /\ head' = next[head] /\ Delete(head)
  /\ UNCHANGED <<next, tail, allocated, pc, cur, nxt, mine, result, broken, linked, taken, users,
                 lagged>>

(* empty(), for the thread that dequeues: no one else moves head.          *)
Empty == head = tail

Next ==
  /\ ~broken /\ ~twice
  /\ \/ \E p \in Producers : NewNode(p) \/ LoadTail(p) \/ LoadTailNext(p) \/ LinkNode(p)
                               \/ HelpTail(p) \/ AdvanceTail(p)
     \/ \E c \in Consumers : LoadHead(c) \/ LoadHeadNext(c) \/ SwingHead(c) \/ TakeValue(c)
     \/ \E t \in Threads : UseFreed(t)
     \/ DestroyNode

Spec == Init /\ [][Next]_vars

-----------------------------------------------------------------------------
(* Properties                                                              *)

(* The types of the list, of the threads' locals and of the histories.     *)
QueueTypeOK ==
  /\ next \in [Nodes -> Nodes \cup {Null}]
  /\ head \in Nodes \cup {Null} /\ tail \in Nodes
  /\ allocated \in Nodes /\ freed \subseteq Nodes
  /\ pc \in [Threads -> PC]
  /\ cur \in [Threads -> Nodes] /\ nxt \in [Threads -> Nodes \cup {Null}]
  /\ mine \in [Producers -> Nodes] /\ result \in [Consumers -> Nodes \cup {Null}]
  /\ closing \in BOOLEAN /\ broken \in BOOLEAN /\ twice \in BOOLEAN /\ lagged \in BOOLEAN
  /\ linked \in Seq(Nodes) /\ taken \in Nat /\ users \subseteq Threads

(* At most one producer and one consumer have used the queue.              *)
OnePair ==
  /\ \A p, q \in users \cap Producers : p = q
  /\ \A c, d \in users \cap Consumers : c = d

(* Between one producer and one consumer, although dequeue frees nodes     *)
(* that tail still points at, a freed node is read or compared with in one *)
(* case only: the last compare_exchange_weak of an enqueue, whose result   *)
(* is not looked at, has failed without cause, and tail is still there     *)
(* when the next enqueue uses it.                                          *)
SafeForOnePair == OnePair /\ broken => lagged

(* When every call has returned, empty() tells whether there is a value;   *)
(* but while tail is where such an enqueue left it, the queue looks empty  *)
(* when it holds one value, and not empty when it holds none.              *)
EmptyExact ==
  ~broken /\ ~closing /\ (\A t \in Threads : pc[t] = "idle") =>
    (Empty <=> taken = IF lagged THEN Len(linked) - 1 ELSE Len(linked))

(* No node is deleted twice, by two dequeues or by a dequeue and the       *)
(* destructor.                                                             *)
FreedOnce == ~twice

(* When the destructor has returned every node has been freed.             *)
AllNodesFreed == ~broken /\ head = Null => freed = 0..allocated

(* Up to the first use of a freed node the queue is a FIFO queue for any   *)
(* number of threads: an enqueue takes effect when its node is linked, a   *)
(* dequeue when head moves or when it finds no next node.                  *)
Fifo == INSTANCE FifoQueue WITH
  Items   <- Nodes,
  Nothing <- Null,
  items   <- SubSeq(linked, taken + 1, Len(linked)),
  result  <- [c \in Consumers |-> IF pc[c] = "take" THEN nxt[c] ELSE result[c]]

IsFifo == Fifo!Spec
=============================================================================
