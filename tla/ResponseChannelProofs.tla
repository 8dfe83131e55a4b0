------------------------ MODULE ResponseChannelProofs ------------------------
(***************************************************************************)
(* Theorems about ResponseChannel, for every set of inputs, whatever the   *)
(* waits and send() do.                                                    *)
(***************************************************************************)
EXTENDS ResponseChannel, TLAPS

(* Whatever holds of every step is shown action by action.                 *)
LEMMA StepCases ==
  ASSUME [Next]_vars
  PROVE  \/ \E in \in Inputs : StartTask(in)
         \/ Announce \/ NotifyLoop \/ TakeReply \/ SendReply \/ MarkSent
         \/ NotifySent \/ CheckOver \/ Join \/ DeleteParser
         \/ CheckLoopFlag \/ WaitForLoop \/ RejectText \/ ThrowOnBadInput
         \/ RunOneReply \/ RunPSYNC \/ RunSET \/ Push \/ CheckSentFlag
         \/ WaitForSent \/ ClearSentFlag \/ AfterEnqueue \/ Propagate
         \/ CommunicationOver \/ Return \/ SpuriousWakeup \/ UNCHANGED vars
BY DEF Next, HandlerStep, ParserStep

(* The flags are Boolean.                                                  *)
LEMMA FlagsStep == FlagsOK /\ [Next]_vars => FlagsOK'
<1> SUFFICES ASSUME FlagsOK, [Next]_vars PROVE FlagsOK'
  OBVIOUS
<1> USE DEF FlagsOK, flags
<1>1. CASE \E in \in Inputs : StartTask(in)
  BY <1>1, Zenon DEF StartTask
<1>2. CASE Announce \/ NotifyLoop \/ TakeReply \/ MarkSent \/ NotifySent
  BY <1>2, Zenon DEF Announce, NotifyLoop, TakeReply, MarkSent, NotifySent
<1>3. CASE SendReply
  BY <1>3, Zenon DEF SendReply
<1>4. CASE CheckOver \/ Join \/ DeleteParser \/ CheckLoopFlag \/ WaitForLoop
  BY <1>4, Zenon DEF CheckOver, Join, DeleteParser, CheckLoopFlag, WaitForLoop
<1>5. CASE RejectText \/ ThrowOnBadInput \/ RunOneReply \/ RunPSYNC \/ RunSET
  BY <1>5, Zenon DEF RejectText, ThrowOnBadInput, RunOneReply, RunPSYNC, RunSET
<1>6. CASE Push \/ CheckSentFlag \/ WaitForSent \/ ClearSentFlag
  BY <1>6, Zenon DEF Push, CheckSentFlag, WaitForSent, ClearSentFlag
<1>7. CASE AfterEnqueue \/ Propagate \/ CommunicationOver \/ Return \/ SpuriousWakeup
  BY <1>7, Zenon DEF AfterEnqueue, Propagate, CommunicationOver, Return, SpuriousWakeup
<1>8. CASE UNCHANGED vars
  BY <1>8, Zenon DEF vars
<1> QED BY <1>1, <1>2, <1>3, <1>4, <1>5, <1>6, <1>7, <1>8, StepCases, Zenon

(* A command that is about to enqueue has a reply left to enqueue.         *)
DataInv == WorkOK /\ QueueOK /\ (ppc = "push" => todo # 0)

LEMMA TypeInit == Init => FlagsOK /\ DataInv
<1> SUFFICES ASSUME Init PROVE FlagsOK /\ DataInv
  OBVIOUS
<1>1. FlagsOK
  BY Zenon DEF Init, FlagsOK
<1>2. 1 \in 1..Len(input)
  BY InputsAssumption DEF Init
<1>3. DataInv
  BY <1>2 DEF Init, DataInv, WorkOK, QueueOK, HandlerPC, ParserPC
<1> QED BY <1>1, <1>3

(* One step of either thread keeps the types of the data.                  *)
LEMMA DataStep == DataInv /\ [Next]_vars => DataInv'
<1> SUFFICES ASSUME DataInv, [Next]_vars PROVE DataInv'
  OBVIOUS
<1> USE DEF DataInv, WorkOK, QueueOK, HandlerPC, ParserPC, queueVs, work
<1>1. CASE \E in \in Inputs : StartTask(in)
  <2>1. PICK in \in Inputs : StartTask(in)
    BY <1>1
  <2>2. 1 \in 1..Len(in)
    BY InputsAssumption
  <2> QED BY <2>1, <2>2 DEF StartTask
<1>2. CASE Announce \/ NotifyLoop \/ MarkSent \/ NotifySent
  BY <1>2 DEF Announce, NotifyLoop, MarkSent, NotifySent
<1>3. CASE TakeReply
  <2>1. CASE buf = <<>>
    BY <1>3, <2>1 DEF TakeReply
  <2>2. CASE buf # <<>>
    BY <1>3, <2>2 DEF TakeReply
  <2> QED BY <2>1, <2>2
<1>4. CASE SendReply
  <2>1. hpc' \in {hpc, "mark"} /\ response' \in {response, 0}
    BY <1>4, Zenon DEF SendReply
  <2>2. sent' \in {sent, Append(sent, response)}
    BY <1>4, Zenon DEF SendReply
  <2>3. UNCHANGED <<ppc, buf, pushed, work>>
    BY <1>4, Zenon DEF SendReply
  <2>4. QueueOK'
    <3>1. response' \in Nat
      BY <2>1
    <3>2. Append(sent, response) \in Seq(Nat)
      OBVIOUS
    <3>3. sent' \in Seq(Nat)
      BY <2>2, <3>2
    <3> QED BY <2>3, <3>1, <3>3
  <2> QED BY <2>1, <2>3, <2>4
<1>5. CASE CheckOver \/ Join \/ DeleteParser \/ CheckLoopFlag \/ WaitForLoop
  BY <1>5 DEF CheckOver, Join, DeleteParser, CheckLoopFlag, WaitForLoop
<1>6. CASE RejectText \/ ThrowOnBadInput \/ RunOneReply \/ RunPSYNC \/ RunSET
  <2>1. CASE ThrowOnBadInput
    <3>1. UNCHANGED <<hpc, ppc, queueVs, work>>
      BY <2>1, Zenon DEF ThrowOnBadInput
    <3> QED BY <3>1
  <2>2. CASE RejectText
    BY <2>2 DEF RejectText
  <2>3. CASE RunOneReply
    BY <2>3 DEF RunOneReply
  <2>4. CASE RunPSYNC
    BY <2>4 DEF RunPSYNC
  <2>5. CASE RunSET
    BY <2>5 DEF RunSET
  <2> QED BY <1>6, <2>1, <2>2, <2>3, <2>4, <2>5
<1>7. CASE Push
  BY <1>7 DEF Push
<1>8. CASE CheckSentFlag \/ WaitForSent \/ ClearSentFlag
  BY <1>8 DEF CheckSentFlag, WaitForSent, ClearSentFlag
<1>9. CASE AfterEnqueue
  <2>1. Len(input) \in Nat
    BY InputsAssumption
  <2> QED BY <1>9, <2>1 DEF AfterEnqueue, NestedCommandFollows
<1>10. CASE Propagate \/ CommunicationOver
  BY <1>10 DEF Propagate, CommunicationOver
<1>11. CASE Return
  BY <1>11 DEF Return
<1>12. CASE SpuriousWakeup
  BY <1>12 DEF SpuriousWakeup
<1>13. CASE UNCHANGED vars
  BY <1>13 DEF vars
<1> QED
  BY <1>1, <1>2, <1>3, <1>4, <1>5, <1>6, <1>7, <1>8, <1>9, <1>10, <1>11, <1>12, <1>13,
     StepCases, Zenon

(* The flags, the queue and the control of the two threads keep their      *)
(* types; parseSETCommand's recursion never runs past the input.           *)
THEOREM TypeCorrect == Spec => []TypeOK
<1>1. FlagsOK /\ DataInv => TypeOK
  BY Zenon DEF DataInv, TypeOK
<1> QED BY TypeInit, FlagsStep, DataStep, <1>1, PTL DEF Spec

-----------------------------------------------------------------------------
(* The object and its thread                                               *)

(* The thread is over when the join has returned.                          *)
LifeInv == ParserOutlivesThread /\ (hpc = "joined" => ppc = "done")

LEMMA LifeStep == LifeInv /\ [Next]_vars => LifeInv'
<1> SUFFICES ASSUME LifeInv, [Next]_vars PROVE LifeInv'
  OBVIOUS
<1> USE DEF LifeInv, ParserOutlivesThread
<1>1. CASE \E in \in Inputs : StartTask(in)
  BY <1>1 DEF StartTask
<1>2. CASE Announce \/ NotifyLoop \/ TakeReply \/ MarkSent \/ NotifySent
  BY <1>2 DEF Announce, NotifyLoop, TakeReply, MarkSent, NotifySent
<1>3. CASE SendReply
  BY <1>3 DEF SendReply
<1>4. CASE CheckOver \/ Join \/ DeleteParser \/ CheckLoopFlag \/ WaitForLoop
  BY <1>4 DEF CheckOver, Join, DeleteParser, CheckLoopFlag, WaitForLoop
<1>5. CASE RejectText \/ ThrowOnBadInput \/ RunOneReply \/ RunPSYNC \/ RunSET
  BY <1>5 DEF RejectText, ThrowOnBadInput, RunOneReply, RunPSYNC, RunSET
<1>6. CASE Push \/ CheckSentFlag \/ WaitForSent \/ ClearSentFlag
  BY <1>6 DEF Push, CheckSentFlag, WaitForSent, ClearSentFlag
<1>7. CASE AfterEnqueue \/ Propagate \/ CommunicationOver \/ Return \/ SpuriousWakeup
  BY <1>7 DEF AfterEnqueue, Propagate, CommunicationOver, Return, SpuriousWakeup
<1>8. CASE UNCHANGED vars
  BY <1>8 DEF vars
<1> QED BY <1>1, <1>2, <1>3, <1>4, <1>5, <1>6, <1>7, <1>8, StepCases, Zenon

(* response_handler deletes the RedisParser only after its thread, which   *)
(* still uses it after communication_over, has ended.                      *)
THEOREM ParserOutlives == Spec => []ParserOutlivesThread
<1>1. Init => LifeInv
  BY DEF Init, LifeInv, ParserOutlivesThread
<1>2. LifeInv => ParserOutlivesThread
  BY DEF LifeInv
<1> QED BY <1>1, LifeStep, <1>2, PTL DEF Spec

-----------------------------------------------------------------------------
(* Propagation of pipelined SETs                                           *)

Enqueuing == {"push", "checkSent", "sentLock", "sentWaiting", "sentWoken", "enqueued"}

(* 1 while the innermost frame is a SET applied and not yet forwarded.     *)
OpenSet ==
  IF ppc = "propagate" \/ (ppc \in Enqueuing /\ input[pos] = "SET") THEN 1 ELSE 0

(* Every SET applied has been forwarded, is the innermost frame, or waits  *)
(* below it on the parser thread's stack.                                  *)
ForwardInv ==
  /\ applied = forwarded + depth + OpenSet
  /\ ppc = "done" => depth = 0

LEMMA ForwardStep == DataInv /\ ForwardInv /\ [Next]_vars => ForwardInv'
<1> SUFFICES ASSUME DataInv, ForwardInv, [Next]_vars PROVE ForwardInv'
  OBVIOUS
<1>0. depth \in Nat /\ applied \in Nat /\ forwarded \in Nat
  BY DEF DataInv, WorkOK
<1> USE <1>0 DEF ForwardInv, OpenSet, Enqueuing, work
<1>1. CASE \E in \in Inputs : StartTask(in)
  BY <1>1 DEF StartTask
<1>2. CASE Announce \/ NotifyLoop \/ TakeReply \/ MarkSent \/ NotifySent
  BY <1>2 DEF Announce, NotifyLoop, TakeReply, MarkSent, NotifySent
<1>3. CASE SendReply
  BY <1>3 DEF SendReply
<1>4. CASE CheckOver \/ Join \/ DeleteParser \/ CheckLoopFlag \/ WaitForLoop
  BY <1>4 DEF CheckOver, Join, DeleteParser, CheckLoopFlag, WaitForLoop
<1>5. CASE RejectText \/ ThrowOnBadInput \/ RunOneReply \/ RunPSYNC \/ RunSET
  BY <1>5 DEF RejectText, ThrowOnBadInput, RunOneReply, RunPSYNC, RunSET, OneReply
<1>6. CASE Push \/ CheckSentFlag \/ WaitForSent \/ ClearSentFlag
  BY <1>6 DEF Push, CheckSentFlag, WaitForSent, ClearSentFlag
<1>7. CASE AfterEnqueue
  BY <1>7 DEF AfterEnqueue
<1>8. CASE Propagate \/ CommunicationOver \/ SpuriousWakeup
  BY <1>8 DEF Propagate, CommunicationOver, SpuriousWakeup
<1>9. CASE Return
  BY <1>9 DEF Return
<1>10. CASE UNCHANGED vars
  BY <1>10 DEF vars
<1> QED
  BY <1>1, <1>2, <1>3, <1>4, <1>5, <1>6, <1>7, <1>8, <1>9, <1>10, StepCases, Zenon

(* A task that ends has run the propagation loop once for each SET it      *)
(* applied, however deeply the SETs of one input nest.                     *)
THEOREM SetsForwarded == Spec => []EverySetForwarded
<1>1. Init => DataInv /\ LifeInv
  BY TypeInit DEF Init, LifeInv, ParserOutlivesThread
<1>2. Init => ForwardInv
  BY DEF Init, ForwardInv, OpenSet, Enqueuing
<1>3. DataInv /\ LifeInv /\ ForwardInv => EverySetForwarded
  BY DEF DataInv, WorkOK, LifeInv, ForwardInv, OpenSet, Enqueuing, EverySetForwarded
<1> QED BY <1>1, <1>2, DataStep, LifeStep, ForwardStep, <1>3, PTL DEF Spec

-----------------------------------------------------------------------------
(* The order of the replies                                                *)

(* response is set exactly while the send loop runs.                       *)
ResponseInv == response # 0 <=> hpc = "send"

(* The queue holds the last replies enqueued, without a gap, and response  *)
(* the one before them.                                                    *)
QueueInv ==
  /\ Len(buf) <= pushed
  /\ \A i \in 1..Len(buf) : buf[i] = pushed - Len(buf) + i
  /\ response # 0 => response = pushed - Len(buf)

(* What was sent comes before response and the queue.                      *)
SentInv ==
  /\ \A i \in 1..Len(sent) :
       sent[i] <= pushed - Len(buf) /\ (response # 0 => sent[i] < response)
  /\ \A i, j \in 1..Len(sent) : i < j => sent[i] < sent[j]

OrderInv == ResponseInv /\ QueueInv /\ SentInv

LEMMA LastOrBefore ==
  ASSUME NEW n \in Nat, NEW i \in 1..(n + 1), NEW j \in 1..(n + 1), i < j
  PROVE  i \in 1..n /\ (j \in 1..n \/ j = n + 1)
OBVIOUS

LEMMA OrderStep == DataInv /\ OrderInv /\ [Next]_vars => OrderInv'
<1> SUFFICES ASSUME DataInv, OrderInv, [Next]_vars PROVE OrderInv'
  OBVIOUS
<1>0. /\ buf \in Seq(Nat \ {0}) /\ Len(buf) \in Nat /\ response \in Nat
      /\ pushed \in Nat /\ sent \in Seq(Nat) /\ Len(sent) \in Nat
  BY DEF DataInv, QueueOK
<1> USE <1>0 DEF OrderInv, ResponseInv, QueueInv, SentInv, queueVs
<1>1. CASE \E in \in Inputs : StartTask(in)
  BY <1>1 DEF StartTask
<1>2. CASE Announce \/ NotifyLoop \/ MarkSent \/ NotifySent
  BY <1>2 DEF Announce, NotifyLoop, MarkSent, NotifySent
<1>3. CASE TakeReply
  <2>1. CASE buf = <<>>
    BY <1>3, <2>1 DEF TakeReply
  <2>2. CASE buf # <<>>
    <3>1. /\ buf' \in Seq(Nat \ {0}) /\ Len(buf') = Len(buf) - 1 /\ response' = buf[1]
          /\ \A i \in 1..Len(buf') : buf'[i] = buf[i + 1]
      BY <1>3, <2>2 DEF TakeReply
    <3>2. response' = pushed - Len(buf') /\ response' # 0
      BY <3>1, <2>2
    <3>3. UNCHANGED <<pushed, sent>> /\ hpc' = "send"
      BY <1>3, <3>2 DEF TakeReply
    <3>4. QueueInv'
      <4>1. ASSUME NEW i \in 1..Len(buf') PROVE buf'[i] = pushed - Len(buf') + i
        <5>1. i + 1 \in 1..Len(buf) /\ buf'[i] = buf[i + 1]
          BY <3>1
        <5> QED BY <5>1, <3>1
      <4>2. Len(buf') <= pushed'
        BY <3>1, <3>3
      <4> QED BY <4>1, <4>2, <3>2, <3>3
    <3>5. SentInv'
      <4>1. ASSUME NEW i \in 1..Len(sent) PROVE sent[i] <= pushed - Len(buf') /\ sent[i] < response'
        <5>1. sent[i] \in Nat /\ sent[i] <= pushed - Len(buf)
          OBVIOUS
        <5> QED BY <5>1, <3>1, <3>2
      <4> QED BY <4>1, <3>3
    <3> QED BY <3>2, <3>3, <3>4, <3>5
  <2> QED BY <2>1, <2>2
<1>4. CASE SendReply
  <2>1. CASE UNCHANGED <<sent, response, hpc, buf, pushed>>
    BY <2>1
  <2>2. CASE sent' = sent /\ response' = 0 /\ hpc' = "mark" /\ UNCHANGED <<buf, pushed>>
    BY <2>2
  <2>3. CASE /\ sent' = Append(sent, response) /\ response' = 0 /\ hpc' = "mark"
             /\ UNCHANGED <<buf, pushed>>
    <3>1. response # 0
      BY <1>4 DEF SendReply
    <3>2. QueueInv' /\ ResponseInv'
      BY <2>3
    <3>3. /\ Len(sent') = Len(sent) + 1 /\ sent'[Len(sent) + 1] = response
          /\ \A i \in 1..Len(sent) : sent'[i] = sent[i]
      BY <2>3
    <3>4. ASSUME NEW i \in 1..Len(sent')
          PROVE  sent'[i] <= pushed - Len(buf) /\ (i < Len(sent') => sent'[i] < response)
      <4>1. CASE i \in 1..Len(sent)
        BY <4>1, <3>1, <3>3
      <4>2. CASE i = Len(sent) + 1
        BY <4>2, <3>1, <3>3
      <4> QED BY <4>1, <4>2, <3>3
    <3>5. ASSUME NEW i \in 1..(Len(sent) + 1), NEW j \in 1..(Len(sent) + 1), i < j
          PROVE  sent'[i] < sent'[j]
      <4>1. i \in 1..Len(sent) /\ (j \in 1..Len(sent) \/ j = Len(sent) + 1)
        BY <3>5, LastOrBefore
      <4>2. CASE j \in 1..Len(sent)
        BY <4>1, <4>2, <3>3, <3>5
      <4>3. CASE j = Len(sent) + 1
        BY <4>1, <4>3, <3>1, <3>3
      <4> QED BY <4>1, <4>2, <4>3
    <3>6. SentInv'
      <4>1. response' = 0 /\ pushed' = pushed /\ buf' = buf
        BY <2>3
      <4>2. Len(sent') = Len(sent) + 1
        BY <3>3
      <4> QED BY <4>1, <4>2, <3>4, <3>5
    <3> QED BY <3>2, <3>6
  <2> QED BY <1>4, <2>1, <2>2, <2>3, Zenon DEF SendReply
<1>5. CASE CheckOver \/ Join \/ DeleteParser \/ CheckLoopFlag \/ WaitForLoop
  BY <1>5 DEF CheckOver, Join, DeleteParser, CheckLoopFlag, WaitForLoop
<1>6. CASE RejectText \/ ThrowOnBadInput \/ RunOneReply \/ RunPSYNC \/ RunSET
  BY <1>6 DEF RejectText, ThrowOnBadInput, RunOneReply, RunPSYNC, RunSET
<1>7. CASE Push
  <2>1. /\ pushed' = pushed + 1 /\ Len(buf') = Len(buf) + 1 /\ buf'[Len(buf) + 1] = pushed + 1
        /\ \A i \in 1..Len(buf) : buf'[i] = buf[i]
        /\ UNCHANGED <<hpc, response, sent>>
    BY <1>7 DEF Push
  <2>2. QueueInv'
    <3>1. ASSUME NEW i \in 1..Len(buf') PROVE buf'[i] = pushed' - Len(buf') + i
      <4>1. CASE i \in 1..Len(buf)
        BY <4>1, <2>1
      <4>2. CASE i = Len(buf) + 1
        BY <4>2, <2>1
      <4> QED BY <4>1, <4>2, <2>1
    <3>2. Len(buf') <= pushed' /\ (response' # 0 => response' = pushed' - Len(buf'))
      BY <2>1
    <3> QED BY <3>1, <3>2, Zenon
  <2>3. SentInv'
    BY <2>1
  <2> QED BY <2>1, <2>2, <2>3
<1>8. CASE CheckSentFlag \/ WaitForSent \/ ClearSentFlag \/ AfterEnqueue
  BY <1>8 DEF CheckSentFlag, WaitForSent, ClearSentFlag, AfterEnqueue
<1>9. CASE Propagate \/ CommunicationOver \/ Return \/ SpuriousWakeup
  BY <1>9 DEF Propagate, CommunicationOver, Return, SpuriousWakeup
<1>10. CASE UNCHANGED vars
  BY <1>10 DEF vars
<1> QED
  BY <1>1, <1>2, <1>3, <1>4, <1>5, <1>6, <1>7, <1>8, <1>9, <1>10, StepCases, Zenon

LEMMA OrderInit == Init => OrderInv
BY DEF Init, OrderInv, ResponseInv, QueueInv, SentInv

(* Replies go out in the order the commands were executed, none twice,     *)
(* whatever send() returns and however the waits end.                      *)
THEOREM RepliesInOrder == Spec => []SentOnceInOrder
<1>1. Init => DataInv
  BY TypeInit
<1>2. DataInv /\ OrderInv => SentOnceInOrder
  <2> SUFFICES ASSUME DataInv, OrderInv, NEW i \in 1..Len(sent)
               PROVE  sent[i] <= pushed /\ (i > 1 => sent[i - 1] < sent[i])
    BY DEF SentOnceInOrder
  <2>1. sent[i] \in Nat /\ Len(buf) \in Nat /\ pushed \in Nat /\ sent[i] <= pushed - Len(buf)
    BY DEF DataInv, QueueOK, OrderInv, SentInv
  <2>2. CASE i > 1
    <3>1. i - 1 \in 1..Len(sent) /\ i - 1 < i
      BY <2>2 DEF DataInv, QueueOK
    <3> QED BY <2>1, <3>1 DEF OrderInv, SentInv
  <2> QED BY <2>1, <2>2
<1> QED BY <1>1, OrderInit, DataStep, OrderStep, <1>2, PTL DEF Spec

-----------------------------------------------------------------------------
(* The last reply                                                          *)

(* communication_over comes after the last enqueueMessage.                 *)
OverInv ==
  /\ isComm \/ ppc \in {"none", "propagate", "over", "return", "done"}
  /\ hpc \in {"join", "joined"} => ~isComm

LEMMA OverStep == OverInv /\ [Next]_vars => OverInv'
<1> SUFFICES ASSUME OverInv, [Next]_vars PROVE OverInv'
  OBVIOUS
<1> USE DEF OverInv, flags
<1>1. CASE \E in \in Inputs : StartTask(in)
  BY <1>1 DEF StartTask
<1>2. CASE Announce \/ NotifyLoop \/ TakeReply \/ MarkSent \/ NotifySent
  BY <1>2 DEF Announce, NotifyLoop, TakeReply, MarkSent, NotifySent
<1>3. CASE SendReply
  BY <1>3 DEF SendReply
<1>4. CASE CheckOver \/ Join \/ DeleteParser \/ CheckLoopFlag \/ WaitForLoop
  BY <1>4 DEF CheckOver, Join, DeleteParser, CheckLoopFlag, WaitForLoop
<1>5. CASE RejectText \/ ThrowOnBadInput \/ RunOneReply \/ RunPSYNC \/ RunSET
  BY <1>5 DEF RejectText, ThrowOnBadInput, RunOneReply, RunPSYNC, RunSET
<1>6. CASE Push \/ CheckSentFlag \/ WaitForSent \/ ClearSentFlag
  BY <1>6 DEF Push, CheckSentFlag, WaitForSent, ClearSentFlag
<1>7. CASE AfterEnqueue \/ Propagate \/ CommunicationOver \/ Return \/ SpuriousWakeup
  BY <1>7 DEF AfterEnqueue, Propagate, CommunicationOver, Return, SpuriousWakeup
<1>8. CASE UNCHANGED vars
  BY <1>8 DEF vars
<1> QED BY <1>1, <1>2, <1>3, <1>4, <1>5, <1>6, <1>7, <1>8, StepCases, Zenon

(* How many replies the commands up to pos enqueue.                        *)
Expected == IF pos = 2 \/ input[1] = "PSYNC" THEN 2 ELSE 1

(* A short input recurses at most once, and enqueues what is expected.     *)
CountInv ==
  /\ pos = 1 \/ (pos = 2 /\ input[1] = "SET")
  /\ ppc \in Parsing => pushed = pos - 1
  /\ ppc \in Enqueuing => pushed + todo = Expected

(* At most one reply is queued: before the second is enqueued the first    *)
(* has been taken, since wait_till_reponse_sent returns only after some    *)
(* reply was; and the handler, holding the mutex, leaves the queue empty.  *)
TakenInv ==
  /\ Len(buf) <= 1
  /\ HandlerHoldsBuf \/ hpc \in {"join", "joined"} => buf = <<>>
  /\ ppc \in Parsing \cup {"push"} => buf = <<>>
  /\ respSent \/ hpc \in {"send", "mark", "notifySent"} \/ ppc \in {"sentWoken", "enqueued"}
       => Len(buf) < pushed

ReplyInv == ~SpuriousWakeups /\ ShortInput(input) => CountInv /\ TakenInv

LEMMA CountStep ==
  ASSUME DataInv, ShortInput(input), CountInv, [Next]_vars, UNCHANGED input
  PROVE  CountInv'
<1>0. /\ pos \in Nat /\ todo \in Nat /\ pushed \in Nat /\ pos <= Len(input)
      /\ Len(input) \in Nat
  BY InputsAssumption DEF DataInv, WorkOK, QueueOK
<1> USE <1>0 DEF CountInv, Expected, Parsing, Enqueuing, queueVs, work
<1>1. CASE \E in \in Inputs : StartTask(in)
  BY <1>1 DEF StartTask
<1>2. CASE Announce \/ NotifyLoop \/ TakeReply \/ MarkSent \/ NotifySent
  BY <1>2 DEF Announce, NotifyLoop, TakeReply, MarkSent, NotifySent
<1>3. CASE SendReply
  BY <1>3 DEF SendReply
<1>4. CASE CheckOver \/ Join \/ DeleteParser \/ CheckLoopFlag \/ WaitForLoop
  BY <1>4 DEF CheckOver, Join, DeleteParser, CheckLoopFlag, WaitForLoop
<1>5. CASE RejectText \/ ThrowOnBadInput
  BY <1>5 DEF RejectText, ThrowOnBadInput
<1>6. CASE RunOneReply \/ RunPSYNC \/ RunSET
  BY <1>6 DEF RunOneReply, RunPSYNC, RunSET, OneReply, ShortInput
<1>7. CASE Push
  BY <1>7 DEF Push
<1>8. CASE CheckSentFlag \/ WaitForSent \/ ClearSentFlag
  BY <1>8 DEF CheckSentFlag, WaitForSent, ClearSentFlag
<1>9. CASE AfterEnqueue
  BY <1>9 DEF AfterEnqueue, NestedCommandFollows, ShortInput
<1>10. CASE Propagate \/ CommunicationOver \/ Return \/ SpuriousWakeup
  BY <1>10 DEF Propagate, CommunicationOver, Return, SpuriousWakeup
<1>11. CASE UNCHANGED vars
  BY <1>11 DEF vars
<1> QED
  BY <1>1, <1>2, <1>3, <1>4, <1>5, <1>6, <1>7, <1>8, <1>9, <1>10, <1>11, StepCases, Zenon

LEMMA OneElement ==
  ASSUME NEW S, NEW s \in Seq(S), s # <<>>, Len(s) <= 1
  PROVE  Len(s) = 1
<1>1. Len(s) \in Nat /\ Len(s) # 0
  OBVIOUS
<1> QED BY <1>1

LEMMA TakenStep ==
  ASSUME DataInv, OrderInv, OverInv, ~SpuriousWakeups, ShortInput(input), CountInv, TakenInv,
         [Next]_vars
  PROVE  TakenInv'
<1>0. /\ buf \in Seq(Nat \ {0}) /\ Len(buf) \in Nat /\ pushed \in Nat /\ todo \in Nat
      /\ Len(buf) <= pushed
  BY DEF DataInv, WorkOK, QueueOK, OrderInv, QueueInv
<1> USE <1>0 DEF TakenInv, HandlerHoldsBuf, Parsing
<1>1. CASE \E in \in Inputs : StartTask(in)
  BY <1>1 DEF StartTask
<1>2. CASE Announce \/ NotifyLoop \/ MarkSent \/ NotifySent
  BY <1>2 DEF Announce, NotifyLoop, MarkSent, NotifySent, queueVs, flags
<1>3. CASE TakeReply
  <2>1. CASE buf = <<>>
    BY <1>3, <2>1 DEF TakeReply, flags, OrderInv, ResponseInv
  <2>2. CASE buf # <<>>
    <3>1. buf' = Tail(buf) /\ hpc' \in {"send", "check"}
      BY <1>3, <2>2, Zenon DEF TakeReply
    <3>2. UNCHANGED <<ppc, respSent, pushed>>
      BY <1>3, Zenon DEF TakeReply, flags
    <3>3. Len(buf) = 1
      BY <2>2, OneElement
    <3>4. buf' = <<>> /\ Len(buf') = 0
      BY <3>1, <3>3
    <3>5. Len(buf') < pushed'
      BY <3>2, <3>3, <3>4
    <3>6. Len(buf') <= 1
      BY <3>4
    <3> QED BY <3>4, <3>5, <3>6, Zenon
  <2> QED BY <2>1, <2>2
<1>4. CASE SendReply
  BY <1>4 DEF SendReply, flags
<1>5. CASE CheckOver \/ Join \/ DeleteParser \/ CheckLoopFlag \/ WaitForLoop
  BY <1>5 DEF CheckOver, Join, DeleteParser, CheckLoopFlag, WaitForLoop, queueVs, flags
<1>6. CASE RejectText \/ ThrowOnBadInput \/ RunOneReply \/ RunPSYNC \/ RunSET
  BY <1>6 DEF RejectText, ThrowOnBadInput, RunOneReply, RunPSYNC, RunSET, queueVs, flags
<1>7. CASE Push
  <2>1. isComm /\ hpc \notin {"join", "joined"}
    BY <1>7 DEF Push, OverInv
  <2>2. Len(buf') = 1 /\ buf = <<>> /\ Len(buf) = 0 /\ pushed' = pushed + 1
    BY <1>7 DEF Push
  <2>3. UNCHANGED <<hpc, respSent>> /\ ppc' = "checkSent" /\ ~HandlerHoldsBuf
    BY <1>7 DEF Push, flags
  <2> QED BY <2>1, <2>2, <2>3
<1>8. CASE CheckSentFlag \/ WaitForSent \/ ClearSentFlag
  BY <1>8 DEF CheckSentFlag, WaitForSent, ClearSentFlag, queueVs, flags
<1>9. CASE AfterEnqueue
  <2>1. ppc = "enqueued" /\ Len(buf) < pushed
    BY <1>9 DEF AfterEnqueue
  <2>2. ppc' \in {"push", "begin"} => buf = <<>>
    <3>1. pushed + todo = Expected
      BY <2>1 DEF CountInv, Enqueuing
    <3>2. CASE todo > 0
      BY <2>1, <3>1, <3>2 DEF Expected
    <3>3. CASE input[pos] = "SET" /\ pos < Len(input) /\ todo = 0
      <4>1. pos = 1
        <5>1. input[1] = "SET" => Len(input) \in {1, 2}
          BY DEF ShortInput
        <5>2. ~ (2 < 1) /\ ~ (2 < 2)
          OBVIOUS
        <5>3. pos # 2
          BY <3>3, <5>1, <5>2, Zenon DEF CountInv
        <5> QED BY <5>3 DEF CountInv
      <4>2. Expected = 1
        BY <3>3, <4>1 DEF Expected
      <4> QED BY <2>1, <3>1, <3>3, <4>2
    <3> QED BY <1>9, <3>2, <3>3 DEF AfterEnqueue, NestedCommandFollows
  <2>3. ppc' \in {"push", "begin", "propagate", "over"}
    BY <1>9 DEF AfterEnqueue
  <2>4. UNCHANGED <<hpc, buf, pushed, respSent>>
    BY <1>9, Zenon DEF AfterEnqueue, queueVs, flags
  <2> QED BY <2>1, <2>2, <2>3, <2>4
<1>10. CASE Propagate \/ CommunicationOver \/ Return \/ SpuriousWakeup
  BY <1>10 DEF Propagate, CommunicationOver, Return, SpuriousWakeup, queueVs, flags
<1>11. CASE UNCHANGED vars
  BY <1>11 DEF vars
<1> QED
  BY <1>1, <1>2, <1>3, <1>4, <1>5, <1>6, <1>7, <1>8, <1>9, <1>10, <1>11, StepCases, Zenon

LEMMA ReplyStep ==
  DataInv /\ OrderInv /\ OverInv /\ ReplyInv /\ [Next]_vars => ReplyInv'
<1> SUFFICES ASSUME DataInv, OrderInv, OverInv, ReplyInv, [Next]_vars,
                    ~SpuriousWakeups, ShortInput(input')
             PROVE  CountInv' /\ TakenInv'
  BY DEF ReplyInv, ShortInput
<1>1. CASE \E in \in Inputs : StartTask(in)
  BY <1>1 DEF StartTask, CountInv, TakenInv, Parsing, Enqueuing, HandlerHoldsBuf
<1>2. CASE ~ \E in \in Inputs : StartTask(in)
  <2>1. UNCHANGED input
    BY <1>2, StepCases, Zenon
    DEF Announce, NotifyLoop, TakeReply, SendReply, MarkSent, NotifySent, CheckOver, Join,
        DeleteParser, CheckLoopFlag, WaitForLoop, RejectText, ThrowOnBadInput, RunOneReply,
        RunPSYNC, RunSET, Push, CheckSentFlag, WaitForSent, ClearSentFlag, AfterEnqueue,
        Propagate, CommunicationOver, Return, SpuriousWakeup, vars, work
  <2>2. ShortInput(input)
    BY <2>1
  <2> QED BY <2>1, <2>2, CountStep, TakenStep DEF ReplyInv
<1> QED BY <1>1, <1>2

(* The comment in parseSETCommand, for inputs of at most two replies and   *)
(* waits that only a notify ends: the parser is not deleted before the     *)
(* last response has been taken for sending.                               *)
THEOREM LastReplyTaken == Spec => []NoReplyLost
<1>1. Init => DataInv /\ OrderInv
  BY TypeInit, OrderInit
<1>2. Init => OverInv /\ ReplyInv
  BY DEF Init, OverInv, ReplyInv, CountInv, TakenInv, Parsing, Enqueuing, HandlerHoldsBuf
<1>3. ReplyInv => NoReplyLost
  BY DEF ReplyInv, TakenInv, NoReplyLost
<1> QED BY <1>1, <1>2, DataStep, OrderStep, OverStep, ReplyStep, <1>3, PTL DEF Spec

-----------------------------------------------------------------------------
(* The contract of a task                                                  *)

Closing == {"propagate", "over", "return", "done"}

(* The parser's wait for a reply: it begins with response_sent clear, so   *)
(* one that finds the flag set has lost the wakeup of the only reply there *)
(* was.  Whoever is past a wait has seen the first reply sent.             *)
WaitInv ==
  /\ ppc \in {"sentLock", "sentWaiting"} /\ respSent => Unsent = 0 /\ hpc # "mark"
  /\ ppc = "sentWoken" => Unsent = 0
  /\ \/ respSent \/ hpc \in {"mark", "notifySent"}
     \/ ppc \in {"sentWoken", "enqueued", "propagate"} \/ pos = 2
     => Unsent < pushed

(* What the parser has done where: nothing is propagated before the last   *)
(* command has been answered, and none is left when the parser closes.     *)
CourseInv ==
  /\ ppc \in Parsing \cup Closing => todo = 0
  /\ ppc \in Parsing \cup Enqueuing => forwarded = 0
  /\ ppc \in Closing => input[pos] # "SET" \/ ~NestedCommandFollows
  /\ ppc = "propagate" /\ pos = 1 => Unsent = 0
  /\ depth < pos
  /\ pos > 1 => input[pos] # "TEXT"

(* Inputs of at most two replies, and waits that only a notify ends.       *)
ShortTasks == ~SpuriousWakeups /\ \A in \in Inputs : ShortInput(in)

LEMMA UnsentIs ==
  ASSUME DataInv
  PROVE  /\ Unsent \in Nat
         /\ Unsent = 0 <=> buf = <<>> /\ response = 0
         /\ Unsent = 0 <=> Len(buf) = 0 /\ response = 0
<1>1. Len(buf) \in Nat /\ response \in Nat /\ (Len(buf) = 0 <=> buf = <<>>)
  BY DEF DataInv, QueueOK
<1> QED BY <1>1 DEF Unsent

(* A reply that is taken is still unsent.                                  *)
LEMMA TakeKeepsUnsent ==
  ASSUME DataInv, OrderInv, TakeReply
  PROVE  Unsent' = Unsent
<1>1. response = 0 /\ buf \in Seq(Nat \ {0})
  BY DEF TakeReply, OrderInv, ResponseInv, DataInv, QueueOK
<1>2. CASE buf = <<>>
  BY <1>1, <1>2 DEF TakeReply, Unsent
<1>3. CASE buf # <<>>
  <2>1. Len(Tail(buf)) = Len(buf) - 1 /\ Head(buf) # 0 /\ Len(buf) \in Nat
    BY <1>1, <1>3
  <2>2. buf' = Tail(buf) /\ response' = Head(buf)
    BY <1>3 DEF TakeReply
  <2> QED BY <1>1, <2>1, <2>2 DEF Unsent
<1> QED BY <1>2, <1>3

LEMMA SendUnsent ==
  ASSUME DataInv, OrderInv, SendReply
  PROVE  /\ hpc' = "mark" => Unsent' = Unsent - 1
         /\ hpc' # "mark" => Unsent' = Unsent
<1>1. response # 0 /\ Len(buf) \in Nat
  BY DEF SendReply, OrderInv, ResponseInv, DataInv, QueueOK
<1>2. \/ response' = 0 /\ hpc' = "mark"
      \/ response' = response /\ hpc' = "send"
  BY Zenon DEF SendReply
<1>3. buf' = buf
  BY Zenon DEF SendReply
<1> QED BY <1>1, <1>2, <1>3 DEF Unsent

LEMMA PushUnsent ==
  ASSUME DataInv, Push
  PROVE  Unsent' = Unsent + 1
<1>1. Len(buf') = Len(buf) + 1 /\ Len(buf) \in Nat /\ response' = response
  BY DEF Push, DataInv, QueueOK
<1> QED BY <1>1 DEF Unsent

LEMMA WaitStep ==
  ASSUME DataInv, OrderInv, OverInv, CountInv, TakenInv, WaitInv, CourseInv,
         ~SpuriousWakeups, [Next]_vars
  PROVE  WaitInv'
<1>0. pushed \in Nat /\ Unsent \in Nat /\ pos \in Nat
  BY UnsentIs DEF DataInv, QueueOK, WorkOK
<1>u. UNCHANGED <<buf, response>> => Unsent' = Unsent
  BY DEF Unsent
<1> USE <1>0 DEF WaitInv
<1>1. CASE \E in \in Inputs : StartTask(in)
  BY <1>1 DEF StartTask
<1>2. CASE Announce \/ NotifyLoop
  BY <1>2, <1>u DEF Announce, NotifyLoop, queueVs, work, flags
<1>3. CASE TakeReply
  <2>1. hpc' \in {"send", "check"} /\ UNCHANGED <<ppc, respSent, pushed, pos>>
    BY <1>3 DEF TakeReply, flags, work
  <2> QED BY <2>1, <1>3, TakeKeepsUnsent
<1>4. CASE SendReply
  <2>1. hpc = "send" /\ hpc' \in {"mark", "send"} /\ UNCHANGED <<ppc, respSent, pushed, pos>>
    BY <1>4, Zenon DEF SendReply, flags, work
  <2>2. Unsent # 0
    BY <2>1, UnsentIs DEF OrderInv, ResponseInv
  <2>3. Unsent <= pushed
    BY DEF Unsent, OrderInv, QueueInv, DataInv, QueueOK
  <2> QED BY <1>4, <2>1, <2>2, <2>3, SendUnsent
<1>5. CASE MarkSent \/ NotifySent
  <2>1. hpc \in {"mark", "notifySent"} /\ UNCHANGED <<buf, response, pushed, pos>>
    BY <1>5 DEF MarkSent, NotifySent, queueVs, work
  <2>2. Unsent = 0
    BY <2>1, UnsentIs DEF TakenInv, HandlerHoldsBuf, OrderInv, ResponseInv
  <2> QED BY <1>5, <1>u, <2>1, <2>2 DEF MarkSent, NotifySent, flags
<1>6. CASE CheckOver \/ Join \/ DeleteParser \/ CheckLoopFlag \/ WaitForLoop
  BY <1>6, <1>u DEF CheckOver, Join, DeleteParser, CheckLoopFlag, WaitForLoop, queueVs, flags, work
<1>7. CASE RejectText \/ ThrowOnBadInput \/ RunOneReply \/ RunPSYNC \/ RunSET
  BY <1>7, <1>u DEF RejectText, ThrowOnBadInput, RunOneReply, RunPSYNC, RunSET, queueVs, flags, work
<1>8. CASE Push
  <2>1. UNCHANGED <<hpc, respSent, pos>> /\ pushed' = pushed + 1 /\ ppc' = "checkSent"
    BY <1>8 DEF Push, flags
  <2>2. ~HandlerHoldsBuf /\ buf = <<>>
    BY <1>8 DEF Push, TakenInv
  <2>3. Unsent = 0
    BY <2>2, UnsentIs DEF HandlerHoldsBuf, OrderInv, ResponseInv
  <2>4. Unsent' = 1
    BY <1>8, <2>3, PushUnsent
  <2>5. pos = 2 => pushed # 0
    BY <2>3
  <2>6. hpc \notin {"mark", "notifySent"}
    BY <2>2 DEF HandlerHoldsBuf
  <2>7. respSent => pushed # 0
    BY <2>3
  <2> QED BY <2>1, <2>4, <2>5, <2>6, <2>7
<1>9. CASE CheckSentFlag \/ WaitForSent \/ ClearSentFlag
  BY <1>9, <1>u DEF CheckSentFlag, WaitForSent, ClearSentFlag, queueVs, flags, work
<1>10. CASE AfterEnqueue
  BY <1>10, <1>u DEF AfterEnqueue, queueVs, flags
<1>11. CASE Propagate \/ CommunicationOver
  BY <1>11, <1>u DEF Propagate, CommunicationOver, queueVs, flags, work
<1>12. CASE Return
  <2>1. ppc' = "propagate" => pos = 2
    BY <1>12 DEF Return, CourseInv, CountInv, DataInv, WorkOK
  <2> QED BY <1>12, <1>u, <2>1 DEF Return, queueVs, flags
<1>13. CASE SpuriousWakeup \/ UNCHANGED vars
  BY <1>13, <1>u DEF SpuriousWakeup, vars
<1> QED
  BY <1>1, <1>2, <1>3, <1>4, <1>5, <1>6, <1>7, <1>8, <1>9, <1>10, <1>11, <1>12, <1>13,
     StepCases, Zenon

LEMMA CourseStep ==
  ASSUME DataInv, OrderInv, ForwardInv, ShortInput(input), CountInv, TakenInv, WaitInv, CourseInv,
         ~SpuriousWakeups, [Next]_vars, UNCHANGED input
  PROVE  CourseInv'
<1>0. /\ pushed \in Nat /\ Unsent \in Nat /\ pos \in Nat /\ todo \in Nat /\ depth \in Nat
      /\ forwarded \in Nat
  BY UnsentIs DEF DataInv, QueueOK, WorkOK
<1>u. UNCHANGED <<buf, response>> => Unsent' = Unsent
  BY DEF Unsent
<1>n. pos' = pos => (NestedCommandFollows' <=> NestedCommandFollows)
  BY DEF NestedCommandFollows
<1> USE <1>0 DEF CourseInv, Parsing, Closing, Enqueuing
<1>1. CASE \E in \in Inputs : StartTask(in)
  BY <1>1 DEF StartTask
<1>2. CASE Announce \/ NotifyLoop \/ MarkSent \/ NotifySent
  BY <1>2, <1>u, <1>n DEF Announce, NotifyLoop, MarkSent, NotifySent, queueVs, work
<1>3. CASE TakeReply
  <2>1. UNCHANGED <<ppc, pos, todo, forwarded, depth>>
    BY <1>3 DEF TakeReply, work
  <2> QED BY <1>3, <1>n, <2>1, TakeKeepsUnsent
<1>4. CASE SendReply
  <2>1. UNCHANGED <<ppc, pos, todo, forwarded, depth>>
    BY <1>4, Zenon DEF SendReply, work
  <2>2. Unsent # 0
    BY <1>4, UnsentIs DEF SendReply, OrderInv, ResponseInv
  <2> QED BY <1>n, <2>1, <2>2
<1>5. CASE CheckOver \/ Join \/ DeleteParser \/ CheckLoopFlag \/ WaitForLoop
  BY <1>5, <1>u, <1>n
  DEF CheckOver, Join, DeleteParser, CheckLoopFlag, WaitForLoop, queueVs, work
<1>6. CASE RejectText \/ ThrowOnBadInput \/ RunOneReply \/ RunPSYNC \/ RunSET
  BY <1>6, <1>u, <1>n
  DEF RejectText, ThrowOnBadInput, RunOneReply, RunPSYNC, RunSET, queueVs, work
<1>7. CASE Push
  BY <1>7, <1>n DEF Push
<1>8. CASE CheckSentFlag \/ WaitForSent \/ ClearSentFlag
  BY <1>8, <1>u, <1>n DEF CheckSentFlag, WaitForSent, ClearSentFlag, queueVs, work
<1>9. CASE AfterEnqueue
  <2>1. ppc = "enqueued" /\ UNCHANGED <<buf, response, pushed, todo, forwarded>>
    BY <1>9 DEF AfterEnqueue, queueVs
  <2>2. pushed + todo = Expected /\ Unsent < pushed
    BY <2>1 DEF CountInv, WaitInv
  <2>3. input[pos] = "SET" /\ pos = 1 => Expected = 1
    BY DEF Expected
  <2>4. ppc' = "propagate" /\ pos' = 1 => Unsent = 0
    BY <1>9, <2>2, <2>3 DEF AfterEnqueue
  <2>5. pos' = pos \/ (pos' = pos + 1 /\ input[pos + 1] # "TEXT")
    BY <1>9 DEF AfterEnqueue, NestedCommandFollows
  <2> QED BY <1>9, <1>u, <1>n, <2>1, <2>4, <2>5 DEF AfterEnqueue
<1>10. CASE Propagate \/ CommunicationOver \/ Return
  BY <1>10, <1>u, <1>n DEF Propagate, CommunicationOver, Return, queueVs, work
<1>11. CASE SpuriousWakeup \/ UNCHANGED vars
  BY <1>11, <1>u, <1>n DEF SpuriousWakeup, vars
<1> QED
  BY <1>1, <1>2, <1>3, <1>4, <1>5, <1>6, <1>7, <1>8, <1>9, <1>10, <1>11, StepCases, Zenon

(* The steps of the contract in terms of the channel's.                    *)
MoreInput ==
  \/ Ran = 0
  \/ input[Ran] = "SET" /\ Ran < Len(input) /\ input[Ran + 1] # "TEXT"

InBoth == InTask /\ InTask'

LEMMA StutterIs ==
  ASSUME InBoth, UNCHANGED <<Stage, input, Ran, Owed, Handled, sent, applied, forwarded>>
  PROVE  UNCHANGED Contract!state
BY DEF InBoth, Contract!state, Contract!work

LEMMA MoreIs ==
  ASSUME InTask
  PROVE  Contract!MoreToRun <=> MoreInput
BY DEF Contract!MoreToRun, MoreInput

LEMMA ExecuteIs ==
  ASSUME InBoth, Stage = "working", Stage' = "working", MoreInput, Owed = 0, Ran' = Ran + 1,
         Owed' = Contract!Replies(input[Ran + 1]),
         applied' = IF input[Ran + 1] = "SET" THEN applied + 1 ELSE applied,
         UNCHANGED <<input, Handled, sent, forwarded>>
  PROVE  Contract!Execute
BY MoreIs DEF InBoth, Contract!Execute

LEMMA ReplyIs ==
  ASSUME InBoth, Stage = "working", Stage' = "working", Owed > 0, Owed' = Owed - 1,
         Handled' = Handled + 1, sent' \in {sent, Append(sent, Handled')},
         UNCHANGED <<input, Ran, applied, forwarded>>
  PROVE  Contract!Reply
BY DEF InBoth, Contract!Reply

LEMMA ForwardIs ==
  ASSUME InBoth, Stage = "working", Stage' = "working", ~MoreInput, forwarded < applied,
         Owed = 0 \/ Ran > 1, forwarded' = forwarded + 1,
         UNCHANGED <<input, Ran, Owed, Handled, sent, applied>>
  PROVE  Contract!Forward
BY MoreIs DEF InBoth, Contract!Forward

LEMMA HangIs ==
  ASSUME InBoth, Stage = "working", Stage' = "hung",
         Ran = 0 \/ Owed > 0 \/ (Handled > 0 /\ forwarded = 0),
         UNCHANGED <<input, Ran, Owed, Handled, sent, applied, forwarded>>
  PROVE  Contract!Hang
BY DEF InBoth, Contract!Hang, Contract!work

LEMMA DieIs ==
  ASSUME InBoth, Stage = "working", Stage' = "dead", (MoreInput /\ Owed = 0) \/ Owed > 0,
         UNCHANGED <<input, Ran, Owed, Handled, sent, applied, forwarded>>
  PROVE  Contract!Die
BY MoreIs DEF InBoth, Contract!Die, Contract!work

LEMMA BeginIs ==
  ASSUME Stage = "idle", ~InTask, InTask', Stage' = "working", input' \in Inputs, Ran' = 0,
         Owed' = 0, Handled' = 0, sent' = <<>>, applied' = 0, forwarded' = 0
  PROVE  Contract!Begin
BY DEF Contract!Begin, Contract!Cleared

LEMMA EndIs ==
  ASSUME Stage = "working", InTask, ~InTask', Stage' = "idle", ~MoreInput, Owed = 0,
         forwarded = applied
  PROVE  Contract!End
BY MoreIs DEF Contract!End, Contract!Cleared

(* All that is known of a task whose input is short.                       *)
TaskInv ==
  /\ DataInv /\ LifeInv /\ ForwardInv /\ OrderInv /\ OverInv
  /\ CountInv /\ TakenInv /\ WaitInv /\ CourseInv

(* A parser that is about to execute a command owes no reply.              *)
LEMMA NoneOwedParsing ==
  ASSUME TaskInv, ppc \in Parsing
  PROVE  Unsent = 0 /\ Owed = 0 /\ MoreInput /\ Ran + 1 = pos /\ forwarded = 0
<1>0. /\ pos \in Nat /\ pushed \in Nat /\ Unsent \in Nat /\ Len(input) \in Nat
      /\ pos <= Len(input)
  BY UnsentIs, InputsAssumption DEF TaskInv, DataInv, WorkOK, QueueOK
<1>1. Unsent = 0
  <2>1. pushed = pos - 1 /\ buf = <<>>
    BY DEF TaskInv, CountInv, TakenInv
  <2>2. CASE pos = 1
    <3>1. response = 0
      BY <2>1, <2>2 DEF TaskInv, OrderInv, QueueInv
    <3> QED BY <2>1, <3>1, UnsentIs DEF TaskInv
  <2>3. CASE pos = 2
    BY <1>0, <2>1, <2>3 DEF TaskInv, WaitInv
  <2> QED BY <2>2, <2>3 DEF TaskInv, CountInv
<1>2. todo = 0 /\ forwarded = 0
  BY DEF TaskInv, CourseInv
<1>3. Ran = pos - 1 /\ Ran + 1 = pos /\ Owed = 0
  BY <1>0, <1>1, <1>2 DEF Owed, Ran
<1>4. MoreInput
  <2>1. CASE pos = 1
    BY <1>3, <2>1 DEF MoreInput
  <2>2. CASE pos = 2
    <3>1. input[1] = "SET" /\ Ran = 1 /\ input[2] # "TEXT"
      BY <1>3, <2>2 DEF TaskInv, CountInv, CourseInv
    <3> QED BY <1>0, <2>2, <3>1 DEF MoreInput
  <2> QED BY <2>1, <2>2 DEF TaskInv, CountInv
<1> QED BY <1>1, <1>2, <1>3, <1>4

Lost == LoopWakeupLost \/ SentWakeupLost

LEMMA StageCases ==
  ASSUME InTask
  PROVE  /\ Stage = "dead" <=> crashed
         /\ Stage = "hung" <=> ~crashed /\ Lost
         /\ Stage = "working" <=> ~crashed /\ ~Lost
BY DEF Stage, Lost

LEMMA StageCasesNext ==
  ASSUME InTask'
  PROVE  /\ Stage' = "dead" <=> crashed'
         /\ Stage' = "hung" <=> ~crashed' /\ Lost'
         /\ Stage' = "working" <=> ~crashed' /\ ~Lost'
BY DEF Stage, Lost

(* A step the contract does not see.                                       *)
LEMMA InnerStep ==
  ASSUME InBoth, UNCHANGED <<Stage, input, Ran, todo, Unsent, pushed, sent, applied, forwarded>>
  PROVE  UNCHANGED Contract!state
BY StutterIs DEF Owed, Handled

(* A task that lost a wakeup: nothing is left to send, and the handler     *)
(* goes round its loop.                                                    *)
LEMMA HungIs ==
  ASSUME TaskInv, InTask, Lost
  PROVE  /\ hpc \in {"loop", "notifyLoop", "wait", "mark", "notifySent", "check"}
         /\ isComm /\ buf = <<>> /\ response = 0
<1>1. ppc \in {"loopWaiting", "sentWaiting"}
  BY DEF Lost, LoopWakeupLost, SentWakeupLost
<1>2. isComm /\ hpc \notin {"join", "joined"}
  BY <1>1, Zenon DEF TaskInv, OverInv
<1>3. Unsent = 0
  BY NoneOwedParsing DEF Lost, LoopWakeupLost, SentWakeupLost, Parsing, TaskInv, WaitInv
<1>4. buf = <<>> /\ response = 0
  BY <1>3, UnsentIs DEF TaskInv
<1>5. hpc # "send"
  BY <1>4 DEF TaskInv, OrderInv, ResponseInv
<1> QED BY <1>2, <1>4, <1>5 DEF TaskInv, DataInv, WorkOK, HandlerPC, InTask

(* It never does anything again.                                           *)
LEMMA HungStep ==
  ASSUME TaskInv, InTask, Lost, ~crashed, ~SpuriousWakeups, [Next]_vars
  PROVE  UNCHANGED Contract!state
<1>0. /\ hpc \in {"loop", "notifyLoop", "wait", "mark", "notifySent", "check"}
      /\ isComm /\ buf = <<>> /\ response = 0
  BY HungIs
<1>1. \/ ppc = "loopWaiting" /\ inLoop /\ hpc # "notifyLoop"
      \/ ppc = "sentWaiting" /\ respSent /\ hpc \notin {"notifySent", "mark"}
  BY DEF Lost, LoopWakeupLost, SentWakeupLost, TaskInv, WaitInv
<1>2. \/ Announce \/ NotifyLoop \/ TakeReply \/ MarkSent \/ NotifySent \/ CheckOver
      \/ UNCHANGED vars
  <2>1. ~ \E in \in Inputs : StartTask(in)
    BY <1>0 DEF StartTask
  <2>2. ~ (SendReply \/ Join \/ DeleteParser \/ SpuriousWakeup)
    BY <1>0 DEF SendReply, Join, DeleteParser, SpuriousWakeup
  <2>3. ~ (CheckLoopFlag \/ WaitForLoop \/ RejectText \/ ThrowOnBadInput \/ RunOneReply)
    BY <1>1 DEF CheckLoopFlag, WaitForLoop, RejectText, ThrowOnBadInput, RunOneReply
  <2>4. ~ (RunPSYNC \/ RunSET \/ Push \/ CheckSentFlag \/ WaitForSent \/ ClearSentFlag)
    BY <1>1 DEF RunPSYNC, RunSET, Push, CheckSentFlag, WaitForSent, ClearSentFlag
  <2>5. ~ (AfterEnqueue \/ Propagate \/ CommunicationOver \/ Return)
    BY <1>1 DEF AfterEnqueue, Propagate, CommunicationOver, Return
  <2> QED BY <2>1, <2>2, <2>3, <2>4, <2>5, StepCases, Zenon
<1>3. /\ UNCHANGED <<work, buf, response, pushed, sent, ppc, crashed, isComm>>
      /\ hpc' # "idle"
      /\ \/ ppc = "loopWaiting" /\ inLoop' /\ hpc' # "notifyLoop"
         \/ ppc = "sentWaiting" /\ respSent' /\ hpc' # "notifySent"
  <2>1. CASE Announce
    BY <2>1, <1>0, <1>1 DEF Announce, queueVs
  <2>2. CASE NotifyLoop
    BY <2>2, <1>0, <1>1 DEF NotifyLoop, queueVs, flags
  <2>3. CASE TakeReply
    BY <2>3, <1>0, <1>1 DEF TakeReply, flags
  <2>4. CASE MarkSent
    BY <2>4, <1>0, <1>1 DEF MarkSent, queueVs
  <2>5. CASE NotifySent
    BY <2>5, <1>0, <1>1 DEF NotifySent, queueVs, flags
  <2>6. CASE CheckOver
    BY <2>6, <1>0, <1>1 DEF CheckOver, queueVs, flags
  <2>7. CASE UNCHANGED vars
    BY <2>7, <1>0, <1>1 DEF vars, work
  <2> QED BY <1>2, <2>1, <2>2, <2>3, <2>4, <2>5, <2>6, <2>7
<1>4. InBoth /\ Lost' /\ ~crashed'
  BY <1>3 DEF InBoth, InTask, Lost, LoopWakeupLost, SentWakeupLost
<1>5. Stage = "hung" /\ Stage' = "hung"
  BY <1>4, StageCases, StageCasesNext, Zenon DEF InBoth
<1>6. UNCHANGED <<input, Ran, todo, Unsent, pushed, sent, applied, forwarded>>
  BY <1>3 DEF work, Ran, Unsent
<1> QED BY <1>4, <1>5, <1>6, InnerStep

(* The steps of a task that has lost no wakeup.                            *)
Working == TaskInv /\ InTask /\ ~crashed /\ ~Lost

(* What a step of the handler that sends nothing leaves alone.             *)
LEMMA QuietHandler ==
  ASSUME Working, hpc' # "idle", ~Lost', ~crashed', UNCHANGED <<work, pushed, sent>>,
         Unsent' = Unsent, Ran' = Ran
  PROVE  UNCHANGED Contract!state
<1>1. InBoth /\ Stage = "working" /\ Stage' = "working"
  BY StageCases, StageCasesNext, Zenon DEF Working, InBoth, InTask
<1> QED BY <1>1, InnerStep DEF work

LEMMA HandlerQuiet ==
  ASSUME Working,
         Announce \/ NotifyLoop \/ TakeReply \/ MarkSent \/ NotifySent \/ CheckOver \/ Join
  PROVE  UNCHANGED Contract!state
<1>u. UNCHANGED <<buf, response>> => Unsent' = Unsent
  BY DEF Unsent
<1>r. UNCHANGED <<ppc, pos>> => Ran' = Ran
  BY DEF Ran
<1> USE DEF Working, Lost, LoopWakeupLost, SentWakeupLost
<1>1. CASE Announce
  <2>1. hpc' # "idle" /\ ~Lost' /\ ~crashed'
    BY <1>1, Zenon DEF Announce, flags
  <2>2. UNCHANGED <<work, pushed, sent, buf, response, ppc, pos>>
    BY <1>1 DEF Announce, queueVs, work
  <2> QED BY <1>u, <1>r, <2>1, <2>2, QuietHandler
<1>2. CASE NotifyLoop
  <2>1. hpc' # "idle" /\ ~Lost' /\ ~crashed'
    BY <1>2 DEF NotifyLoop, flags
  <2>2. UNCHANGED <<work, pushed, sent, buf, response, pos>>
    BY <1>2 DEF NotifyLoop, queueVs, work
  <2>3. Ran' = Ran
    BY <1>2, <2>2 DEF NotifyLoop, Ran, Parsing
  <2> QED BY <1>u, <2>1, <2>2, <2>3, QuietHandler
<1>3. CASE TakeReply
  <2>1. hpc' # "idle" /\ ~Lost' /\ ~crashed'
    BY <1>3 DEF TakeReply, flags
  <2>2. UNCHANGED <<work, pushed, sent, ppc, pos>>
    BY <1>3 DEF TakeReply, work
  <2>3. Unsent' = Unsent
    BY <1>3, TakeKeepsUnsent DEF TaskInv
  <2> QED BY <1>r, <2>1, <2>2, <2>3, QuietHandler
<1>4. CASE MarkSent
  <2>1. hpc' # "idle" /\ ~Lost' /\ ~crashed'
    BY <1>4 DEF MarkSent
  <2>2. UNCHANGED <<work, pushed, sent, buf, response, ppc, pos>>
    BY <1>4 DEF MarkSent, queueVs, work
  <2> QED BY <1>u, <1>r, <2>1, <2>2, QuietHandler
<1>5. CASE NotifySent
  <2>1. hpc' # "idle" /\ ~Lost' /\ ~crashed'
    BY <1>5 DEF NotifySent, flags
  <2>2. UNCHANGED <<work, pushed, sent, buf, response, pos>>
    BY <1>5 DEF NotifySent, queueVs, work
  <2>3. Ran' = Ran
    BY <1>5, <2>2 DEF NotifySent, Ran, Parsing
  <2> QED BY <1>u, <2>1, <2>2, <2>3, QuietHandler
<1>6. CASE CheckOver \/ Join
  <2>1. hpc' # "idle" /\ ~Lost' /\ ~crashed'
    BY <1>6 DEF CheckOver, Join, flags
  <2>2. UNCHANGED <<work, pushed, sent, buf, response, ppc, pos>>
    BY <1>6 DEF CheckOver, Join, queueVs, work
  <2> QED BY <1>u, <1>r, <2>1, <2>2, QuietHandler
<1> QED BY <1>1, <1>2, <1>3, <1>4, <1>5, <1>6

(* The parser's steps between two commands or two replies.                 *)
LEMMA ParserQuiet ==
  ASSUME Working,
         CheckLoopFlag \/ Push \/ CheckSentFlag \/ ClearSentFlag \/ AfterEnqueue
         \/ CommunicationOver \/ Return
  PROVE  UNCHANGED Contract!state
<1>0. /\ todo \in Nat /\ pushed \in Nat /\ Unsent \in Nat /\ pos \in Nat
      /\ InTask /\ hpc # "idle"
  BY UnsentIs DEF Working, TaskInv, DataInv, WorkOK, QueueOK, InTask
<1>1. /\ UNCHANGED <<hpc, input, sent, applied, forwarded, crashed>>
      /\ ppc' \notin {"loopWaiting", "sentWaiting"}
  BY DEF CheckLoopFlag, Push, CheckSentFlag, ClearSentFlag, AfterEnqueue, CommunicationOver,
         Return, queueVs, work
<1>2. Stage = "working" /\ Stage' = "working" /\ InBoth
  BY <1>0, <1>1, StageCases, StageCasesNext
  DEF Working, InBoth, InTask, Lost, LoopWakeupLost, SentWakeupLost
<1>u. UNCHANGED <<buf, response>> => Unsent' = Unsent
  BY DEF Unsent
<1>3. CASE Push
  <2>1. Unsent' = Unsent + 1 /\ pushed' = pushed + 1 /\ todo' = todo - 1 /\ Ran' = Ran
    BY <1>3, PushUnsent DEF Push, Working, TaskInv, Ran, Parsing
  <2>2. Owed' = Owed /\ Handled' = Handled
    BY <1>0, <2>1 DEF Owed, Handled
  <2> QED BY <1>1, <1>2, <2>1, <2>2, StutterIs
<1>4. CASE CheckLoopFlag \/ CheckSentFlag \/ ClearSentFlag \/ CommunicationOver \/ Return
  <2>1. Ran' = Ran
    BY <1>4
    DEF CheckLoopFlag, CheckSentFlag, ClearSentFlag, CommunicationOver, Return, Ran, Parsing, work
  <2>2. UNCHANGED <<buf, response, todo, pushed>>
    BY <1>4
    DEF CheckLoopFlag, CheckSentFlag, ClearSentFlag, CommunicationOver, Return, queueVs, work
  <2> QED BY <1>1, <1>2, <1>u, <2>1, <2>2, InnerStep
<1>5. CASE AfterEnqueue
  <2>1. Ran' = Ran
    BY <1>0, <1>5 DEF AfterEnqueue, Ran, Parsing
  <2>2. UNCHANGED <<buf, response, todo, pushed>>
    BY <1>5 DEF AfterEnqueue, queueVs
  <2> QED BY <1>1, <1>2, <1>u, <2>1, <2>2, InnerStep
<1> QED BY <1>3, <1>4, <1>5

(* The parser's two waits: it goes on, or its wakeup is lost already.      *)
LEMMA ParserWaits ==
  ASSUME Working, WaitForLoop \/ WaitForSent
  PROVE  UNCHANGED Contract!state \/ Contract!Hang
<1>0. /\ todo \in Nat /\ pushed \in Nat /\ Unsent \in Nat /\ pos \in Nat
      /\ InTask /\ hpc # "idle"
  BY UnsentIs DEF Working, TaskInv, DataInv, WorkOK, QueueOK, InTask
<1>1. /\ UNCHANGED <<hpc, input, sent, applied, forwarded, crashed, todo, pushed, buf, response>>
      /\ Ran' = Ran
  BY DEF WaitForLoop, WaitForSent, queueVs, work, Ran, Parsing
<1>2. UNCHANGED <<Unsent, Owed, Handled>> /\ InBoth
  BY <1>0, <1>1 DEF Unsent, Owed, Handled, InBoth, InTask
<1>3. Stage = "working"
  BY StageCases DEF Working
<1>4. CASE ~Lost'
  <2>1. Stage' = "working"
    BY <1>1, <1>2, <1>4, StageCasesNext DEF Working, InBoth
  <2> QED BY <1>1, <1>2, <1>3, <2>1, StutterIs
<1>5. CASE Lost'
  <2>1. Stage' = "hung"
    BY <1>1, <1>2, <1>5, StageCasesNext DEF Working, InBoth
  <2>2. Ran = 0 \/ Owed > 0 \/ (Handled > 0 /\ forwarded = 0)
    <3>1. CASE WaitForLoop
      <4>1. ppc \in Parsing
        BY <3>1 DEF WaitForLoop, Parsing
      <4>2. Unsent = 0 /\ forwarded = 0 /\ Ran = pos - 1 /\ pushed = pos - 1
        BY <4>1, NoneOwedParsing DEF Working, Ran, TaskInv, CountInv
      <4> QED BY <1>0, <4>2 DEF Handled
    <3>2. CASE WaitForSent
      <4>1. ppc = "sentLock" /\ respSent
        BY <3>2, <1>5 DEF WaitForSent, Lost, LoopWakeupLost, SentWakeupLost, flags
      <4>2. Unsent < pushed /\ forwarded = 0
        BY <4>1 DEF Working, TaskInv, WaitInv, CourseInv, Enqueuing
      <4> QED BY <1>0, <4>2 DEF Handled
    <3> QED BY <3>1, <3>2
  <2> QED BY <1>1, <1>2, <1>3, <2>1, <2>2, HangIs
<1> QED BY <1>4, <1>5

(* A command is executed.                                                  *)
LEMMA RunsCommand ==
  ASSUME Working, RejectText \/ RunOneReply \/ RunPSYNC \/ RunSET
  PROVE  Contract!Execute
<1>0. /\ ppc = "parse" /\ ppc' \notin Parsing
      /\ UNCHANGED <<hpc, input, pos, sent, forwarded, crashed, pushed, buf, response>>
  BY DEF RejectText, RunOneReply, RunPSYNC, RunSET, queueVs, work, Parsing
<1>1. Unsent = 0 /\ Owed = 0 /\ MoreInput /\ Ran + 1 = pos
  BY <1>0, NoneOwedParsing DEF Working, Parsing
<1>2. /\ Stage = "working" /\ Stage' = "working" /\ InBoth
  <2>1. ~Lost' /\ InTask' /\ ~crashed'
    BY <1>0 DEF RejectText, RunOneReply, RunPSYNC, RunSET, Lost, LoopWakeupLost, SentWakeupLost,
       Working, InTask
  <2> QED BY <2>1, StageCases, StageCasesNext DEF Working, InBoth
<1>3. Unsent' = 0 /\ Handled' = Handled /\ Ran' = Ran + 1
  BY <1>0, <1>1 DEF Unsent, Handled, Ran
<1>4. todo = 0
  BY <1>0 DEF Working, TaskInv, CourseInv, Parsing
<1>5. todo' = Contract!Replies(input[pos])
  <2>1. CASE RejectText
    BY <2>1, <1>4 DEF RejectText, work, Contract!Replies
  <2>2. CASE RunOneReply
    BY <2>2 DEF RunOneReply, OneReply, Contract!Replies
  <2>3. CASE RunPSYNC
    BY <2>3 DEF RunPSYNC, Contract!Replies
  <2>4. CASE RunSET
    BY <2>4 DEF RunSET, Contract!Replies
  <2> QED BY <2>1, <2>2, <2>3, <2>4
<1>6. Owed' = Contract!Replies(input[pos])
  BY <1>3, <1>5 DEF Owed, Contract!Replies
<1>7. applied' = IF input[pos] = "SET" THEN applied + 1 ELSE applied
  BY DEF RejectText, RunOneReply, RunPSYNC, RunSET, OneReply, work
<1> QED BY <1>0, <1>1, <1>2, <1>3, <1>6, <1>7, ExecuteIs

(* A reply has been handed to send(), or ends the process.                 *)
LEMMA SendsReply ==
  ASSUME Working, SendReply
  PROVE  Contract!Reply \/ Contract!Die
<1>0. /\ todo \in Nat /\ pushed \in Nat /\ Unsent \in Nat /\ Unsent # 0 /\ Len(buf) \in Nat
      /\ response # 0 /\ response = pushed - Len(buf)
  <2>1. response # 0
    BY DEF SendReply, Working, TaskInv, OrderInv, ResponseInv
  <2> QED BY <2>1, UnsentIs DEF Working, TaskInv, DataInv, WorkOK, QueueOK, OrderInv, QueueInv
<1>1. /\ UNCHANGED <<ppc, inLoop, respSent, input, pos, applied, forwarded, todo, pushed, buf>>
      /\ Ran' = Ran
  BY Zenon DEF SendReply, flags, work, Ran
<1>2. Stage = "working" /\ Owed > 0
  BY <1>0, StageCases DEF Working, Owed
<1>3. CASE crashed'
  <2>1. UNCHANGED <<sent, response, hpc>>
    BY <1>3, Zenon DEF SendReply, Working
  <2>2. InBoth /\ UNCHANGED <<Unsent, Owed, Handled>>
    BY <1>1, <2>1 DEF Working, InBoth, InTask, Unsent, Owed, Handled
  <2>3. Stage' = "dead"
    BY <1>3, <2>2, StageCasesNext DEF InBoth
  <2> QED BY <1>1, <1>2, <2>1, <2>2, <2>3, DieIs
<1>4. CASE ~crashed'
  <2>1. hpc' = "mark" /\ response' = 0 /\ sent' \in {sent, Append(sent, response)}
    BY <1>4, Zenon DEF SendReply, Working
  <2>2. InBoth /\ ~Lost'
    BY <1>1, <2>1
    DEF Working, InBoth, InTask, Lost, LoopWakeupLost, SentWakeupLost, SendReply
  <2>3. Stage' = "working"
    BY <1>4, <2>2, StageCasesNext DEF InBoth
  <2>4. Unsent' = Unsent - 1
    BY <2>1, SendUnsent DEF Working, TaskInv
  <2>5. Owed' = Owed - 1 /\ Handled' = Handled + 1
    BY <1>0, <1>1, <2>4 DEF Owed, Handled
  <2>6. Unsent' = Len(buf)
    BY <1>0, <1>1, <2>1 DEF Unsent
  <2>7. Handled' = response
    BY <1>0, <1>1, <2>6 DEF Handled
  <2> QED BY <1>1, <1>2, <2>1, <2>2, <2>3, <2>5, <2>7, ReplyIs
<1> QED BY <1>3, <1>4

(* An exception ends the process with the next command unexecuted.         *)
LEMMA BadInputDies ==
  ASSUME Working, ThrowOnBadInput
  PROVE  Contract!Die
<1>0. ppc = "parse" /\ crashed' /\ UNCHANGED <<hpc, ppc, flags, queueVs, work>>
  BY Zenon DEF ThrowOnBadInput
<1>1. MoreInput /\ Owed = 0
  BY <1>0, NoneOwedParsing DEF Working, Parsing
<1>2. UNCHANGED <<input, Ran, Owed, Handled, sent, applied, forwarded>>
  BY <1>0 DEF queueVs, work, Ran, Owed, Handled, Unsent
<1>3. InBoth
  BY <1>0 DEF Working, InBoth, InTask
<1>4. Stage = "working" /\ Stage' = "dead"
  BY <1>0, <1>3, StageCases, StageCasesNext DEF Working, InBoth
<1> QED BY <1>1, <1>2, <1>3, <1>4, DieIs

LEMMA NoMoreClosing ==
  ASSUME TaskInv, ppc \in Closing
  PROVE  Ran = pos /\ ~MoreInput /\ todo = 0 /\ Owed = Unsent
<1>0. pos \in Nat /\ pos # 0 /\ Unsent \in Nat /\ pos <= Len(input) /\ Len(input) \in Nat
  BY UnsentIs, InputsAssumption DEF TaskInv, DataInv, WorkOK
<1>1. Ran = pos /\ todo = 0 /\ (input[pos] # "SET" \/ ~NestedCommandFollows)
  BY DEF TaskInv, CourseInv, Ran, Closing, Parsing
<1> QED BY <1>0, <1>1 DEF MoreInput, NestedCommandFollows, Owed

(* A SET is propagated, a single one after its reply.                      *)
LEMMA PropagateForwards ==
  ASSUME Working, Propagate
  PROVE  Contract!Forward
<1>0. /\ ppc = "propagate" /\ ppc' = "over" /\ forwarded' = forwarded + 1
      /\ UNCHANGED <<hpc, flags, queueVs, input, pos, depth, todo, applied, crashed>>
  BY Zenon DEF Propagate
<1>1. Ran = pos /\ ~MoreInput /\ Owed = Unsent
  BY <1>0, NoMoreClosing DEF Working, Closing
<1>2. forwarded < applied
  BY <1>0 DEF Working, TaskInv, ForwardInv, OpenSet, DataInv, WorkOK
<1>3. Owed = 0 \/ Ran > 1
  BY <1>0, <1>1 DEF Working, TaskInv, CourseInv, CountInv
<1>4. UNCHANGED <<input, Ran, Owed, Handled, sent, applied>>
  BY <1>0 DEF queueVs, Ran, Parsing, Owed, Handled, Unsent
<1>5. InBoth /\ ~Lost'
  BY <1>0 DEF Working, InBoth, InTask, Lost, LoopWakeupLost, SentWakeupLost
<1>6. Stage = "working" /\ Stage' = "working"
  BY <1>0, <1>5, StageCases, StageCasesNext DEF Working, InBoth
<1> QED BY <1>0, <1>1, <1>2, <1>3, <1>4, <1>5, <1>6, ForwardIs

(* The object is deleted when all has been sent and propagated.            *)
LEMMA DeleteEnds ==
  ASSUME Working, DeleteParser
  PROVE  Contract!End
<1>0. hpc = "joined" /\ hpc' = "idle" /\ ppc = "done"
  BY DEF DeleteParser, Working, TaskInv, LifeInv
<1>1. buf = <<>> /\ response = 0
  BY <1>0 DEF Working, TaskInv, TakenInv, OrderInv, ResponseInv
<1>2. ~MoreInput /\ Owed = 0
  BY <1>0, <1>1, NoMoreClosing, UnsentIs DEF Working, Closing, TaskInv
<1>3. forwarded = applied
  BY <1>0 DEF Working, TaskInv, ForwardInv, OpenSet, Enqueuing, DataInv, WorkOK
<1>4. InTask /\ ~InTask' /\ Stage = "working" /\ Stage' = "idle"
  BY <1>0, StageCases DEF Working, InTask, Stage
<1> QED BY <1>2, <1>3, <1>4, EndIs

LEMMA StartBegins ==
  ASSUME NEW in \in Inputs, ~crashed, StartTask(in)
  PROVE  Contract!Begin
<1>1. ~InTask /\ InTask' /\ Stage = "idle"
  BY DEF StartTask, InTask, Stage
<1>3. ~Lost' /\ ~crashed'
  BY DEF StartTask, Lost, LoopWakeupLost, SentWakeupLost
<1>4. Stage' = "working"
  BY <1>1, <1>3, StageCasesNext
<1>2. /\ input' \in Inputs /\ sent' = <<>> /\ applied' = 0 /\ forwarded' = 0
      /\ ppc' = "begin" /\ pos' = 1 /\ todo' = 0 /\ pushed' = 0 /\ buf' = <<>> /\ response' = 0
  BY Zenon DEF StartTask
<1>5. Unsent' = 0
  BY <1>2 DEF Unsent
<1>6. Ran' = 0
  BY <1>2 DEF Ran, Parsing
<1>7. Owed' = 0 /\ Handled' = 0
  BY <1>2, <1>5 DEF Owed, Handled
<1> QED BY <1>1, <1>2, <1>4, <1>6, <1>7, BeginIs

LEMMA NotStarting ==
  ASSUME [Next]_vars, ~ \E in \in Inputs : StartTask(in)
  PROVE  UNCHANGED input
BY StepCases, Zenon
DEF Announce, NotifyLoop, TakeReply, SendReply, MarkSent, NotifySent, CheckOver, Join,
    DeleteParser, CheckLoopFlag, WaitForLoop, RejectText, ThrowOnBadInput, RunOneReply,
    RunPSYNC, RunSET, Push, CheckSentFlag, WaitForSent, ClearSentFlag, AfterEnqueue,
    Propagate, CommunicationOver, Return, SpuriousWakeup, vars, work

LEMMA TaskStep ==
  ASSUME ShortTasks, TaskInv, [Next]_vars
  PROVE  TaskInv'
<1>1. ~SpuriousWakeups /\ ShortInput(input)
  BY DEF ShortTasks, TaskInv, DataInv, WorkOK
<1>2. DataInv' /\ LifeInv' /\ ForwardInv' /\ OrderInv' /\ OverInv'
  BY DataStep, LifeStep, ForwardStep, OrderStep, OverStep DEF TaskInv
<1>3. TakenInv'
  BY <1>1, TakenStep DEF TaskInv
<1>4. WaitInv'
  BY <1>1, WaitStep DEF TaskInv
<1>5. CASE \E in \in Inputs : StartTask(in)
  <2>1. CountInv'
    BY <1>5 DEF StartTask, CountInv, Parsing, Enqueuing
  <2>2. CourseInv'
    BY <1>5 DEF StartTask, CourseInv, Parsing, Enqueuing, Closing
  <2> QED BY <1>2, <1>3, <1>4, <2>1, <2>2 DEF TaskInv
<1>6. CASE ~ \E in \in Inputs : StartTask(in)
  <2>1. UNCHANGED input
    BY <1>6, NotStarting
  <2>2. CountInv' /\ CourseInv'
    BY <1>1, <2>1, CountStep, CourseStep DEF TaskInv
  <2> QED BY <1>2, <1>3, <1>4, <2>2 DEF TaskInv
<1> QED BY <1>5, <1>6

LEMMA TaskInit == Init => TaskInv
<1> SUFFICES ASSUME Init PROVE TaskInv
  OBVIOUS
<1>1. DataInv /\ OrderInv
  BY TypeInit, OrderInit
<1>2. LifeInv /\ ForwardInv /\ OverInv
  BY DEF Init, LifeInv, ParserOutlivesThread, ForwardInv, OpenSet, Enqueuing, OverInv
<1>3. CountInv /\ TakenInv
  BY DEF Init, CountInv, TakenInv, Parsing, Enqueuing, HandlerHoldsBuf
<1>4. WaitInv /\ CourseInv
  BY DEF Init, WaitInv, CourseInv, Parsing, Enqueuing, Closing
<1> QED BY <1>1, <1>2, <1>3, <1>4 DEF TaskInv

LEMMA ContractInit == Init => Contract!Init
BY DEF Init, Contract!Init, InTask, Stage

(* Every step of the two threads is a step of the contract or a stutter.   *)
LEMMA ContractStep ==
  ASSUME ShortTasks, TaskInv, [Next]_vars
  PROVE  [Contract!Next]_Contract!state
<1>1. CASE UNCHANGED vars
  <2>1. UNCHANGED <<InTask, Stage, input, Ran, Owed, Handled, sent, applied, forwarded>>
    BY <1>1
    DEF vars, InTask, Stage, LoopWakeupLost, SentWakeupLost, Ran, Owed, Handled, Unsent
  <2> QED BY <2>1 DEF Contract!state, Contract!work
<1>2. CASE ~UNCHANGED vars /\ (crashed \/ SpuriousWakeup)
  BY <1>2 DEF Next, HandlerStep, ParserStep, SpuriousWakeup, ShortTasks
<1>3. CASE ~crashed /\ \E in \in Inputs : StartTask(in)
  BY <1>3, StartBegins DEF Contract!Next
<1>4. CASE ~crashed /\ InTask /\ Lost
  BY <1>4, HungStep DEF ShortTasks
<1>5. CASE /\ ~UNCHANGED vars /\ ~crashed /\ ~SpuriousWakeup
           /\ ~ \E in \in Inputs : StartTask(in)
           /\ ~(InTask /\ Lost)
  <2>1. InTask
    <3>1. ASSUME hpc = "idle" PROVE FALSE
      <4>1. ppc = "none"
        BY <3>1 DEF TaskInv, LifeInv, ParserOutlivesThread
      <4>2. ~ (Announce \/ NotifyLoop \/ TakeReply \/ SendReply \/ MarkSent \/ NotifySent
               \/ CheckOver \/ Join \/ DeleteParser)
        BY <3>1 DEF Announce, NotifyLoop, TakeReply, SendReply, MarkSent, NotifySent, CheckOver,
           Join, DeleteParser
      <4>3. ~ (CheckLoopFlag \/ WaitForLoop \/ RejectText \/ ThrowOnBadInput \/ RunOneReply
               \/ RunPSYNC \/ RunSET \/ Push)
        BY <4>1 DEF CheckLoopFlag, WaitForLoop, RejectText, ThrowOnBadInput, RunOneReply,
           RunPSYNC, RunSET, Push
      <4>4. ~ (CheckSentFlag \/ WaitForSent \/ ClearSentFlag \/ AfterEnqueue \/ Propagate
               \/ CommunicationOver \/ Return)
        BY <4>1 DEF CheckSentFlag, WaitForSent, ClearSentFlag, AfterEnqueue, Propagate,
           CommunicationOver, Return
      <4> QED BY <1>5, <4>2, <4>3, <4>4, StepCases, Zenon
    <3> QED BY <3>1 DEF InTask
  <2>2. Working
    BY <1>5, <2>1 DEF Working
  <2>3. CASE Announce \/ NotifyLoop \/ TakeReply \/ MarkSent \/ NotifySent \/ CheckOver \/ Join
    BY <2>2, <2>3, HandlerQuiet
  <2>4. CASE CheckLoopFlag \/ Push \/ CheckSentFlag \/ ClearSentFlag \/ AfterEnqueue
             \/ CommunicationOver \/ Return
    BY <2>2, <2>4, ParserQuiet
  <2>5. CASE WaitForLoop \/ WaitForSent
    BY <2>2, <2>5, ParserWaits DEF Contract!Next
  <2>6. CASE RejectText \/ RunOneReply \/ RunPSYNC \/ RunSET
    BY <2>2, <2>6, RunsCommand DEF Contract!Next
  <2>7. CASE SendReply
    BY <2>2, <2>7, SendsReply DEF Contract!Next
  <2>8. CASE ThrowOnBadInput
    BY <2>2, <2>8, BadInputDies DEF Contract!Next
  <2>9. CASE Propagate
    BY <2>2, <2>9, PropagateForwards DEF Contract!Next
  <2>10. CASE DeleteParser
    BY <2>2, <2>10, DeleteEnds DEF Contract!Next
  <2> QED
    BY <1>5, <2>3, <2>4, <2>5, <2>6, <2>7, <2>8, <2>9, <2>10, StepCases, Zenon
<1> QED BY <1>1, <1>2, <1>3, <1>4, <1>5

(* With inputs of at most two replies and waits that only a notify ends,   *)
(* the two threads keep the contract RedisServer's tasks are built on: the *)
(* next command, the propagation of a single SET and the end of the task   *)
(* come after the reply before them, although the parser runs ahead on a   *)
(* stale response_sent, and a task that lost a wakeup is never heard of    *)
(* again.                                                                  *)
THEOREM ContractKept == ASSUME ShortTasks PROVE Spec => KeepsContract
<1>1. TaskInv /\ [Next]_vars => TaskInv'
  BY TaskStep
<1>2. TaskInv /\ [Next]_vars => [Contract!Next]_Contract!state
  BY ContractStep
<1> QED BY TaskInit, ContractInit, <1>1, <1>2, PTL DEF Spec, KeepsContract, Contract!Spec

=============================================================================
