--------------------------- MODULE ResponseChannel ---------------------------
(***************************************************************************)
(* One task of the server: ClientHandler::response_handler, run by a       *)
(* worker, and the RedisParser thread it starts for the bytes of one       *)
(* recv().  The two threads share a RedisParser object: three atomic       *)
(* flags, the reply queue response_buf behind response_buf_mtx, and three  *)
(* condition variables.  The parser thread executes the commands found in  *)
(* the input and hands each reply to the handler, which sends it.          *)
(*                                                                         *)
(* The effects a command has outside the channel are counted, not          *)
(* modelled: `applied' counts calls of DatabaseHandler::set, `forwarded'   *)
(* the runs of the propagation loop.  RedisServer models them in full.     *)
(***************************************************************************)
EXTENDS Naturals, Sequences

CONSTANTS
  Inputs,           \* the byte strings recv() may return, as sequences of segments
  SpuriousWakeups,  \* may condition_variable::wait return without a notify?
  SendOutcomes      \* what send() to the client may do

(* Commands that enqueue exactly one reply and leave the channel.          *)
OneReply == {"ECHO", "PING", "GET", "CONFIG", "KEYS", "INFO", "REPLCONF", "UNKNOWN"}

(* TEXT is input that does not start with '*'; BAD starts with '*' but     *)
(* makes std::stoi or parseBulkString throw before the command runs.       *)
Segments == OneReply \cup {"SET", "PSYNC", "TEXT", "BAD"}

ASSUME InputsAssumption == Inputs \subseteq (Seq(Segments) \ {<<>>})
ASSUME SpuriousAssumption == SpuriousWakeups \in BOOLEAN
ASSUME OutcomesAssumption == SendOutcomes \subseteq {"ok", "error", "sigpipe"}

VARIABLES
  hpc, ppc,      \* control of response_handler and of the parser thread
  input,         \* recv_str
  pos,           \* the segment the innermost parseRESPCommand is at
  depth,         \* parseSETCommand frames waiting for a nested parseRESPCommand
  todo,          \* replies the current command still has to enqueue
  inLoop,        \* handler_in_communication_loop
  isComm,        \* is_communicating
  respSent,      \* response_sent
  buf,           \* response_buf: replies, numbered in the order they are enqueued
  response,      \* the handler's local reply; 0 is the empty string
  pushed,        \* replies enqueued by this task
  sent,          \* replies send() accepted, in order
  applied,       \* SETs written to the database by this task
  forwarded,     \* times the input was offered to the connected slaves
  crashed        \* std::terminate or SIGPIPE ended the process

flags   == <<inLoop, isComm, respSent>>
queueVs == <<buf, response, pushed, sent>>
work    == <<input, pos, depth, todo, applied, forwarded>>
vars    == <<hpc, ppc, input, pos, depth, todo, inLoop, isComm, respSent,
             buf, response, pushed, sent, applied, forwarded, crashed>>

HandlerPC == {"idle", "loop", "notifyLoop", "wait", "send", "mark", "notifySent",
              "check", "join", "joined"}
ParserPC  == {"none", "begin", "loopLock", "loopWaiting", "parse", "push", "checkSent",
              "sentLock", "sentWaiting", "sentWoken", "enqueued", "propagate", "over",
              "return", "done"}

(* response_buf_mtx: the handler holds it from the end of wait_for to the  *)
(* end of the loop body; the parser only inside enqueueMessage's push.     *)
HandlerHoldsBuf == hpc \in {"send", "mark", "notifySent", "check"}

Init ==
  /\ hpc = "idle" /\ ppc = "none"
  /\ input \in Inputs /\ pos = 1 /\ depth = 0 /\ todo = 0
  /\ inLoop = FALSE /\ isComm = FALSE /\ respSent = FALSE
  /\ buf = <<>> /\ response = 0 /\ pushed = 0 /\ sent = <<>>
  /\ applied = 0 /\ forwarded = 0
  /\ crashed = FALSE

-----------------------------------------------------------------------------
(* response_handler                                                        *)

(* A new RedisParser, is_communicating set, the parser thread started.     *)
StartTask(in) ==
  /\ hpc = "idle" /\ hpc' = "loop" /\ ppc' = "begin"
  /\ input' = in /\ pos' = 1 /\ depth' = 0 /\ todo' = 0
  /\ inLoop' = FALSE /\ isComm' = TRUE /\ respSent' = FALSE
  /\ buf' = <<>> /\ response' = 0 /\ pushed' = 0 /\ sent' = <<>>
  /\ applied' = 0 /\ forwarded' = 0
  /\ UNCHANGED crashed

(* The flag is set on the first iteration only ...                         *)
Announce ==
  /\ hpc = "loop"
  /\ hpc' = IF inLoop THEN "wait" ELSE "notifyLoop"
  /\ inLoop' = TRUE
  /\ UNCHANGED <<ppc, isComm, respSent, queueVs, work, crashed>>

(* ... and so is its notify_one, which reaches a parser already waiting.   *)
NotifyLoop ==
  /\ hpc = "notifyLoop" /\ hpc' = "wait"
  /\ ppc' = IF ppc = "loopWaiting" THEN "parse" ELSE ppc
  /\ UNCHANGED <<flags, queueVs, work, crashed>>

(* wait_for returns on a notify or after 5 ms, with response_buf_mtx held. *)
TakeReply ==
  /\ hpc = "wait"
  /\ response' = IF buf # <<>> THEN Head(buf) ELSE response
  /\ buf' = IF buf # <<>> THEN Tail(buf) ELSE buf
  /\ hpc' = IF response' # 0 THEN "send" ELSE "check"
  /\ UNCHANGED <<ppc, flags, pushed, sent, work, crashed>>

M_SendKeepsResponse ==
  /\ hpc = "send" /\ hpc' = "mark" /\ sent' = Append(sent, response)
  /\ UNCHANGED <<ppc, flags, buf, response, pushed, work, crashed>>

(* The send loop: the whole reply goes out, send() fails and the rest is   *)
(* dropped, or the peer is gone and SIGPIPE ends the process.              *)
SendReply ==
  /\ hpc = "send"
  /\ \E outcome \in SendOutcomes :
       \/ /\ outcome = "ok"
          /\ sent' = Append(sent, response) /\ response' = 0 /\ hpc' = "mark"
          /\ UNCHANGED crashed
       \/ /\ outcome = "error"
          /\ response' = 0 /\ hpc' = "mark"
          /\ UNCHANGED <<sent, crashed>>
       \/ /\ outcome = "sigpipe"
          /\ crashed' = TRUE
          /\ UNCHANGED <<sent, response, hpc>>
  /\ UNCHANGED <<ppc, flags, buf, pushed, work>>

MarkSent ==
  /\ hpc = "mark" /\ hpc' = "notifySent"
  /\ respSent' = TRUE
  /\ UNCHANGED <<ppc, inLoop, isComm, queueVs, work, crashed>>

NotifySent ==
  /\ hpc = "notifySent" /\ hpc' = "check"
  /\ ppc' = IF ppc = "sentWaiting" THEN "sentWoken" ELSE ppc
  /\ UNCHANGED <<flags, queueVs, work, crashed>>

(* The end of the loop body; response_buf_mtx is released either way.      *)
CheckOver ==
  /\ hpc = "check"
  /\ hpc' = IF isComm THEN "loop" ELSE "join"
  /\ UNCHANGED <<ppc, flags, queueVs, work, crashed>>

M_JoinAtOnce ==
  /\ hpc = "join" /\ hpc' = "joined"
  /\ UNCHANGED <<ppc, flags, queueVs, work, crashed>>

Join ==
  /\ hpc = "join" /\ ppc = "done" /\ hpc' = "joined"
  /\ UNCHANGED <<ppc, flags, queueVs, work, crashed>>

(* The object goes; a thread still running (there is none after the join)  *)
(* would go on without it.                                                 *)
DeleteParser ==
  /\ hpc = "joined" /\ hpc' = "idle"
  /\ ppc' = IF ppc = "done" THEN "none" ELSE ppc
  /\ UNCHANGED <<flags, queueVs, work, crashed>>

-----------------------------------------------------------------------------
(* The parser thread: parseRESPCommand                                     *)

CheckLoopFlag ==
  /\ ppc = "begin"
  /\ ppc' = IF inLoop THEN "parse" ELSE "loopLock"
  /\ UNCHANGED <<hpc, flags, queueVs, work, crashed>>

(* condition_variable::wait without a predicate.                           *)
WaitForLoop ==
  /\ ppc = "loopLock" /\ ppc' = "loopWaiting"
  /\ UNCHANGED <<hpc, flags, queueVs, work, crashed>>

M_RejectTextSilently ==
  /\ ppc = "parse" /\ input[pos] = "TEXT" /\ ppc' = "return"
  /\ UNCHANGED <<hpc, flags, queueVs, work, crashed>>

(* Not an array: no reply, communication_over.                             *)
RejectText ==
  /\ ppc = "parse" /\ input[pos] = "TEXT" /\ ppc' = "over"
  /\ UNCHANGED <<hpc, flags, queueVs, work, crashed>>

(* An exception leaves the thread function: std::terminate.                *)
ThrowOnBadInput ==
  /\ ppc = "parse" /\ input[pos] = "BAD" /\ crashed' = TRUE
  /\ UNCHANGED <<hpc, ppc, flags, queueVs, work>>

RunOneReply ==
  /\ ppc = "parse" /\ input[pos] \in OneReply /\ ppc' = "push"
  /\ todo' = 1
  /\ UNCHANGED <<hpc, flags, queueVs, input, pos, depth, applied, forwarded, crashed>>

(* +FULLRESYNC and the RDB file are two replies.                           *)
RunPSYNC ==
  /\ ppc = "parse" /\ input[pos] = "PSYNC" /\ ppc' = "push"
  /\ todo' = 2
  /\ UNCHANGED <<hpc, flags, queueVs, input, pos, depth, applied, forwarded, crashed>>

(* The database is written before +OK is enqueued.                         *)
RunSET ==
  /\ ppc = "parse" /\ input[pos] = "SET" /\ ppc' = "push"
  /\ todo' = 1 /\ applied' = applied + 1
  /\ UNCHANGED <<hpc, flags, queueVs, input, pos, depth, forwarded, crashed>>

M_PushUnlocked ==
  /\ ppc = "push" /\ ppc' = "checkSent"
  /\ pushed' = pushed + 1 /\ buf' = Append(buf, pushed + 1) /\ todo' = todo - 1
  /\ UNCHANGED <<hpc, flags, response, sent, input, pos, depth, applied, forwarded, crashed>>

(* enqueueMessage: the push under response_buf_mtx.  The notify that       *)
(* follows only shortens the handler's 5 ms wait.                          *)
Push ==
  /\ ppc = "push" /\ ~HandlerHoldsBuf /\ ppc' = "checkSent"
  /\ pushed' = pushed + 1 /\ buf' = Append(buf, pushed + 1) /\ todo' = todo - 1
  /\ UNCHANGED <<hpc, flags, response, sent, input, pos, depth, applied, forwarded, crashed>>

M_NeverWaits ==
  /\ ppc = "checkSent" /\ ppc' = "enqueued"
  /\ UNCHANGED <<hpc, flags, queueVs, work, crashed>>

(* wait_till_reponse_sent: a flag already set is left set.                 *)
CheckSentFlag ==
  /\ ppc = "checkSent"
  /\ ppc' = IF respSent THEN "enqueued" ELSE "sentLock"
  /\ UNCHANGED <<hpc, flags, queueVs, work, crashed>>

WaitForSent ==
  /\ ppc = "sentLock" /\ ppc' = "sentWaiting"
  /\ UNCHANGED <<hpc, flags, queueVs, work, crashed>>

ClearSentFlag ==
  /\ ppc = "sentWoken" /\ ppc' = "enqueued"
  /\ respSent' = FALSE
  /\ UNCHANGED <<hpc, inLoop, isComm, queueVs, work, crashed>>

M_AlwaysNested == TRUE

(* parseSETCommand goes on with the rest of the input if a '*' follows.    *)
NestedCommandFollows == pos < Len(input) /\ input[pos + 1] # "TEXT"

(* enqueueMessage has returned: the second reply of PSYNC, the nested      *)
(* command after a SET, the propagation of a SET, or the end.              *)
AfterEnqueue ==
  /\ ppc = "enqueued"
  /\ \/ /\ todo > 0 /\ ppc' = "push"
        /\ UNCHANGED <<pos, depth>>
     \/ /\ todo = 0 /\ input[pos] = "SET" /\ NestedCommandFollows
        /\ pos' = pos + 1 /\ depth' = depth + 1 /\ ppc' = "begin"
     \/ /\ todo = 0 /\ input[pos] = "SET" /\ ~NestedCommandFollows /\ ppc' = "propagate"
        /\ UNCHANGED <<pos, depth>>
     \/ /\ todo = 0 /\ input[pos] # "SET" /\ ppc' = "over"
        /\ UNCHANGED <<pos, depth>>
  /\ UNCHANGED <<hpc, flags, queueVs, input, todo, applied, forwarded, crashed>>

(* The loop over connected_slaves: the whole input is sent to each.        *)
Propagate ==
  /\ ppc = "propagate" /\ ppc' = "over"
  /\ forwarded' = forwarded + 1
  /\ UNCHANGED <<hpc, flags, queueVs, input, pos, depth, todo, applied, crashed>>

CommunicationOver ==
  /\ ppc = "over" /\ ppc' = "return"
  /\ isComm' = FALSE
  /\ UNCHANGED <<hpc, inLoop, respSent, queueVs, work, crashed>>

M_ReturnDropsFrames ==
  /\ ppc = "return" /\ ppc' = "done" /\ depth' = 0
  /\ UNCHANGED <<hpc, flags, queueVs, input, pos, todo, applied, forwarded, crashed>>

(* A nested parseRESPCommand returns into the SET that called it.          *)
Return ==
  /\ ppc = "return"
  /\ ppc' = IF depth > 0 THEN "propagate" ELSE "done"
  /\ depth' = IF depth > 0 THEN depth - 1 ELSE depth
  /\ UNCHANGED <<hpc, flags, queueVs, input, pos, todo, applied, forwarded, crashed>>

(* Neither wait has a predicate, so a spurious wakeup ends it.             *)
SpuriousWakeup ==
  /\ SpuriousWakeups
  /\ \/ ppc = "loopWaiting" /\ ppc' = "parse"
     \/ ppc = "sentWaiting" /\ ppc' = "sentWoken"
  /\ UNCHANGED <<hpc, flags, queueVs, work, crashed>>

-----------------------------------------------------------------------------
HandlerStep ==
  /\ ~crashed
  /\ \/ Announce \/ NotifyLoop \/ TakeReply \/ SendReply \/ MarkSent
     \/ NotifySent \/ CheckOver \/ Join \/ DeleteParser

ParserStep ==
  /\ ~crashed
  /\ \/ CheckLoopFlag \/ WaitForLoop \/ RejectText \/ ThrowOnBadInput
     \/ RunOneReply \/ RunPSYNC \/ RunSET \/ Push \/ CheckSentFlag
     \/ WaitForSent \/ ClearSentFlag \/ AfterEnqueue \/ Propagate
     \/ CommunicationOver \/ Return

Next ==
  \/ \E in \in Inputs : ~crashed /\ StartTask(in)
  \/ HandlerStep
  \/ ParserStep
  \/ ~crashed /\ SpuriousWakeup

Spec == Init /\ [][Next]_vars

(* Both threads are scheduled; the parser, which competes for              *)
(* response_buf_mtx with a handler that releases it for up to 5 ms on      *)
(* every iteration, gets it in the end.  Nothing is assumed of spurious    *)
(* wakeups or of the arrival of tasks.                                     *)
FairSpec ==
  /\ Spec
  /\ WF_vars(HandlerStep)
  /\ WF_vars(ParserStep)
  /\ SF_vars(~crashed /\ Push)

-----------------------------------------------------------------------------
(* Properties                                                              *)

(* The types of the flags, the queue and the two threads' control; pos     *)
(* stays inside the input while SETs recurse through it.                   *)
FlagsOK == /\ inLoop \in BOOLEAN /\ isComm \in BOOLEAN /\ respSent \in BOOLEAN
           /\ crashed \in BOOLEAN
WorkOK  == /\ hpc \in HandlerPC /\ ppc \in ParserPC
           /\ input \in Inputs /\ pos \in 1..Len(input)
           /\ depth \in Nat /\ todo \in 0..2 /\ applied \in Nat /\ forwarded \in Nat
QueueOK == /\ buf \in Seq(Nat \ {0}) /\ response \in Nat
           /\ pushed \in Nat /\ sent \in Seq(Nat)
TypeOK  == FlagsOK /\ WorkOK /\ QueueOK

(* Inputs whose commands enqueue at most two replies in all.               *)
ShortInput(in) ==
  \/ in[1] # "SET"
  \/ Len(in) = 1
  \/ Len(in) = 2 /\ in[2] # "PSYNC"

(* When response_handler joins the parser thread, every reply the thread   *)
(* enqueued has been taken for sending: is_communicating is read under     *)
(* response_buf_mtx, so the handler never leaves its loop with the last    *)
(* reply still queued.  Holds for inputs with at most two replies, when    *)
(* no wait returns spuriously.                                             *)
NoReplyLost ==
  hpc = "joined" /\ ShortInput(input) /\ ~SpuriousWakeups => buf = <<>>

(* What the comment in parseSETCommand says of enqueueMessage: the wait is *)
(* there so that the parser is not deleted before the response is sent.    *)
NoReplyLostAnyInput == hpc = "joined" => buf = <<>>

(* Every reply goes out at most once and in the order the commands were    *)
(* executed, whatever send() returns: response is cleared after each send. *)
SentOnceInOrder ==
  \A i \in 1..Len(sent) : sent[i] <= pushed /\ (i > 1 => sent[i - 1] < sent[i])

(* A task that ends has offered the input to the slaves once per SET it    *)
(* applied: the outer SETs of a pipelined input still propagate after the  *)
(* innermost command has already ended the communication.                  *)
EverySetForwarded == hpc = "joined" => forwarded = applied

(* The RedisParser object is deleted only when its thread, which goes on   *)
(* using it after communication_over, has ended.                           *)
ParserOutlivesThread == hpc = "idle" => ppc = "none"

(* The two windows in which a notify_one finds nobody waiting and is never *)
(* repeated: the flag was read, then set and notified, then waited on.     *)
LoopWakeupLost == ppc = "loopWaiting" /\ inLoop /\ hpc # "notifyLoop"
SentWakeupLost == ppc = "sentWaiting" /\ respSent /\ hpc # "notifySent"

(* Every task ends, or the process does, unless one of the two wakeups is  *)
(* lost: failed sends, ignored input and nested SETs never hang a worker.  *)
FinishesUnlessWakeupLost ==
  hpc = "loop" ~> (hpc = "idle" \/ crashed \/ LoopWakeupLost \/ SentWakeupLost)

(* "Wait till in communication loop" and "Wait till the response is sent   *)
(* by the client Handler": the parser's two waits end once the handler is  *)
(* in its loop, and once it has sent the reply.                            *)
WaitsEnd ==
  /\ inLoop ~> (ppc # "loopWaiting" \/ crashed)
  /\ respSent ~> (ppc # "sentWaiting" \/ crashed)

(* What the task has done, as its contract sees it: a command counts once  *)
(* it has been executed, a reply once send() has returned.  A task hangs   *)
(* when a wakeup is lost.                                                  *)
InTask  == hpc # "idle"
Parsing == {"begin", "loopLock", "loopWaiting", "parse"}
Unsent  == Len(buf) + (IF response # 0 THEN 1 ELSE 0)
Ran     == IF ppc \in Parsing THEN pos - 1 ELSE pos
Owed    == todo + Unsent
Handled == pushed - Unsent
Stage ==
  IF ~InTask THEN "idle" ELSE IF crashed THEN "dead"
  ELSE IF LoopWakeupLost \/ SentWakeupLost THEN "hung" ELSE "working"

Contract == INSTANCE TaskContract WITH
  Chunks    <- Inputs,
  stage     <- Stage,
  chunk     <- IF InTask THEN input ELSE <<>>,
  ran       <- IF InTask THEN Ran ELSE 0,
  owed      <- IF InTask THEN Owed ELSE 0,
  handled   <- IF InTask THEN Handled ELSE 0,
  sent      <- IF InTask THEN sent ELSE <<>>,
  applied   <- IF InTask THEN applied ELSE 0,
  forwarded <- IF InTask THEN forwarded ELSE 0

(* With at most two replies per input and no spurious wakeup, a task keeps *)
(* its contract, although the parser runs ahead of the handler on a stale  *)
(* response_sent: the next command, the propagation of a single SET and    *)
(* the end come after the reply before them, and a task whose wakeup was   *)
(* lost never does anything again.                                         *)
KeepsContract == Contract!Spec
=============================================================================
