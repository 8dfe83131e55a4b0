---------------------------- MODULE TaskContract ----------------------------
(***************************************************************************)
(* What a task promises whoever runs it: the commands of its chunk run one *)
(* after the other, each waits for the reply of the one before, a SET is   *)
(* propagated after its reply, and the task ends when all replies have     *)
(* been handed to send() and all SETs propagated.  It may also hang for    *)
(* ever, before its first command or after a reply, or end the process.    *)
(* ResponseChannel keeps this promise for chunks of at most two replies;   *)
(* RedisServer runs tasks that make no other.                              *)
(***************************************************************************)
EXTENDS Naturals, Sequences

CONSTANT Chunks   \* the commands a chunk may hold, as sequences of their names

VARIABLES
  stage,      \* "idle", "working", "hung", "dead" with the process
  chunk,      \* the commands of the task
  ran,        \* how many of them have been executed
  owed,       \* replies of the last one not yet handed to send()
  handled,    \* replies handed to send()
  sent,       \* those that send() accepted, by number
  applied,    \* SETs executed
  forwarded   \* SETs propagated

work  == <<chunk, ran, owed, handled, sent, applied, forwarded>>
state == <<stage, work>>

Replies(command) ==
  CASE command = "TEXT"  -> 0
    [] command = "PSYNC" -> 2
    [] OTHER             -> 1

(* Only a SET goes on to the command behind it.                            *)
MoreToRun ==
  \/ ran = 0
  \/ chunk[ran] = "SET" /\ ran < Len(chunk) /\ chunk[ran + 1] # "TEXT"

Cleared(c) ==
  /\ chunk' = c /\ ran' = 0 /\ owed' = 0 /\ handled' = 0 /\ sent' = <<>>
  /\ applied' = 0 /\ forwarded' = 0

Init ==
  /\ stage = "idle" /\ chunk = <<>> /\ ran = 0 /\ owed = 0 /\ handled = 0 /\ sent = <<>>
  /\ applied = 0 /\ forwarded = 0

Begin == stage = "idle" /\ stage' = "working" /\ \E c \in Chunks : Cleared(c)

Execute ==
  /\ stage = "working" /\ MoreToRun /\ owed = 0
  /\ ran' = ran + 1 /\ owed' = Replies(chunk[ran + 1])
  /\ applied' = IF chunk[ran + 1] = "SET" THEN applied + 1 ELSE applied
  /\ UNCHANGED <<stage, chunk, handled, sent, forwarded>>

(* send() takes the whole reply, or fails and the rest is dropped.         *)
Reply ==
  /\ stage = "working" /\ owed > 0
  /\ owed' = owed - 1 /\ handled' = handled + 1
  /\ sent' \in {sent, Append(sent, handled')}
  /\ UNCHANGED <<stage, chunk, ran, applied, forwarded>>

(* A single SET is acknowledged before it is propagated; in a pipeline the *)
(* propagation may overtake the last reply.                                *)
Forward ==
  /\ stage = "working" /\ ~MoreToRun /\ forwarded < applied /\ (owed = 0 \/ ran > 1)
  /\ forwarded' = forwarded + 1
  /\ UNCHANGED <<stage, chunk, ran, owed, handled, sent, applied>>

End ==
  /\ stage = "working" /\ ~MoreToRun /\ owed = 0 /\ forwarded = applied
  /\ stage' = "idle" /\ Cleared(<<>>)

(* A wakeup of the parser is lost before the first command or right after  *)
(* a reply, or send() blocks because the client does not read.             *)
Hang ==
  /\ stage = "working" /\ (ran = 0 \/ owed > 0 \/ (handled > 0 /\ forwarded = 0))
  /\ stage' = "hung" /\ UNCHANGED work

(* The parser throws on what comes next, or a send() raises SIGPIPE.       *)
Die ==
  /\ stage = "working" /\ ((MoreToRun /\ owed = 0) \/ owed > 0 \/ forwarded < applied)
  /\ stage' = "dead" /\ UNCHANGED work

Next == Begin \/ Execute \/ Reply \/ Forward \/ End \/ Hang \/ Die

Spec == Init /\ [][Next]_state
=============================================================================
