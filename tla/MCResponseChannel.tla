-------------------------- MODULE MCResponseChannel --------------------------
(* Small instances of ResponseChannel.                                     *)
EXTENDS ResponseChannel

(* Each way a task can go: no reply, one, two, a nested command.           *)
ShortInputs ==
  { <<"TEXT">>, <<"GET">>, <<"GET", "SET">>, <<"PSYNC">>, <<"SET">>,
    <<"SET", "TEXT">>, <<"SET", "GET">>, <<"SET", "SET">> }

(* Inputs with more than two replies, and inputs that make the parser      *)
(* throw at once or after a SET has been executed.                         *)
LongInputs ==
  { <<"SET", "SET", "SET", "GET">>, <<"SET", "PSYNC">>, <<"SET", "SET", "TEXT">>,
    <<"BAD">>, <<"SET", "BAD">> }

AllInputs == ShortInputs \cup LongInputs

PipelinedSets == { <<"SET", "SET", "GET">> }
OneCommand    == { <<"PING">> }
=============================================================================
