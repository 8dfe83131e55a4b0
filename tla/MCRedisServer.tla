---------------------------- MODULE MCRedisServer ----------------------------
(* Small instances of RedisServer.                                         *)
EXTENDS RedisServer, TLC

CONSTANTS k1, v1, v2

(* Connections are interchangeable, and so are workers.                    *)
Symmetry == Permutations(Clients) \cup Permutations(Workers)

(* Bound: not all connections send MaxChunks commands.                     *)
FewCommands == \E c \in Clients : chunks[c] < MaxChunks

(* A pattern such as `*' that matches every key.                           *)
MatchAll == [k \in Keys |-> Keys]

C(op, v, t) == [op |-> op, key |-> k1, val |-> v, px |-> t]

(* One key: set for good, set with an expiry, read; slaves register.       *)
SharedCommands ==
  { C("SET", v1, <<>>), C("SET", v2, <<1>>), C("GET", v1, <<>>), C("PSYNC", v1, <<>>) }

(* Every command, PSYNC and SET as a slave executes them.                  *)
AllCommands == { C(op, v1, <<>>) : op \in Ops }

(* One slave, one client that writes.                                      *)
BlockingCommands == { C("SET", v1, <<>>), C("PSYNC", v1, <<>>) }
=============================================================================
