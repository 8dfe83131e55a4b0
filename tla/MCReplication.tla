---------------------------- MODULE MCReplication ----------------------------
(* Small instances of Replication.                                         *)
EXTENDS Replication

CONSTANTS k1, k2, v1, v2, long

Option(name, v) == [name |-> name, given |-> TRUE, value |-> v]
Dir   == Option("--dir", "/data")
File  == Option("--dbfilename", "dump.rdb")
Port  == Option("--port", <<6380>>)
Local == Option("--replicaof", <<"localhost", 6379>>)
Other == Option("--verbose", <<>>)

(* The same slave in three orders; slaves that find no master, one of them *)
(* given by its IP address; masters; a port that is no number.             *)
Lines ==
  { <<Dir, File, Port, Local>>, <<Local, Port, Other, File, Dir>>, <<Port, Local, Dir, File>>,
    <<Option("--replicaof", <<"10.0.0.1", 6379>>)>>, <<Port, [Dir EXCEPT !.given = FALSE]>>,
    <<Local, Option("--port", <<>>)>> }

Set(k, v) == [op |-> "SET", key |-> k, val |-> v, last |-> TRUE]
First(s) == [s EXCEPT !.last = FALSE]
Head3(k) == Piece("KEY", k, long, FALSE)
Val(last) == Piece("VAL", Blank, Blank, last)
Rest(last) == Piece("REST", Blank, Blank, last)
Keys1 == Piece("KEYS", k1, Blank, TRUE)

(* Single and pipelined SETs of one key and of two, commands behind a SET, *)
(* a long SET whole and cut in the two ways the buffer may cut it.         *)
Chunks ==
  { <<Set(k1, v1)>>, <<First(Set(k1, v1)), Set(k1, v2)>>,
    <<First(Set(k2, v1)), Message("CONFIG", Blank)>>, <<First(Set(k2, v2)), Keys1>>,
    <<First(Set(k2, v1)), Message("OTHER", Blank)>>,
    <<Head3(k1), Val(FALSE), Rest(TRUE)>>, <<Head3(k2), Val(TRUE)>>, <<Rest(FALSE), Set(k2, v2)>>,
    <<[Head3(k1) EXCEPT !.last = TRUE]>> }

(* The clients are orderly in what they send, and send whole commands.     *)
ASSUME ChunksAreOrderly == OrderlyClients
ASSUME ChunksAreFramed == FramedClients
=============================================================================
