------------------------------ MODULE RdbLoader ------------------------------
(***************************************************************************)
(* RedisRDBParser: the RDB file is read into the database before the       *)
(* server starts; main ignores what parse() returns.  The file may be cut  *)
(* anywhere.  A read() on a stream that has failed, or that fails half     *)
(* way, leaves (the rest of) its target as it was: the value of the last   *)
(* read, or whatever an uninitialised local holds, some byte of Junk.      *)
(*                                                                         *)
(* Bytes are numbers; wider integers are sequences of bytes, the least     *)
(* significant first, so that every width of the code is exact.            *)
(***************************************************************************)
EXTENDS Naturals, Sequences

CONSTANTS
  Images,  \* the files, with what they are supposed to hold
  Junk     \* what an uninitialised byte may be

Byte == 0..255

(* A std::string: the decimal form of a 64-bit integer, or other bytes.    *)
Strings == [kind : {"int", "raw"}, bytes : Seq(Byte)]
Raw(b) == [kind |-> "raw", bytes |-> b]
Decimal(b) == [kind |-> "int", bytes |-> b]

(* The code widens unsigned locals.                                        *)
ZeroExtend(b) == [k \in 1..8 |-> IF k <= Len(b) THEN b[k] ELSE 0]

(* The first n bytes of 1000 times b, that is, the product modulo 256^n.   *)
TimesThousand(b, n) ==
  LET digit(k) == IF k <= Len(b) THEN b[k] ELSE 0
      carry[k \in 0..n] ==
        IF k = 0 THEN 0 ELSE (1000 * digit(k) + carry[k - 1]) \div 256
  IN [k \in 1..n |-> (1000 * digit(k) + carry[k - 1]) % 256]

(* PSYNC sends the file: read_rdb_file_binary reads words of 8 bytes until *)
(* the stream fails and appends the word of the failed read too; what was  *)
(* not read of it is old.  Both conversions turn a word around.            *)
ReverseEndianness(word) == [k \in 1..8 |-> word[9 - k]]
Uint64ToString(word)    == [k \in 1..8 |-> word[9 - k]]
ReadRdbFileBinary(bytes, old) ==
  LET byte(n) == IF n <= Len(bytes) THEN bytes[n] ELSE old[((n - 1) % 8) + 1]
      word(w) == [k \in 1..8 |-> byte(8 * w + k)]
      sent(w) == Uint64ToString(ReverseEndianness(word(w)))
  IN  [n \in 1..(8 * (Len(bytes) \div 8 + 1)) |-> sent((n - 1) \div 8)[((n - 1) % 8) + 1]]

(* A file: its bytes, the entries it holds with the offset at which each   *)
(* ends, and whether it is whole and holds nothing but these.              *)
ImageEntries == [key : Strings, value : Strings, expiry_time : Seq(Byte), end : Nat]

ASSUME ImagesAssumption ==
  \A img \in Images :
    /\ img.exists \in BOOLEAN /\ img.whole \in BOOLEAN
    /\ img.bytes \in Seq(Byte) /\ img.entries \in Seq(ImageEntries)
ASSUME JunkAssumption == Junk \subseteq Byte

VARIABLES
  image,      \* the file on disk
  file,       \* the ifstream: the next position, and whether it is good
  pc,
  indicator,  \* the section indicator last read, or not read
  nextByte, valueType, tableSize, i, time,  \* readDatabase's locals
  key,        \* the first string of a pair, of metadata or of an entry
  database

dbLocals == <<nextByte, valueType, tableSize, i, time>>
vars == <<image, file, pc, indicator, nextByte, valueType, tableSize, i, time, key,
          database>>

Entries == [value : Strings, expiry_time : Seq(Byte)]

Init ==
  /\ image \in Images
  /\ file = [pos |-> 1, good |-> TRUE]
  /\ pc = "open"
  /\ indicator \in Junk
  /\ nextByte = 0 /\ valueType = 0 /\ tableSize = 0 /\ i = 0 /\ time = ZeroExtend(<<>>)
  /\ key = Raw(<<>>)
  /\ database = <<>>

-----------------------------------------------------------------------------
(* Reading from the stream                                                 *)

Available(f) == IF f.good THEN (Len(image.bytes) + 1) - f.pos ELSE 0

M_Fetch(f, n, old) ==
  [val  |-> [k \in 1..n |-> IF k <= Available(f) THEN image.bytes[f.pos + k - 1] ELSE old],
   file |-> [pos |-> f.pos + n, good |-> f.good /\ n <= Available(f)]]

(* file.read() of n bytes into a target that held old.                     *)
Fetch(f, n, old) ==
  LET got == IF n <= Available(f) THEN n ELSE Available(f) IN
    [val  |-> [k \in 1..n |-> IF k <= got THEN image.bytes[f.pos + k - 1] ELSE old],
     file |-> [pos |-> f.pos + got, good |-> f.good /\ got = n]]

(* An 8, 16 or 32-bit integer, read into an unsigned local.                *)
ReadIntegerEncodedString(f, encoding, junk) ==
  LET width == CASE encoding = 192 -> 1 [] encoding = 193 -> 2 [] encoding = 194 -> 4
      r == Fetch(f, width, junk)
  IN [str |-> Decimal(ZeroExtend(r.val)), file |-> r.file]

(* Compressed strings are not supported: they read as the empty string.    *)
ReadEncodedString(f, encoding, junk) ==
  IF encoding \in 192..194 THEN ReadIntegerEncodedString(f, encoding, junk)
  ELSE [str |-> Raw(<<>>), file |-> f]

(* Unless its two high bits are set the first byte, all of it, is the      *)
(* length; what is missing of the bytes stays '\0'.                        *)
ReadLengthPrefixedString(f, junk) ==
  LET len == Fetch(f, 1, junk)
      r   == Fetch(len.file, len.val[1], 0)
  IN IF len.val[1] >= 192 THEN ReadEncodedString(len.file, len.val[1], junk)
     ELSE [str |-> Raw(r.val), file |-> r.file]

(* The 14-bit form keeps the bits that mark it; the 32-bit form reads 8    *)
(* bytes, the least significant first.                                     *)
ReadSizeEncoded(f, b, junk) ==
  LET two == Fetch(f, 1, junk)
      eight == Fetch(f, 8, junk)
  IN CASE b \div 64 = 0 -> [size |-> <<b>>, file |-> f]
       [] b \div 64 = 1 -> [size |-> <<two.val[1], b>>, file |-> two.file]
       [] b \div 64 = 2 -> [size |-> eight.val, file |-> eight.file]
       [] OTHER         -> [size |-> <<0>>, file |-> f]

-----------------------------------------------------------------------------
(* parse                                                                   *)

Magic == <<82, 69, 68, 73, 83>>

(* The file is opened and its header read.                                 *)
ReadHeader(junk) ==
  /\ pc = "open"
  /\ LET h == Fetch(file, 9, junk) IN
       \/ /\ image.exists /\ SubSeq(h.val, 1, 5) = Magic
          /\ file' = h.file /\ pc' = "loop"
       \/ /\ image.exists /\ SubSeq(h.val, 1, 5) # Magic
          /\ file' = h.file /\ pc' = "done"
       \/ /\ ~image.exists
          /\ pc' = "done" /\ UNCHANGED file
  /\ UNCHANGED <<image, indicator, dbLocals, key, database>>

M_ReadIndicator(junk) ==
  /\ pc = "loop" /\ pc' = "switch"
  /\ LET r == Fetch(file, 1, junk) IN indicator' = r.val[1] /\ file' = r.file
  /\ UNCHANGED <<image, dbLocals, key, database>>

(* while (file): the stream is tested before the read, not after it.       *)
ReadIndicator(junk) ==
  /\ pc = "loop" /\ file.good /\ pc' = "switch"
  /\ LET r == Fetch(file, 1, junk) IN indicator' = r.val[1] /\ file' = r.file
  /\ UNCHANGED <<image, dbLocals, key, database>>

M_EndOfFileAtMarker ==
  /\ pc = "loop" /\ ~file.good /\ indicator = 255 /\ pc' = "done"
  /\ UNCHANGED <<image, file, indicator, dbLocals, key, database>>

EndOfFile ==
  /\ pc = "loop" /\ ~file.good /\ pc' = "done"
  /\ UNCHANGED <<image, file, indicator, dbLocals, key, database>>

(* 0xFF does not end the loop: the checksum is read as indicators.         *)
SkipIndicator ==
  /\ pc = "switch" /\ indicator \notin {250, 254} /\ pc' = "loop"
  /\ UNCHANGED <<image, file, indicator, dbLocals, key, database>>

(* readMetaData: two strings, neither of which may be empty.               *)
ReadAttribute(junk) ==
  /\ pc = "switch" /\ indicator = 250 /\ pc' = "attribute"
  /\ LET r == ReadLengthPrefixedString(file, junk) IN key' = r.str /\ file' = r.file
  /\ UNCHANGED <<image, indicator, dbLocals, database>>

ReadMetaValue(junk) ==
  /\ pc = "attribute"
  /\ LET r == ReadLengthPrefixedString(file, junk) IN
       /\ file' = r.file
       /\ pc' = IF Raw(<<>>) \in {key, r.str} THEN "done" ELSE "loop"
  /\ UNCHANGED <<image, indicator, dbLocals, key, database>>

(* readDatabase: nextByte and, later, value_type start uninitialised.  The *)
(* index is only printed.                                                  *)
ReadIndex(junk) ==
  /\ pc = "switch" /\ indicator = 254 /\ pc' = "index"
  /\ LET b == Fetch(file, 1, junk)
         index == ReadSizeEncoded(b.file, b.val[1], junk)
     IN nextByte' = b.val[1] /\ file' = index.file
  /\ UNCHANGED <<image, indicator, valueType, tableSize, i, time, key, database>>

ReadHashIndicator ==
  /\ pc = "index"
  /\ LET b == Fetch(file, 1, nextByte) IN
       /\ nextByte' = b.val[1] /\ file' = b.file
       /\ pc' = IF b.val[1] = 251 THEN "size" ELSE "loop"
  /\ UNCHANGED <<image, indicator, valueType, tableSize, i, time, key, database>>

(* A uint8_t keeps the low byte of the size of the table.                  *)
ReadTableSize(junk) ==
  /\ pc = "size" /\ pc' = "expirySize"
  /\ LET b == Fetch(file, 1, nextByte)
         table == ReadSizeEncoded(b.file, b.val[1], junk)
     IN nextByte' = b.val[1] /\ tableSize' = table.size[1] /\ file' = table.file
  /\ UNCHANGED <<image, indicator, valueType, i, time, key, database>>

(* The size of the expiry table is only printed.                           *)
ReadExpiryTableSize(junk) ==
  /\ pc = "expirySize" /\ pc' = "table"
  /\ LET b == Fetch(file, 1, nextByte)
         expiry == ReadSizeEncoded(b.file, b.val[1], junk)
     IN nextByte' = b.val[1] /\ file' = expiry.file
  /\ valueType' \in Junk /\ i' = 0
  /\ UNCHANGED <<image, indicator, tableSize, time, key, database>>

(* 0xFC: 8 bytes of milliseconds.  0xFD: 4 bytes of seconds, multiplied in *)
(* 32 bits.  Anything else is the type of a value that does not expire.    *)
ExpiryWidth(op) == CASE op = 252 -> 8 [] op = 253 -> 4 [] OTHER -> 0
ExpiryTime(op, t) ==
  IF op = 253 THEN ZeroExtend(TimesThousand(t, 4)) ELSE ZeroExtend(t)

(* One iteration of the loop: expiry and type; only strings (0) are known. *)
ReadEntryType(junk) ==
  /\ pc = "table" /\ i < tableSize
  /\ LET b    == Fetch(file, 1, nextByte)
         op   == b.val[1]
         t    == Fetch(b.file, ExpiryWidth(op), junk)
         type == IF op \in {252, 253} THEN Fetch(t.file, 1, valueType) ELSE b
     IN /\ nextByte' = op /\ time' = ExpiryTime(op, t.val)
        /\ valueType' = type.val[1] /\ file' = type.file
        /\ pc' = IF type.val[1] = 0 THEN "key" ELSE "done"
  /\ UNCHANGED <<image, indicator, tableSize, i, key, database>>

(* readStringKeyValue                                                      *)
ReadKey(junk) ==
  /\ pc = "key" /\ pc' = "value"
  /\ LET r == ReadLengthPrefixedString(file, junk) IN key' = r.str /\ file' = r.file
  /\ UNCHANGED <<image, indicator, dbLocals, database>>

(* DatabaseHandler::set                                                    *)
DatabaseSet(k, v, t) ==
  database' = [s \in {k} \cup DOMAIN database |->
                 IF s = k THEN [value |-> v, expiry_time |-> t] ELSE database[s]]

M_StoreNoExpiry(junk) ==
  /\ pc = "value" /\ pc' = "table"
  /\ LET r == ReadLengthPrefixedString(file, junk) IN
       /\ file' = r.file /\ DatabaseSet(key, r.str, ZeroExtend(<<>>))
  /\ i' = i + 1
  /\ UNCHANGED <<image, indicator, nextByte, valueType, tableSize, time, key>>

(* ... and db_handler.set.                                                 *)
ReadValue(junk) ==
  /\ pc = "value" /\ pc' = "table"
  /\ LET r == ReadLengthPrefixedString(file, junk) IN
       /\ file' = r.file /\ DatabaseSet(key, r.str, time)
  /\ i' = i + 1
  /\ UNCHANGED <<image, indicator, nextByte, valueType, tableSize, time, key>>

M_EndOfTable ==
  /\ pc = "table" /\ i + 1 >= tableSize /\ pc' = "loop"
  /\ UNCHANGED <<image, file, indicator, dbLocals, key, database>>

EndOfTable ==
  /\ pc = "table" /\ i >= tableSize /\ pc' = "loop"
  /\ UNCHANGED <<image, file, indicator, dbLocals, key, database>>

Next ==
  \/ \E junk \in Junk :
       \/ ReadHeader(junk) \/ ReadIndicator(junk)
       \/ ReadAttribute(junk) \/ ReadMetaValue(junk)
       \/ ReadIndex(junk) \/ ReadTableSize(junk) \/ ReadExpiryTableSize(junk)
       \/ ReadEntryType(junk) \/ ReadKey(junk) \/ ReadValue(junk)
  \/ EndOfFile \/ SkipIndicator \/ ReadHashIndicator \/ EndOfTable

Spec == Init /\ [][Next]_vars

(* main runs the loader before it starts any thread.                       *)
FairSpec == Spec /\ WF_vars(Next)

-----------------------------------------------------------------------------
(* Properties                                                              *)

(* The types; the position stays within the file and its end.              *)
RdbTypeOK ==
  /\ file.pos \in 1..(Len(image.bytes) + 1) /\ file.good \in BOOLEAN
  /\ pc \in {"open", "loop", "switch", "attribute", "index", "size", "expirySize", "table",
             "key", "value", "done"}
  /\ indicator \in Byte /\ nextByte \in Byte /\ valueType \in Byte
  /\ tableSize \in Byte /\ i \in 0..255
  /\ time \in Seq(Byte) /\ key \in Strings
  /\ DOMAIN database \subseteq Strings
  /\ \A k \in DOMAIN database : database[k] \in Entries

Holds(e) ==
  /\ e.key \in DOMAIN database
  /\ database[e.key] = [value |-> e.value, expiry_time |-> e.expiry_time]

(* "The server will setup itself with all the data provided in the RDB     *)
(* file": when the loader returns, a whole file's entries are in the       *)
(* database, values and expiry times right, and nothing else is, although  *)
(* the checksum is read as indicators, and after it an indicator is used   *)
(* that was not read.                                                      *)
LoadedExactly ==
  pc = "done" /\ image.whole =>
    /\ \A n \in 1..Len(image.entries) : Holds(image.entries[n])
    /\ DOMAIN database = {image.entries[n].key : n \in 1..Len(image.entries)}

(* A file cut anywhere, or with an entry of an unsupported type, still     *)
(* gives the entries before that place; what the loader makes of the rest  *)
(* with stale and uninitialised bytes does not overwrite them.             *)
EntriesBeforeCutKept ==
  pc = "done" =>
    \A n \in 1..Len(image.entries) :
      image.entries[n].end <= Len(image.bytes) => Holds(image.entries[n])

(* The loader returns, whatever the file, and wherever it is cut: the      *)
(* server starts.                                                          *)
LoaderStops == <>(pc = "done")

(* The steps the loader may still take without consuming a byte, and what  *)
(* is left of a stream that is good.  The table of a stream that has       *)
(* failed is gone through with stale bytes, at most tableSize times.       *)
EntrySteps == 3 * (IF i < tableSize THEN tableSize - i ELSE 0)
StepsLeft ==
  CASE pc = "done" -> 0
    [] pc = "loop" -> 1
    [] pc = "attribute" -> 2
    [] pc = "table" -> EntrySteps + 2
    [] pc = "key" -> EntrySteps + 1
    [] pc = "value" -> EntrySteps
    [] pc = "expirySize" -> 768
    [] pc = "size" -> 769
    [] pc = "index" -> 770
    [] pc = "switch" -> 771
    [] pc = "open" -> 772
BytesLeft(f) == IF f.good THEN (Len(image.bytes) + 2) - f.pos ELSE 0
Measure == 1000 * BytesLeft(file) + StepsLeft

(* Why it returns: every step consumes a byte, or fails the stream for     *)
(* good, or comes closer to an end that no stale byte can put off.         *)
LoaderProgresses == [][Measure' < Measure]_vars
=============================================================================
