------------------------------ MODULE RdbFormat ------------------------------
(***************************************************************************)
(* The RDB format as Redis writes it, as far as the loader understands it: *)
(* the reference the loader is checked against.  Strings, integers and     *)
(* expiry times are those of RdbLoader: 64-bit numbers are sequences of 8  *)
(* bytes, the least significant first, in two's complement.                *)
(***************************************************************************)
EXTENDS RdbLoader, SequencesExt

(* The number w bytes stand for when they are read as a signed integer.    *)
SignExtend(b) ==
  [k \in 1..8 |-> IF k <= Len(b) THEN b[k] ELSE IF b[Len(b)] >= 128 THEN 255 ELSE 0]

(* Lengths of 64 and more take two bytes, the first marked by 01.          *)
EncodeLength(n) == IF n < 64 THEN <<n>> ELSE <<64 + n \div 256, n % 256>>

(* The shortest of the three integer encodings from which n comes back.    *)
EncodeInteger(n) ==
  LET fits(w) == SignExtend(SubSeq(n, 1, w)) = n IN
    CASE fits(1) -> <<192>> \o SubSeq(n, 1, 1)
      [] ~fits(1) /\ fits(2) -> <<193>> \o SubSeq(n, 1, 2)
      [] ~fits(1) /\ ~fits(2) /\ fits(4) -> <<194>> \o SubSeq(n, 1, 4)

EncodeString(s) ==
  IF s.kind = "int" THEN EncodeInteger(s.bytes) ELSE EncodeLength(Len(s.bytes)) \o s.bytes

(* What a file says of an expiry, and the time in milliseconds it means.   *)
Never  == [unit |-> "none", time |-> <<>>]
Ms(t)  == [unit |-> "ms", time |-> t]
Sec(t) == [unit |-> "sec", time |-> t]
Meant(x) == IF x.unit = "sec" THEN TimesThousand(x.time, 8) ELSE ZeroExtend(x.time)

EncodeExpiry(x) ==
  CASE x.unit = "none" -> <<>>
    [] x.unit = "ms"   -> <<252>> \o ZeroExtend(x.time)
    [] x.unit = "sec"  -> <<253>> \o SubSeq(ZeroExtend(x.time), 1, 4)

(* An entry of a database: a key, a value and an expiry.                   *)
Entry(k, v, x) == [key |-> k, value |-> v, expiry |-> x]
EncodeEntry(e) ==
  EncodeExpiry(e.expiry) \o <<0>> \o EncodeString(e.key) \o EncodeString(e.value)

(* What precedes the entries: the header, auxiliary fields, database 0 and *)
(* the sizes of its two tables.                                            *)
Header == Magic \o <<48, 48, 49, 49>>
EncodeField(f) == <<250>> \o EncodeString(f.name) \o EncodeString(f.value)
EncodeSizes(size, expiring) == <<254, 0, 251>> \o EncodeLength(size) \o EncodeLength(expiring)

(* One field, a string and an integer, will do.                            *)
Field == [name |-> Raw(<<98>>), value |-> Decimal(ZeroExtend(<<64>>))]
Expiring(db) == Len(SelectSeq(db, LAMBDA e : e.expiry # Never))
EncodeStart(db) == Header \o EncodeField(Field) \o EncodeSizes(Len(db), Expiring(db))

(* FlattenSeq in two levels, for tables of some hundred entries.           *)
Concat(parts) ==
  FlattenSeq([c \in 1..((Len(parts) + 15) \div 16) |->
    FlattenSeq(SubSeq(parts, 16 * (c - 1) + 1, IF 16 * c < Len(parts) THEN 16 * c ELSE Len(parts)))])

(* The file of a database, with what follows the entries.                  *)
Image(db, rest, whole) ==
  LET start == EncodeStart(db)
      parts == [n \in 1..Len(db) |-> EncodeEntry(db[n])]
      end(n) == Len(start) + Len(Concat(SubSeq(parts, 1, n)))
  IN [exists |-> TRUE, whole |-> whole,
      bytes |-> start \o Concat(parts) \o rest,
      entries |-> [n \in 1..Len(db) |->
        [key |-> db[n].key, value |-> db[n].value, expiry_time |-> Meant(db[n].expiry),
         end |-> end(n)]]]

(* The first n bytes of a file.                                            *)
Cut(img, n) == [img EXCEPT !.bytes = SubSeq(@, 1, n), !.whole = @ /\ n = Len(img.bytes)]

-----------------------------------------------------------------------------
(* The same as a condition: the layout l of a file says which fields and   *)
(* which entries its bytes encode, and where each of them ends.            *)

(* The bytes s are in b from position p on; or just after p, and end at q. *)
At(b, p, s) == p + Len(s) <= Len(b) + 1 /\ \A k \in 1..Len(s) : b[p + k - 1] = s[k]
Follows(b, p, s, q) == At(b, p + 1, s) /\ q = p + Len(s)

Written(l) ==
  /\ l.bytes \in Seq(Byte) /\ Follows(l.bytes, 0, Header, l.fieldEnd[0])
  /\ l.fieldEnd \in [0..Len(l.fields) -> Nat]
  /\ \A m \in 1..Len(l.fields) :
       Follows(l.bytes, l.fieldEnd[m - 1], EncodeField(l.fields[m]), l.fieldEnd[m])
  /\ Follows(l.bytes, l.fieldEnd[Len(l.fields)], EncodeSizes(l.size, l.expiring), l.end[0])
  /\ l.end \in [0..Len(l.db) -> Nat]
  /\ \A n \in 1..Len(l.db) : Follows(l.bytes, l.end[n - 1], EncodeEntry(l.db[n]), l.end[n])

(* What the loader reads back as it was written: strings of less than 64   *)
(* bytes, numbers in up to 4 bytes without a sign, milliseconds, and       *)
(* seconds that stay within 32 bits as milliseconds.                       *)
Readable(s) ==
  /\ s \in Strings
  /\ IF s.kind = "raw" THEN Len(s.bytes) < 64
     ELSE Len(s.bytes) = 8 /\ s.bytes[8] < 128 /\ SignExtend(SubSeq(s.bytes, 1, 4)) = s.bytes
ReadableExpiry(x) ==
  /\ x.time \in Seq(Byte)
  /\ \/ x = Never \/ x.unit = "ms"
     \/ x.unit = "sec" /\ Meant(x) = ExpiryTime(253, SubSeq(ZeroExtend(x.time), 1, 4))

(* Keys are different; a table holds up to 255 of them, and what follows   *)
(* the entries is of another type if it holds more.  No later byte 254 has *)
(* a byte 251 anywhere after it.                                           *)
Supported(l) ==
  LET last == l.end[Len(l.db)] IN
  /\ l.fields \in Seq([name : Strings, value : Strings])
  /\ \A m \in 1..Len(l.fields) :
       /\ Readable(l.fields[m].name) /\ Readable(l.fields[m].value)
       /\ Raw(<<>>) \notin {l.fields[m].name, l.fields[m].value}
  /\ Len(l.db) \in 0..l.size /\ l.size \in Byte /\ l.expiring \in Byte
  /\ \A n \in 1..Len(l.db) :
       /\ Readable(l.db[n].key) /\ Readable(l.db[n].value) /\ ReadableExpiry(l.db[n].expiry)
       /\ \A m \in 1..(n - 1) : l.db[m].key # l.db[n].key
  /\ Len(l.db) < l.size /\ last < Len(l.bytes) => l.bytes[last + 1] \notin {0, 252, 253}
  /\ \A m \in (last + 1)..Len(l.bytes) :
       l.bytes[m] = 254 => \A n \in (m + 1)..Len(l.bytes) : l.bytes[n] # 251

(* No prefix of a key, filled up with '\0', is a key.                      *)
Plain(k) == k.kind = "raw" /\ Len(k.bytes) > 0 /\ k.bytes[Len(k.bytes)] # 0

(* img is the file of that layout, or what is left of it.                  *)
ImageOf(img, l) ==
  /\ img.exists
  /\ Len(img.bytes) <= Len(l.bytes) /\ \A k \in 1..Len(img.bytes) : img.bytes[k] = l.bytes[k]
  /\ Len(img.entries) = Len(l.db)
  /\ \A n \in 1..Len(l.db) :
       img.entries[n] = [key |-> l.db[n].key, value |-> l.db[n].value,
                         expiry_time |-> Meant(l.db[n].expiry), end |-> l.end[n]]
  /\ IF img.whole THEN Len(img.bytes) = Len(l.bytes) /\ l.size = Len(l.db)
     ELSE \A n \in 1..Len(l.db) : Plain(l.db[n].key)

(* Of what is left of a file the loader owes something: it is whole, or    *)
(* has an entry to its end.                                                *)
Promises(img) ==
  img.whole \/ \E n \in 1..Len(img.entries) : img.entries[n].end <= Len(img.bytes)
=============================================================================
