---------------------------- MODULE MCRdbLoader ----------------------------
(* Small instances of RdbLoader.                                           *)
EXTENDS RdbFormat

(* Short strings, and the integers at the edges of their encodings.        *)
A == Raw(<<97>>)
B == Raw(<<98, 98>>)
Empty == Raw(<<>>)
Number(b) == Decimal(ZeroExtend(b))

Small == << Entry(A, Number(<<127>>), Never), Entry(B, Empty, Ms(<<1, 2, 3, 4, 5, 6>>)) >>
Wide  == << Entry(B, Number(<<128>>), Ms(<<9>>)), Entry(Number(<<255, 127>>), A, Never),
            Entry(A, Number(<<0, 128, 255, 1>>), Never) >>
Old   == << Entry(A, B, Sec(<<1>>)), Entry(B, A, Never) >>

(* 64..255 keys: the size of the table takes two bytes.                    *)
Letters(n) == Raw([k \in 1..n |-> 120])
Many(n) == [k \in 1..n |-> Entry(Raw(<<107, k % 256, k \div 256>>), A, Never)]

(* The end of a file; checksums that look like indicators.                 *)
End(crc) == <<255>> \o crc
Checksums == { <<0, 0, 0, 0, 0, 0, 0, 0>>, <<250, 1, 97, 1, 98, 255, 7, 254>>,
               <<254, 0, 251, 0, 0, 250, 0, 0>>, <<3, 5, 7, 9, 254, 64, 1, 250>> }
ZeroSum == <<0, 0, 0, 0, 0, 0, 0, 0>>

WholeImages ==
  { Image(db, End(crc), TRUE) : db \in {<<>>, Small, Wide, Old}, crc \in Checksums }
    \cup { Image(<<Entry(Letters(63), Letters(63), Never)>>, End(ZeroSum), TRUE),
           Image(Many(63), End(ZeroSum), TRUE), Image(Many(255), End(ZeroSum), TRUE) }

(* No file, a file that is not RDB, an entry of another type after a       *)
(* string, and every way to cut a file.  (The keys are no integers: the    *)
(* value of an uninitialised integer could be any of those.)               *)
Missing == [exists |-> FALSE, whole |-> FALSE, bytes |-> <<>>, entries |-> <<>>]
NotRdb  == [Missing EXCEPT !.exists = TRUE, !.bytes = <<82, 69, 68, 73, 84, 0, 0, 0, 0, 254>>]
OtherType ==
  LET img == Image(<<Small[1]>>, <<14, 1, 97>>, FALSE) IN [img EXCEPT !.bytes[18] = 2]
CutImages ==
  {Missing, NotRdb, OtherType}
    \cup UNION { {Cut(img, n) : n \in 0..Len(img.bytes)} :
                   img \in { Image(db, End(ZeroSum), TRUE) : db \in {Small, Old} } }

(* Files as PSYNC sends them: what the failed last read leaves in its word *)
(* is the word before it, or bytes of any one value.                       *)
LastWord(b) == SubSeq(b, 8 * (Len(b) \div 8) - 7, 8 * (Len(b) \div 8))
Sent(sums) ==
  UNION { { [img EXCEPT !.bytes = ReadRdbFileBinary(@, old)] :
              old \in {LastWord(img.bytes)} \cup {[k \in 1..8 |-> b] : b \in {0, 193, 250, 254}} } :
            img \in { Image(db, End(crc), TRUE) : db \in {<<>>, Small, Wide}, crc \in sums } }
SentImages == Sent(Checksums)

(* The layout of a file that Image makes.                                  *)
LayoutOf(db, rest) ==
  LET img == Image(db, rest, TRUE)
      header == Len(Header)
      start == Len(EncodeStart(db))
  IN [bytes |-> img.bytes, fields |-> <<Field>>,
      fieldEnd |-> [m \in 0..1 |-> header + m * Len(EncodeField(Field))],
      size |-> Len(db), expiring |-> Expiring(db), db |-> db,
      end |-> [n \in 0..Len(db) |-> IF n = 0 THEN start ELSE img.entries[n].end]]

(* The loader's theorems are about files of a layout: these have one, save *)
(* those whose checksum could be a database (254 ... 251).                 *)
PlainSums == {crc \in Checksums : \A k \in 1..8 : crc[k] # 251}
Layouts ==
  { LayoutOf(db, End(crc)) : db \in {<<>>, Small, Wide, Old}, crc \in PlainSums }
    \cup { LayoutOf(<<Entry(Letters(63), Letters(63), Never)>>, End(ZeroSum)),
           LayoutOf(Many(63), End(ZeroSum)), LayoutOf(Many(255), End(ZeroSum)) }
    \cup { [LayoutOf(<<Small[1]>>, <<14, 1, 97>>) EXCEPT !.size = 2, !.bytes[18] = 2] }
ASSUME LayoutsAssumption ==
  /\ \A l \in Layouts : Written(l) /\ Supported(l)
  /\ \A img \in WholeImages \cup CutImages :
       Promises(img) =>
         \/ \E l \in Layouts : ImageOf(img, l)
         \/ \E db \in {<<>>, Small, Wide, Old}, crc \in Checksums \ PlainSums :
              img = Image(db, End(crc), TRUE)
  /\ \A img \in Sent(PlainSums) :
       \E db \in {<<>>, Small, Wide} :
         LET l == [LayoutOf(db, <<>>) EXCEPT !.bytes = img.bytes]
         IN Written(l) /\ Supported(l) /\ ImageOf(img, l)

(* Uninitialised bytes: a length, an integer encoding, three indicators.   *)
SomeJunk == {0, 1, 193, 250, 251, 254}

SupportedImages == WholeImages \cup CutImages \cup SentImages

(* Basic files, with strings only, that are not loaded as they should be:  *)
(* -1, a string of 64 bytes, an expiry in seconds (of January 2021) and    *)
(* 256 keys.                                                               *)
BasicDatabases ==
  { <<Entry(A, Decimal(SignExtend(<<255>>)), Never)>>, <<Entry(A, Letters(64), Never)>>,
    <<Entry(A, B, Sec(<<0, 0, 0, 96>>))>>, Many(256) }
BasicImages == { Image(db, End(ZeroSum), TRUE) : db \in BasicDatabases }
=============================================================================
