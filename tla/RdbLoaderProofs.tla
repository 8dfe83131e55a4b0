--------------------------- MODULE RdbLoaderProofs ---------------------------
(***************************************************************************)
(* Theorems about RdbLoader, for every file, whatever bytes it holds and   *)
(* wherever it is cut, and whatever uninitialised bytes are.               *)
(***************************************************************************)
EXTENDS RdbFormat, Streams

IsStream(f) ==
  \E p \in 1..(Len(image.bytes) + 1), g \in BOOLEAN : f = [pos |-> p, good |-> g]

(* i indexes the table only inside the loop.                               *)
RdbInv ==
  /\ RdbTypeOK
  /\ image \in Images
  /\ IsStream(file)
  /\ pc \in {"key", "value"} => i < tableSize

-----------------------------------------------------------------------------
(* What the reading operators return, and what they consume                *)

LEMMA StreamType ==
  ASSUME image \in Images, NEW f, IsStream(f)
  PROVE  /\ f.pos \in 1..(Len(image.bytes) + 1) /\ f.good \in BOOLEAN
         /\ image.bytes \in Seq(Byte) /\ Len(image.bytes) \in Nat
         /\ BytesLeft(f) \in Nat /\ Available(f) \in Nat
BY ImagesAssumption DEF IsStream, BytesLeft, Available

(* Reading goes on to g; it consumes a byte or fails if the stream is good.*)
ReadsOn(f, g) == IsStream(g) /\ BytesLeft(g) <= BytesLeft(f)
Consumes(f, g) == ReadsOn(f, g) /\ (f.good => BytesLeft(g) < BytesLeft(f))

LEMMA FetchReads ==
  ASSUME image \in Images, NEW f, IsStream(f), NEW n \in Nat, NEW old \in Byte
  PROVE  /\ Fetch(f, n, old).val \in Seq(Byte) /\ Len(Fetch(f, n, old).val) = n
         /\ ReadsOn(f, Fetch(f, n, old).file)
         /\ n # 0 => Consumes(f, Fetch(f, n, old).file)
<1>0. /\ f.pos \in 1..(Len(image.bytes) + 1) /\ f.good \in BOOLEAN
      /\ image.bytes \in Seq(Byte) /\ Len(image.bytes) \in Nat /\ Available(f) \in Nat
  BY StreamType
<1> PICK got \in Nat : got = IF n <= Available(f) THEN n ELSE Available(f)
  BY <1>0
<1> DEFINE val == [k \in 1..n |-> IF k <= got THEN image.bytes[f.pos + k - 1] ELSE old]
           file2 == [pos |-> f.pos + got, good |-> f.good /\ got = n]
<1>1. Fetch(f, n, old) = [val |-> val, file |-> file2]
  BY DEF Fetch
<1>2. got <= Available(f) /\ f.pos + got <= Len(image.bytes) + 1
  BY <1>0 DEF Available
<1>3. \A k \in 1..n : val[k] \in Byte
  <2> TAKE k \in 1..n
  <2>1. CASE k <= got
    <3>1. f.pos + k - 1 \in 1..Len(image.bytes)
      BY <1>0, <1>2, <2>1
    <3> QED BY <1>0, <2>1, <3>1
  <2>2. CASE ~(k <= got)
    BY <2>2
  <2> QED BY <2>1, <2>2
<1>4. val \in Seq(Byte) /\ Len(val) = n
  <2>1. val \in [1..n -> Byte]
    BY <1>3
  <2> HIDE DEF val
  <2> QED BY <2>1
<1>5. IsStream(file2)
  <2>1. f.pos + got \in 1..(Len(image.bytes) + 1) /\ (f.good /\ got = n) \in BOOLEAN
    BY <1>0, <1>2
  <2> QED BY <2>1 DEF IsStream
<1>6. BytesLeft(file2) <= BytesLeft(f) /\ (f.good /\ n # 0 => BytesLeft(file2) < BytesLeft(f))
  <2>1. CASE f.good /\ got = n
    BY <1>0, <2>1, SMTT(30) DEF BytesLeft
  <2>2. CASE ~(f.good /\ got = n)
    <3>1. ~file2.good
      BY <2>2
    <3> HIDE DEF file2
    <3>2. BytesLeft(file2) = 0
      BY <3>1 DEF BytesLeft
    <3>3. f.good => BytesLeft(f) > 0
      BY <1>0 DEF BytesLeft
    <3>4. BytesLeft(f) \in Nat
      BY StreamType
    <3> QED BY <3>2, <3>3, <3>4
  <2> QED BY <2>1, <2>2
<1> HIDE DEF val, file2
<1> QED BY <1>1, <1>4, <1>5, <1>6 DEF ReadsOn, Consumes

LEMMA ByteReads ==
  ASSUME image \in Images, NEW f, IsStream(f), NEW old \in Byte
  PROVE  /\ Fetch(f, 1, old).val[1] \in Byte
         /\ Consumes(f, Fetch(f, 1, old).file) /\ IsStream(Fetch(f, 1, old).file)
<1> PICK n \in Nat : n = 1
  OBVIOUS
<1>1. Fetch(f, n, old).val \in Seq(Byte) /\ Len(Fetch(f, n, old).val) = n
  BY FetchReads, Zenon
<1>2. n # 0 => Consumes(f, Fetch(f, n, old).file)
  BY FetchReads, Zenon
<1>3. Consumes(f, Fetch(f, 1, old).file) /\ Fetch(f, 1, old).val[1] \in Byte
  BY <1>1, <1>2
<1> QED BY <1>3 DEF Consumes, ReadsOn

LEMMA FunIsSeq ==
  ASSUME NEW S, NEW n \in Nat, NEW s \in [1..n -> S]
  PROVE  s \in Seq(S) /\ Len(s) = n
OBVIOUS

LEMMA ZeroExtendType ==
  ASSUME NEW b \in Seq(Byte)
  PROVE  ZeroExtend(b) \in Seq(Byte)
<1> PICK n \in Nat : n = 8
  OBVIOUS
<1> DEFINE z == [k \in 1..n |-> IF k <= Len(b) THEN b[k] ELSE 0]
<1>1. \A k \in 1..n : z[k] \in Byte
  <2> TAKE k \in 1..n
  <2>1. 0 \in Byte
    BY DEF Byte
  <2>2. k <= Len(b) => b[k] \in Byte
    OBVIOUS
  <2> QED BY <2>1, <2>2
<1>2. z \in [1..n -> Byte]
  BY <1>1
<1>3. z = ZeroExtend(b)
  BY DEF ZeroExtend
<1> HIDE DEF z
<1>4. z \in Seq(Byte)
  BY <1>2, FunIsSeq
<1> QED BY <1>3, <1>4

LEMMA ReadsOnTrans ==
  ASSUME image \in Images, NEW f, NEW g, NEW h, IsStream(f), IsStream(g), IsStream(h)
  PROVE  /\ ReadsOn(f, f)
         /\ ReadsOn(f, g) /\ ReadsOn(g, h) => ReadsOn(f, h)
         /\ Consumes(f, g) /\ ReadsOn(g, h) => Consumes(f, h)
BY StreamType DEF ReadsOn, Consumes

LEMMA StringReads ==
  ASSUME image \in Images, NEW f, IsStream(f), NEW junk \in Byte
  PROVE  /\ ReadLengthPrefixedString(f, junk).str \in Strings
         /\ Consumes(f, ReadLengthPrefixedString(f, junk).file)
<1> PICK len : len = Fetch(f, 1, junk)
  OBVIOUS
<1>1. len.val[1] \in Byte /\ Consumes(f, len.file) /\ IsStream(len.file)
  BY ByteReads
<1> PICK b \in Byte : b = len.val[1]
  BY <1>1
<1> PICK r : r = ReadLengthPrefixedString(f, junk)
  OBVIOUS
<1>2. CASE b < 192
  <2>1. r = [str |-> Raw(Fetch(len.file, b, 0).val), file |-> Fetch(len.file, b, 0).file]
    BY <1>2 DEF ReadLengthPrefixedString, Byte
  <2> PICK e : e = Fetch(len.file, b, 0)
    OBVIOUS
  <2>2. b \in Nat /\ 0 \in Byte
    BY DEF Byte
  <2>3. e.val \in Seq(Byte) /\ ReadsOn(len.file, e.file)
    BY <1>1, <2>2, FetchReads
  <2>4. r.str \in Strings
    BY <2>1, <2>3 DEF Raw, Strings
  <2>5. Consumes(f, r.file)
    BY <1>1, <2>1, <2>3, ReadsOnTrans DEF ReadsOn
  <2> QED BY <2>4, <2>5
<1>3. CASE b \in 192..194
  <2>1. r = ReadIntegerEncodedString(len.file, b, junk)
    BY <1>3 DEF ReadLengthPrefixedString, ReadEncodedString
  <2> DEFINE Integer(n) == [str  |-> Decimal(ZeroExtend(Fetch(len.file, n, junk).val)),
                            file |-> Fetch(len.file, n, junk).file]
  <2>2. \E n \in Nat : r = Integer(n)
    <3>1. CASE b = 192
      BY <2>1, <3>1 DEF ReadIntegerEncodedString
    <3>2. CASE b = 193
      BY <2>1, <3>2 DEF ReadIntegerEncodedString
    <3>3. CASE b = 194
      BY <2>1, <3>3 DEF ReadIntegerEncodedString
    <3> QED BY <1>3, <3>1, <3>2, <3>3
  <2> PICK w \in Nat : r = Integer(w)
    BY <2>2
  <2> PICK e : e = Fetch(len.file, w, junk)
    OBVIOUS
  <2>3. e.val \in Seq(Byte) /\ ReadsOn(len.file, e.file)
    BY <1>1, FetchReads
  <2>4. ZeroExtend(e.val) \in Seq(Byte)
    BY <2>3, ZeroExtendType
  <2> PICK z \in Seq(Byte) : z = ZeroExtend(e.val)
    BY <2>4
  <2> PICK d : d = Decimal(z)
    OBVIOUS
  <2>5. r.str = d /\ r.file = e.file
    <3>1. r = [str |-> d, file |-> e.file]
      BY Zenon
    <3> QED BY <3>1
  <2>6. d \in Strings
    BY DEF Decimal, Strings
  <2>7. IsStream(e.file)
    BY <2>3 DEF ReadsOn
  <2>8. Consumes(f, r.file)
    BY <1>1, <2>3, <2>5, <2>7, ReadsOnTrans
  <2> QED BY <2>5, <2>6, <2>8
<1>4. CASE b > 194
  <2>1. r = [str |-> Raw(<<>>), file |-> len.file]
    BY <1>4 DEF ReadLengthPrefixedString, ReadEncodedString, Byte
  <2>2. r.str \in Strings
    BY <2>1 DEF Raw, Strings
  <2> QED BY <1>1, <2>1, <2>2
<1> QED BY <1>2, <1>3, <1>4 DEF Byte

LEMMA SizeReads ==
  ASSUME image \in Images, NEW f, IsStream(f), NEW b \in Byte, NEW junk \in Byte
  PROVE  /\ ReadSizeEncoded(f, b, junk).size[1] \in Byte
         /\ ReadsOn(f, ReadSizeEncoded(f, b, junk).file)
<1>0. ReadsOn(f, f)
  BY ReadsOnTrans
<1> PICK two : two = Fetch(f, 1, junk)
  OBVIOUS
<1> PICK eight : eight = Fetch(f, 8, junk)
  OBVIOUS
<1>1. /\ two.val[1] \in Byte /\ ReadsOn(f, two.file)
      /\ eight.val[1] \in Byte /\ ReadsOn(f, eight.file)
  <2>1. two.val \in Seq(Byte) /\ Len(two.val) = 1 /\ ReadsOn(f, two.file)
    BY FetchReads
  <2>2. eight.val \in Seq(Byte) /\ Len(eight.val) = 8 /\ ReadsOn(f, eight.file)
    BY FetchReads
  <2> QED BY <2>1, <2>2
<1> PICK r : r = ReadSizeEncoded(f, b, junk)
  OBVIOUS
<1>2. \/ r = [size |-> <<b>>, file |-> f]
      \/ r = [size |-> <<two.val[1], b>>, file |-> two.file]
      \/ r = [size |-> eight.val, file |-> eight.file]
      \/ r = [size |-> <<0>>, file |-> f]
  BY DEF ReadSizeEncoded
<1> QED BY <1>0, <1>1, <1>2 DEF Byte

LEMMA LowByte ==
  ASSUME NEW x \in Nat
  PROVE  x % 256 \in Byte
BY DEF Byte

(* The carries of TimesThousand, digit by digit.                           *)
LEMMA TimesThousandType ==
  ASSUME NEW b \in Seq(Byte), NEW n \in Nat
  PROVE  TimesThousand(b, n) \in Seq(Byte)
<1> DEFINE digit(k) == IF k <= Len(b) THEN b[k] ELSE 0
           next(k, c) == (1000 * digit(k) + c) \div 256
           Upto(f, m) == f = [k \in 0..m |-> IF k = 0 THEN 0 ELSE next(k, f[k - 1])]
           S == {m \in Nat : \E f : Upto(f, m)}
<1>0. \A k \in Nat \ {0} : digit(k) \in Nat
  <2> TAKE k \in Nat \ {0}
  <2>1. Byte \subseteq Nat
    BY DEF Byte
  <2>2. k <= Len(b) => b[k] \in Byte
    OBVIOUS
  <2> QED BY <2>1, <2>2
<1> HIDE DEF digit
<1>10. \A k \in Nat \ {0} : \A c \in Nat : next(k, c) \in Nat
  <2> TAKE k \in Nat \ {0}, c \in Nat
  <2> PICK d \in Nat : d = digit(k)
    BY <1>0
  <2>1. (1000 * d + c) \div 256 \in Nat
    OBVIOUS
  <2> QED BY <2>1
<1> HIDE DEF next
<1>1. 0 \in S
  <2>1. Upto([k \in 0..0 |-> 0], 0)
    OBVIOUS
  <2> QED BY <2>1
<1>2. ASSUME NEW m \in Nat, m \in S PROVE m + 1 \in S
  <2>1. PICK f : Upto(f, m)
    BY <1>2
  <2> DEFINE g == [k \in 0..(m + 1) |->
                     IF k \in 0..m THEN f[k] ELSE next(k, f[k - 1])]
  <2>2. \A k \in 0..m : f[k] = IF k = 0 THEN 0 ELSE next(k, f[k - 1])
    BY <2>1
  <2>3. \A k \in 0..(m + 1) :
          g[k] = IF k = 0 THEN 0 ELSE next(k, g[k - 1])
    <3> TAKE k \in 0..(m + 1)
    <3>1. CASE k \in 0..m
      <4>1. g[k] = f[k] /\ (k # 0 => g[k - 1] = f[k - 1])
        BY <3>1
      <4> HIDE DEF g
      <4> QED BY <2>2, <3>1, <4>1
    <3>2. CASE k = m + 1
      <4>1. g[k - 1] = f[k - 1] /\ k # 0
        BY <3>2
      <4>2. g[k] = next(k, f[k - 1])
        BY <3>2
      <4> HIDE DEF g
      <4> QED BY <4>1, <4>2
    <3> QED BY <3>1, <3>2
  <2>4. g = [k \in 0..(m + 1) |-> g[k]]
    OBVIOUS
  <2> HIDE DEF g
  <2>5. Upto(g, m + 1)
    BY <2>3, <2>4
  <2> HIDE DEF Upto
  <2> QED BY <2>5
<1> HIDE DEF S
<1>3. Nat \subseteq S
  BY <1>1, <1>2, SetInduction
<1>4. \E f : Upto(f, n)
  <2>1. n \in S
    BY <1>3
  <2> QED BY <2>1 DEF S
<1> DEFINE carry[k \in 0..n] == IF k = 0 THEN 0 ELSE next(k, carry[k - 1])
<1>5. carry = [k \in 0..n |-> IF k = 0 THEN 0 ELSE next(k, carry[k - 1])]
  BY <1>4
<1> DEFINE product == [k \in 1..n |-> (1000 * digit(k) + carry[k - 1]) % 256]
<1>6. TimesThousand(b, n) = product
  BY DEF TimesThousand, digit, next
<1> HIDE DEF carry
<1> DEFINE T == {k \in Nat : k <= n => carry[k] \in Nat}
<1>7. Nat \subseteq T
  <2>1. 0 \in T
    BY <1>5
  <2>2. ASSUME NEW k \in Nat, k \in T PROVE k + 1 \in T
    <3> SUFFICES ASSUME k + 1 <= n PROVE carry[k + 1] \in Nat
      OBVIOUS
    <3>1. carry[k] \in Nat /\ k + 1 \in Nat \ {0}
      BY <2>2
    <3>2. carry[k + 1] = next(k + 1, carry[k])
      BY <1>5
    <3> QED BY <1>10, <3>1, <3>2
  <2> HIDE DEF T
  <2> QED BY <2>1, <2>2, SetInduction
<1>8. \A k \in 1..n : product[k] \in Byte
  <2> TAKE k \in 1..n
  <2>1. k - 1 \in T /\ digit(k) \in Nat
    BY <1>0, <1>7
  <2>2. carry[k - 1] \in Nat
    BY <2>1
  <2> PICK d \in Nat : d = digit(k)
    BY <2>1
  <2> PICK c \in Nat : c = carry[k - 1]
    BY <2>2
  <2>5. 1000 * d + c \in Nat
    OBVIOUS
  <2>3. (1000 * d + c) % 256 \in Byte
    BY <2>5, LowByte
  <2>4. product[k] = (1000 * d + c) % 256
    OBVIOUS
  <2> QED BY <2>3, <2>4
<1>9. product \in [1..n -> Byte]
  BY <1>8
<1> HIDE DEF product
<1> QED BY <1>6, <1>9, FunIsSeq

-----------------------------------------------------------------------------
(* The steps                                                               *)

(* A step that goes on with the stream, and comes closer to the end.       *)
Advances ==
  /\ ReadsOn(file, file')
  /\ StepsLeft' < StepsLeft \/ (file.good /\ Consumes(file, file'))

LEMMA EntryStepsType ==
  ASSUME RdbInv
  PROVE  EntrySteps \in 0..765 /\ (pc \in {"key", "value"} => EntrySteps >= 3)
<1>1. tableSize \in 0..255 /\ i \in 0..255 /\ (pc \in {"key", "value"} => i < tableSize)
  BY DEF RdbInv, RdbTypeOK, Byte
<1> QED BY <1>1 DEF EntrySteps

LEMMA StepsLeftType ==
  ASSUME RdbInv
  PROVE  StepsLeft \in 0..772
<1>1. pc \in {"open", "loop", "switch", "attribute", "index", "size", "expirySize", "table",
              "key", "value", "done"}
  BY DEF RdbInv, RdbTypeOK
<1> PICK n \in 0..765 : n = EntrySteps
  BY EntryStepsType
<1> QED BY <1>1 DEF StepsLeft

LEMMA InvKept ==
  ASSUME RdbInv, UNCHANGED <<image, database>>, ReadsOn(file, file'),
         pc' \in {"open", "loop", "switch", "attribute", "index", "size", "expirySize", "table",
                  "key", "value", "done"},
         indicator' \in Byte, nextByte' \in Byte, valueType' \in Byte,
         tableSize' \in Byte, i' \in 0..255, time' \in Seq(Byte), key' \in Strings,
         pc' \in {"key", "value"} => i' < tableSize'
  PROVE  RdbInv'
<1>1. IsStream(file)'
  BY DEF ReadsOn, IsStream
<1>2. file'.pos \in 1..(Len(image'.bytes) + 1) /\ file'.good \in BOOLEAN
  BY <1>1 DEF IsStream
<1>3. /\ DOMAIN database' \subseteq Strings
      /\ \A k \in DOMAIN database' : database'[k] \in Entries
  BY DEF RdbInv, RdbTypeOK
<1>4. RdbTypeOK'
  BY <1>2, <1>3 DEF RdbTypeOK
<1> QED BY <1>1, <1>4 DEF RdbInv

LEMMA HeaderStep ==
  ASSUME RdbInv, NEW junk \in Byte, ReadHeader(junk)
  PROVE  RdbInv' /\ Advances
<1>0. image \in Images /\ IsStream(file) /\ RdbTypeOK
  BY DEF RdbInv
<1>1. pc = "open" /\ pc' \in {"loop", "done"} /\ UNCHANGED <<image, indicator, dbLocals, key, database>>
  BY DEF ReadHeader
<1>2. ReadsOn(file, file')
  <2>1. CASE file' = Fetch(file, 9, junk).file
    <3> PICK n \in Nat : n = 9
      OBVIOUS
    <3>1. ReadsOn(file, Fetch(file, n, junk).file)
      BY <1>0, FetchReads
    <3> QED BY <2>1, <3>1
  <2>2. CASE file' = file
    BY <1>0, <2>2, ReadsOnTrans
  <2> QED BY <2>1, <2>2 DEF ReadHeader
<1>3. StepsLeft' < StepsLeft
  BY <1>1 DEF StepsLeft
<1>4. RdbInv'
  BY <1>0, <1>1, <1>2, InvKept DEF RdbTypeOK, dbLocals
<1> QED BY <1>2, <1>3, <1>4 DEF Advances

LEMMA IndicatorStep ==
  ASSUME RdbInv, NEW junk \in Byte, ReadIndicator(junk)
  PROVE  RdbInv' /\ Advances
<1>0. image \in Images /\ IsStream(file) /\ RdbTypeOK
  BY DEF RdbInv
<1>1. /\ pc = "loop" /\ file.good /\ pc' = "switch"
      /\ UNCHANGED <<image, dbLocals, key, database>>
  BY DEF ReadIndicator
<1>2. indicator' = Fetch(file, 1, junk).val[1] /\ file' = Fetch(file, 1, junk).file
  BY DEF ReadIndicator
<1>4. indicator' \in Byte /\ Consumes(file, file')
  BY <1>0, <1>2, ByteReads
<1>5. RdbInv'
  BY <1>0, <1>1, <1>4, InvKept DEF RdbTypeOK, dbLocals, Consumes
<1> QED BY <1>1, <1>4, <1>5 DEF Advances, Consumes

LEMMA LoopStep ==
  ASSUME RdbInv, EndOfFile \/ SkipIndicator \/ EndOfTable
  PROVE  RdbInv' /\ Advances
<1>0. image \in Images /\ IsStream(file) /\ RdbTypeOK
  BY DEF RdbInv
<1>1. UNCHANGED <<image, file, indicator, dbLocals, key, database>> /\ pc' \in {"loop", "done"}
  BY Zenon DEF EndOfFile, SkipIndicator, EndOfTable
<1>2. ReadsOn(file, file')
  BY <1>0, <1>1, ReadsOnTrans
<1>3. StepsLeft' < StepsLeft
  <2>1. CASE EndOfFile
    BY <2>1 DEF EndOfFile, StepsLeft
  <2>2. CASE SkipIndicator
    BY <2>2 DEF SkipIndicator, StepsLeft
  <2>3. CASE EndOfTable
    <3> PICK n \in Nat : n = EntrySteps
      BY EntryStepsType
    <3>1. StepsLeft = n + 2
      BY <2>3 DEF EndOfTable, StepsLeft
    <3>2. StepsLeft' = 1
      BY <2>3 DEF EndOfTable, StepsLeft
    <3> QED BY <3>1, <3>2
  <2> QED BY <2>1, <2>2, <2>3
<1>4. RdbInv'
  BY <1>0, <1>1, <1>2, InvKept DEF RdbTypeOK, dbLocals
<1> QED BY <1>2, <1>3, <1>4 DEF Advances

(* The steps that read a string of a pair and keep it.                     *)
LEMMA StringStep ==
  ASSUME RdbInv, NEW junk \in Byte, ReadAttribute(junk) \/ ReadMetaValue(junk) \/ ReadKey(junk)
  PROVE  RdbInv' /\ Advances
<1>0. image \in Images /\ IsStream(file) /\ RdbTypeOK
  BY DEF RdbInv
<1> PICK r : r = ReadLengthPrefixedString(file, junk)
  OBVIOUS
<1>1. r.str \in Strings /\ ReadsOn(file, r.file)
  BY <1>0, StringReads DEF Consumes
<1>2. /\ UNCHANGED <<image, indicator, dbLocals, database>>
      /\ file' = r.file /\ key' \in {key, r.str}
      /\ pc' \in {"attribute", "done", "loop", "value"}
      /\ pc' = "value" => pc = "key"
  BY DEF ReadAttribute, ReadMetaValue, ReadKey
<1>3. key' \in Strings
  BY <1>0, <1>1, <1>2 DEF RdbTypeOK
<1>4. RdbInv'
  BY <1>0, <1>1, <1>2, <1>3, InvKept DEF RdbTypeOK, dbLocals, RdbInv
<1>5. StepsLeft' < StepsLeft
  <2>1. CASE ReadAttribute(junk)
    BY <2>1 DEF ReadAttribute, StepsLeft
  <2>2. CASE ReadMetaValue(junk)
    BY <2>2 DEF ReadMetaValue, StepsLeft
  <2>3. CASE ReadKey(junk)
    <3> PICK n \in Nat : n = EntrySteps
      BY EntryStepsType
    <3>1. EntrySteps' = n
      BY <1>2, Zenon DEF EntrySteps, dbLocals
    <3>2. StepsLeft = n + 1
      BY <2>3 DEF ReadKey, StepsLeft
    <3>3. StepsLeft' = n
      BY <2>3, <3>1 DEF ReadKey, StepsLeft
    <3> QED BY <3>2, <3>3
  <2> QED BY <2>1, <2>2, <2>3
<1> QED BY <1>1, <1>2, <1>4, <1>5 DEF Advances

LEMMA IndexStep ==
  ASSUME RdbInv, NEW junk \in Byte, ReadIndex(junk)
  PROVE  RdbInv' /\ Advances
<1>0. image \in Images /\ IsStream(file) /\ RdbTypeOK
  BY DEF RdbInv
<1> PICK b : b = Fetch(file, 1, junk)
  OBVIOUS
<1>1. b.val[1] \in Byte /\ Consumes(file, b.file) /\ IsStream(b.file)
  BY <1>0, ByteReads
<1> PICK r : r = ReadSizeEncoded(b.file, b.val[1], junk)
  OBVIOUS
<1>2. ReadsOn(b.file, r.file)
  BY <1>0, <1>1, SizeReads
<1>3. /\ UNCHANGED <<image, indicator, valueType, tableSize, i, time, key, database>>
      /\ nextByte' = b.val[1] /\ file' = r.file /\ pc = "switch" /\ pc' = "index"
  BY DEF ReadIndex
<1>4. ReadsOn(file, file')
  BY <1>0, <1>1, <1>2, <1>3, ReadsOnTrans DEF Consumes, ReadsOn
<1>5. RdbInv'
  BY <1>0, <1>1, <1>3, <1>4, InvKept DEF RdbTypeOK
<1>6. StepsLeft' < StepsLeft
  BY <1>3 DEF StepsLeft
<1> QED BY <1>4, <1>5, <1>6 DEF Advances

LEMMA RowsLeft ==
  ASSUME NEW n \in 0..255, NEW k \in 0..255, NEW e, e = 3 * (IF k < n THEN n - k ELSE 0)
  PROVE  e + 2 < 768
OBVIOUS

(* A whole table is less than what comes before it.                        *)
LEMMA TableStarts ==
  ASSUME NEW n \in 0..255, NEW k \in 0..255, tableSize' = n, i' = k,
         pc = "expirySize", pc' = "table"
  PROVE  StepsLeft' < StepsLeft
<1> PICK e : e = EntrySteps'
  OBVIOUS
<1>1. e = 3 * (IF k < n THEN n - k ELSE 0)
  BY Zenon DEF EntrySteps
<1>2. e + 2 < 768
  BY <1>1, RowsLeft, ZenonT(40)
<1>3. StepsLeft' = e + 2
  BY DEF StepsLeft
<1>4. StepsLeft = 768
  BY DEF StepsLeft
<1> QED BY <1>2, <1>3, <1>4, Zenon

(* A byte into nextByte and, for the sizes, an encoded size after it.      *)
LEMMA SizeStep ==
  ASSUME RdbInv, NEW junk \in Byte,
         ReadHashIndicator \/ ReadTableSize(junk) \/ ReadExpiryTableSize(junk)
  PROVE  RdbInv' /\ Advances
<1>0. image \in Images /\ IsStream(file) /\ RdbTypeOK /\ nextByte \in Byte
  BY DEF RdbInv, RdbTypeOK
<1> PICK b : b = Fetch(file, 1, nextByte)
  OBVIOUS
<1>1. b.val[1] \in Byte /\ Consumes(file, b.file) /\ IsStream(b.file)
  BY <1>0, ByteReads
<1> PICK r : r = ReadSizeEncoded(b.file, b.val[1], junk)
  OBVIOUS
<1>2. r.size[1] \in Byte /\ ReadsOn(b.file, r.file)
  BY <1>0, <1>1, SizeReads
<1>3. ReadsOn(file, b.file) /\ ReadsOn(file, r.file)
  BY <1>0, <1>1, <1>2, ReadsOnTrans DEF Consumes, ReadsOn
<1>4. /\ UNCHANGED <<image, indicator, time, key, database>>
      /\ nextByte' = b.val[1] /\ file' \in {b.file, r.file}
      /\ tableSize' \in {tableSize, r.size[1]} /\ i' \in {i, 0}
      /\ valueType' = valueType \/ valueType' \in Junk
      /\ pc' \in {"index", "size", "loop", "expirySize", "table"}
  BY DEF ReadHashIndicator, ReadTableSize, ReadExpiryTableSize
<1>5. ReadsOn(file, file')
  BY <1>3, <1>4
<1>6. /\ valueType' \in Byte /\ nextByte' \in Byte /\ tableSize' \in Byte /\ i' \in 0..255
      /\ indicator' \in Byte /\ time' \in Seq(Byte) /\ key' \in Strings
  BY <1>0, <1>1, <1>2, <1>4, JunkAssumption DEF RdbTypeOK
<1>7. RdbInv'
  BY <1>4, <1>5, <1>6, InvKept
<1>8. StepsLeft' < StepsLeft
  <2>1. CASE ReadHashIndicator
    BY <2>1 DEF ReadHashIndicator, StepsLeft
  <2>2. CASE ReadTableSize(junk)
    BY <2>2 DEF ReadTableSize, StepsLeft
  <2>3. CASE ReadExpiryTableSize(junk)
    <3>1. tableSize' \in 0..255 /\ i' \in 0..255
      BY <1>6 DEF Byte
    <3>2. pc = "expirySize" /\ pc' = "table"
      BY <2>3 DEF ReadExpiryTableSize
    <3> QED BY <3>1, <3>2, TableStarts
  <2> QED BY <2>1, <2>2, <2>3
<1> QED BY <1>5, <1>7, <1>8 DEF Advances

LEMMA ExpiryType ==
  ASSUME NEW op \in Byte, NEW t \in Seq(Byte)
  PROVE  ExpiryTime(op, t) \in Seq(Byte)
<1>1. TimesThousand(t, 4) \in Seq(Byte)
  BY TimesThousandType
<1> PICK p \in Seq(Byte) : p = TimesThousand(t, 4)
  BY <1>1
<1>2. ZeroExtend(p) \in Seq(Byte) /\ ZeroExtend(t) \in Seq(Byte)
  BY ZeroExtendType
<1> QED BY <1>2 DEF ExpiryTime

LEMMA EntryTypeStep ==
  ASSUME RdbInv, NEW junk \in Byte, ReadEntryType(junk)
  PROVE  RdbInv' /\ Advances
<1>0. /\ image \in Images /\ IsStream(file) /\ RdbTypeOK
      /\ nextByte \in Byte /\ valueType \in Byte
      /\ tableSize \in 0..255 /\ i \in 0..255 /\ i < tableSize /\ pc = "table"
  BY DEF RdbInv, RdbTypeOK, ReadEntryType, Byte
<1> PICK b : b = Fetch(file, 1, nextByte)
  OBVIOUS
<1>1. b.val[1] \in Byte /\ Consumes(file, b.file) /\ IsStream(b.file)
  BY <1>0, ByteReads
<1> PICK op \in Byte : op = b.val[1]
  BY <1>1
<1> PICK w \in Nat : w = ExpiryWidth(op)
  <2>1. ExpiryWidth(op) \in Nat
    BY DEF ExpiryWidth
  <2> QED BY <2>1
<1> PICK t : t = Fetch(b.file, w, junk)
  OBVIOUS
<1>2. t.val \in Seq(Byte) /\ ReadsOn(b.file, t.file) /\ IsStream(t.file)
  <2>1. t.val \in Seq(Byte) /\ ReadsOn(b.file, t.file)
    BY <1>0, <1>1, FetchReads
  <2> QED BY <2>1 DEF ReadsOn
<1> PICK later : later = Fetch(t.file, 1, valueType)
  OBVIOUS
<1>3. later.val[1] \in Byte /\ ReadsOn(t.file, later.file) /\ IsStream(later.file)
  <2>1. later.val[1] \in Byte /\ Consumes(t.file, later.file) /\ IsStream(later.file)
    BY <1>0, <1>2, ByteReads
  <2> QED BY <2>1 DEF Consumes
<1>4. /\ nextByte' = op /\ time' = ExpiryTime(op, t.val)
      /\ \/ valueType' = b.val[1] /\ file' = b.file
         \/ valueType' = later.val[1] /\ file' = later.file
      /\ pc' \in {"key", "done"}
      /\ UNCHANGED <<image, indicator, tableSize, i, key, database>>
  BY SMTT(30) DEF ReadEntryType
<1>5. ReadsOn(file, file')
  <2>1. ReadsOn(file, b.file)
    BY <1>1 DEF Consumes
  <2>2. ReadsOn(file, t.file)
    BY <1>0, <1>1, <1>2, <2>1, ReadsOnTrans
  <2>3. ReadsOn(file, later.file)
    BY <1>0, <1>2, <1>3, <2>2, ReadsOnTrans
  <2> QED BY <1>4, <2>1, <2>3
<1>6. time' \in Seq(Byte)
  BY <1>2, <1>4, ExpiryType
<1>7. valueType' \in Byte
  BY <1>1, <1>3, <1>4
<1>8. RdbInv'
  BY <1>0, <1>4, <1>5, <1>6, <1>7, InvKept DEF RdbTypeOK
<1>9. StepsLeft' < StepsLeft
  <2> PICK n \in Nat : n = EntrySteps
    BY EntryStepsType
  <2>1. EntrySteps' = n
    BY <1>4, Zenon DEF EntrySteps
  <2>2. StepsLeft = n + 2
    BY <1>0 DEF StepsLeft
  <2>3. StepsLeft' \in {n + 1, 0}
    BY <1>4, <2>1 DEF StepsLeft
  <2> QED BY <2>2, <2>3
<1> QED BY <1>5, <1>8, <1>9 DEF Advances

LEMMA ValueStep ==
  ASSUME RdbInv, NEW junk \in Byte, ReadValue(junk)
  PROVE  RdbInv' /\ Advances
<1>0. /\ image \in Images /\ IsStream(file) /\ RdbTypeOK /\ pc = "value" /\ i < tableSize
      /\ tableSize \in 0..255 /\ i \in 0..255 /\ key \in Strings /\ time \in Seq(Byte)
  BY DEF RdbInv, ReadValue, RdbTypeOK, Byte
<1> PICK r : r = ReadLengthPrefixedString(file, junk)
  OBVIOUS
<1>1. r.str \in Strings /\ ReadsOn(file, r.file)
  BY <1>0, StringReads DEF Consumes
<1> PICK entry : entry = [value |-> r.str, expiry_time |-> time]
  OBVIOUS
<1>2. /\ UNCHANGED <<image, indicator, nextByte, valueType, tableSize, time, key>>
      /\ file' = r.file /\ pc' = "table" /\ i' = i + 1
  BY DEF ReadValue
<1>11. database' = [s \in {key} \cup DOMAIN database |->
                     IF s = key THEN entry ELSE database[s]]
  BY DEF ReadValue, DatabaseSet
<1>3. entry \in Entries
  BY <1>0, <1>1 DEF Entries
<1>4. /\ DOMAIN database' = {key} \cup DOMAIN database
      /\ \A k \in DOMAIN database' :
           database'[k] = entry \/ (k \in DOMAIN database /\ database'[k] = database[k])
  BY <1>11
<1>5. /\ DOMAIN database' \subseteq Strings
      /\ \A k \in DOMAIN database' : database'[k] \in Entries
  BY <1>0, <1>3, <1>4 DEF RdbTypeOK
<1>6. IsStream(file)'
  BY <1>1, <1>2 DEF ReadsOn, IsStream
<1>12. i' \in 0..255
  BY <1>0, <1>2
<1>7. file'.pos \in 1..(Len(image'.bytes) + 1) /\ file'.good \in BOOLEAN
  BY <1>6 DEF IsStream
<1>8. RdbTypeOK'
  BY <1>0, <1>2, <1>5, <1>7, <1>12 DEF RdbTypeOK
<1>9. RdbInv'
  BY <1>0, <1>2, <1>6, <1>8 DEF RdbInv
<1>10. StepsLeft' < StepsLeft
  <2>1. StepsLeft = 3 * (tableSize - i)
    BY <1>0 DEF StepsLeft, EntrySteps
  <2>2. StepsLeft' = EntrySteps' + 2
    BY <1>2 DEF StepsLeft
  <2>3. EntrySteps' = 3 * (tableSize - (i + 1))
    BY <1>0, <1>2 DEF EntrySteps
  <2> QED BY <1>0, <2>1, <2>2, <2>3
<1> QED BY <1>1, <1>2, <1>9, <1>10 DEF Advances

-----------------------------------------------------------------------------
(* The invariant, and the measure                                          *)

LEMMA RdbInit == Init => RdbInv
<1> SUFFICES ASSUME Init PROVE RdbInv
  OBVIOUS
<1> DEFINE empty == [k \in 1..0 |-> 0]
<1>1. image \in Images /\ Len(image.bytes) \in Nat
  BY ImagesAssumption DEF Init
<1>2. IsStream(file)
  <2>1. 1 \in 1..(Len(image.bytes) + 1) /\ TRUE \in BOOLEAN
    BY <1>1
  <2>2. file = [pos |-> 1, good |-> TRUE]
    BY DEF Init
  <2> QED BY <2>1, <2>2, Zenon DEF IsStream
<1>3. file.pos \in 1..(Len(image.bytes) + 1) /\ file.good \in BOOLEAN
  BY <1>2 DEF IsStream
<1>4. empty = <<>> /\ empty \in Seq(Byte)
  OBVIOUS
<1> HIDE DEF empty
<1>5. key \in Strings /\ time \in Seq(Byte)
  <2>1. ZeroExtend(empty) \in Seq(Byte)
    BY <1>4, ZeroExtendType
  <2>2. Raw(empty) \in Strings
    BY <1>4 DEF Raw, Strings
  <2> QED BY <1>4, <2>1, <2>2, Zenon DEF Init
<1>6. DOMAIN database = {}
  BY DEF Init
<1>7. RdbTypeOK
  BY <1>3, <1>5, <1>6, JunkAssumption DEF RdbTypeOK, Init, Byte
<1> QED BY <1>1, <1>2, <1>7 DEF RdbInv, Init

LEMMA RdbAdvances ==
  ASSUME RdbInv, Next
  PROVE  RdbInv' /\ Advances
<1>1. ASSUME NEW junk \in Junk,
             \/ ReadHeader(junk) \/ ReadIndicator(junk)
             \/ ReadAttribute(junk) \/ ReadMetaValue(junk)
             \/ ReadIndex(junk) \/ ReadTableSize(junk) \/ ReadExpiryTableSize(junk)
             \/ ReadEntryType(junk) \/ ReadKey(junk) \/ ReadValue(junk)
      PROVE  RdbInv' /\ Advances
  <2> junk \in Byte
    BY JunkAssumption
  <2> QED BY <1>1, HeaderStep, IndicatorStep, StringStep, IndexStep, SizeStep, EntryTypeStep,
             ValueStep, Zenon
<1>2. CASE EndOfFile \/ SkipIndicator \/ EndOfTable
  BY <1>2, LoopStep, Zenon
<1>3. CASE ReadHashIndicator
  <2> PICK junk \in Byte : TRUE
    BY DEF Byte
  <2> QED BY <1>3, SizeStep, Zenon
<1> QED BY <1>1, <1>2, <1>3, Zenon DEF Next

LEMMA RdbStep == RdbInv /\ [Next]_vars => RdbInv'
<1> SUFFICES ASSUME RdbInv, [Next]_vars PROVE RdbInv'
  OBVIOUS
<1>1. CASE Next
  BY <1>1, RdbAdvances, Zenon
<1>2. CASE UNCHANGED vars
  BY <1>2 DEF RdbInv, RdbTypeOK, IsStream, vars, dbLocals
<1> QED BY <1>1, <1>2

(* The invariant holds of every load, whatever the file.                   *)
THEOREM RdbInvHolds == Spec => []RdbInv
BY RdbInit, RdbStep, PTL DEF Spec

(* The stream never leaves the file, and what is read into each local, and *)
(* into the database, has its width, whatever the file's bytes are.        *)
THEOREM RdbTypeCorrect == Spec => []RdbTypeOK
<1>1. RdbInv => RdbTypeOK
  BY DEF RdbInv
<1> QED BY <1>1, RdbInvHolds, PTL

LEMMA ImageKept ==
  ASSUME Next
  PROVE  image' = image
BY Zenon DEF Next, ReadHeader, ReadIndicator, ReadAttribute, ReadMetaValue, ReadIndex,
   ReadTableSize, ReadExpiryTableSize, ReadEntryType, ReadKey, ReadValue, EndOfFile,
   SkipIndicator, ReadHashIndicator, EndOfTable

StepsLeftOK == StepsLeft \in 0..772

LEMMA MeasureStep ==
  ASSUME RdbInv, Next, StepsLeftOK'
  PROVE  Measure' < Measure
<1>1. Advances /\ image' = image
  BY RdbAdvances, ImageKept, Zenon
<1>2. image \in Images /\ IsStream(file) /\ IsStream(file')
  BY <1>1 DEF RdbInv, Advances, ReadsOn
<1> PICK b \in Nat : b = BytesLeft(file)
  BY <1>2, StreamType
<1> PICK c \in Nat : c = BytesLeft(file')
  BY <1>2, StreamType
<1> PICK s \in 0..772 : s = StepsLeft
  BY StepsLeftType
<1> PICK t \in 0..772 : t = StepsLeft'
  BY DEF StepsLeftOK
<1>3. (c <= b /\ t < s) \/ c < b
  BY <1>1, Zenon DEF Advances, ReadsOn, Consumes
<1>4. Measure = 1000 * b + s
  BY DEF Measure
<1>5. Measure' = 1000 * c + t
  <2>1. BytesLeft(file)' = c
    BY <1>1, Zenon DEF BytesLeft
  <2> QED BY <2>1 DEF Measure
<1>6. 1000 * c + t < 1000 * b + s
  BY <1>3
<1> QED BY <1>4, <1>5, <1>6

(* Whatever file it is given, each step of the loader brings it closer to  *)
(* its end: neither a stream that has failed nor the bytes left from       *)
(* earlier reads, nor a table cut in the middle, keep it from returning.   *)
THEOREM LoaderAlwaysProgresses == Spec => LoaderProgresses
<1>1. RdbInv => StepsLeftOK
  BY StepsLeftType DEF StepsLeftOK
<1>2. RdbInv /\ StepsLeftOK' /\ [Next]_vars => [Measure' < Measure]_vars
  <2> SUFFICES ASSUME RdbInv, StepsLeftOK', [Next]_vars
               PROVE  [Measure' < Measure]_vars
    OBVIOUS
  <2>1. CASE Next
    BY <2>1, MeasureStep, Zenon
  <2> QED BY <2>1
<1> QED BY <1>1, <1>2, RdbInvHolds, PTL DEF Spec, LoaderProgresses

-----------------------------------------------------------------------------
(* Reading what the format writes                                          *)

StreamFrom(p) == [pos |-> p, good |-> TRUE]

(* What the image has of the bytes from p on is s.                         *)
Has(p, s) ==
  \A k \in 1..Len(s) : p + k - 1 <= Len(image.bytes) => image.bytes[p + k - 1] = s[k]
Reaches(q) == q <= Len(image.bytes) + 1

LEMMA HasConcat ==
  ASSUME NEW p \in Nat, NEW s \in Seq(Byte), NEW n \in Nat, n = Len(s),
         NEW t \in Seq(Byte), Has(p, s \o t)
  PROVE  Has(p, s) /\ Has(p + n, t)
<1>1. Len(t) \in Nat /\ s \o t \in Seq(Byte) /\ Len(s \o t) = n + Len(t)
  OBVIOUS
<1>2. \A k \in 1..n : (s \o t)[k] = s[k]
  OBVIOUS
<1>3. \A k \in 1..Len(t) : (s \o t)[n + k] = t[k]
  OBVIOUS
<1>4. Has(p, s)
  BY <1>1, <1>2 DEF Has
<1>5. Has(p + n, t)
  <2> SUFFICES ASSUME NEW k \in 1..Len(t), p + n + k - 1 <= Len(image.bytes)
               PROVE  image.bytes[p + n + k - 1] = t[k]
    BY DEF Has
  <2> PICK j \in Nat : j = n + k
    BY <1>1
  <2>1. j \in 1..Len(s \o t) /\ p + j - 1 = p + n + k - 1
    BY <1>1
  <2>2. image.bytes[p + j - 1] = (s \o t)[j]
    BY <2>1, Zenon DEF Has
  <2> QED BY <1>3, <2>1, <2>2
<1> QED BY <1>4, <1>5

LEMMA JoinedLength ==
  ASSUME NEW s \in Seq(Byte), NEW n \in Nat, n = Len(s), NEW t \in Seq(Byte),
         NEW m \in Nat, m = Len(t)
  PROVE  s \o t \in Seq(Byte) /\ Len(s \o t) = n + m
OBVIOUS

ReadsWhole(r, p, n) ==
  r = [val |-> [k \in 1..n |-> image.bytes[p + k - 1]], file |-> StreamFrom(p + n)]

LEMMA FetchWhole ==
  ASSUME NEW f, NEW p \in Nat, f = StreamFrom(p),
         NEW n \in Nat, NEW old, NEW a \in Nat, Available(f) = a, n <= a
  PROVE  ReadsWhole(Fetch(f, n, old), p, n)
<1> DEFINE v(g) == [k \in 1..n |-> IF k <= g THEN image.bytes[p + k - 1] ELSE old]
<1>1. f.pos = p /\ f.good = TRUE
  BY DEF StreamFrom
<1>2. Fetch(f, n, old).val = v(n)
  BY <1>1 DEF Fetch
<1>3. v(n) = [k \in 1..n |-> image.bytes[p + k - 1]]
  OBVIOUS
<1>4. Fetch(f, n, old) = [val |-> Fetch(f, n, old).val, file |-> StreamFrom(p + n)]
  BY <1>1 DEF Fetch, StreamFrom
<1> QED BY <1>2, <1>3, <1>4 DEF ReadsWhole

LEMMA FetchPart ==
  ASSUME NEW f, NEW p \in Nat, f = StreamFrom(p),
         NEW n \in Nat, NEW old, NEW a \in Nat, Available(f) = a, ~(n <= a)
  PROVE  /\ ~Fetch(f, n, old).file.good
         /\ \A k \in 1..n :
              Fetch(f, n, old).val[k] = IF k <= a THEN image.bytes[p + k - 1] ELSE old
<1>1. f.pos = p /\ f.good = TRUE /\ ~(a = n)
  BY DEF StreamFrom
<1> QED BY <1>1 DEF Fetch

LEMMA Room ==
  ASSUME NEW len \in Nat, NEW p \in 1..(len + 1)
  PROVE  len + 1 - p \in Nat /\ p \in Nat
OBVIOUS

(* What reading n bytes gives where the image has the bytes s, or some.    *)
FetchGives(r, p, n, s, old) ==
  IF Reaches(p + n) THEN r = [val |-> s, file |-> StreamFrom(p + n)]
  ELSE /\ ~r.file.good /\ n > 0
       /\ r.val \in Seq(Byte) /\ Len(r.val) = n /\ r.val[n] = old
       /\ p <= Len(image.bytes) => r.val[1] = s[1]

LEMMA FetchHas ==
  ASSUME image \in Images, NEW p \in 1..(Len(image.bytes) + 1), NEW s \in Seq(Byte), Has(p, s),
         NEW n, n = Len(s), NEW old \in Byte
  PROVE  FetchGives(Fetch(StreamFrom(p), n, old), p, n, s, old)
<1>0. image.bytes \in Seq(Byte) /\ Len(image.bytes) \in Nat /\ n \in Nat
  BY ImagesAssumption
<1> PICK len \in Nat : len = Len(image.bytes)
  BY <1>0
<1>6. p \in 1..(len + 1)
  OBVIOUS
<1>5. len + 1 - p \in Nat /\ p \in Nat
  BY <1>6, Room
<1> PICK f : f = StreamFrom(p)
  OBVIOUS
<1> PICK a \in Nat : a = len + 1 - p
  BY <1>5
<1>1. Available(f) = a
  BY DEF StreamFrom, Available
<1> PICK r : r = Fetch(f, n, old)
  OBVIOUS
<1>2. CASE Reaches(p + n)
  <2>1. n <= a
    BY <1>0, <1>2, <1>5 DEF Reaches
  <2> DEFINE v == [k \in 1..n |-> image.bytes[p + k - 1]]
  <2>5. ReadsWhole(r, p, n)
    BY <1>0, <1>1, <1>5, <2>1, FetchWhole, Zenon
  <2>2. r = [val |-> v, file |-> StreamFrom(p + n)]
    BY <2>5, Zenon DEF ReadsWhole
  <2>3. v = s
    <3>1. s = [k \in 1..n |-> s[k]]
      OBVIOUS
    <3>2. \A k \in 1..n : v[k] = s[k]
      <4> TAKE k \in 1..n
      <4>1. v[k] = image.bytes[p + k - 1]
        OBVIOUS
      <4>2. p + k - 1 <= len
        BY <1>0, <1>5, <2>1
      <4> QED BY <4>1, <4>2 DEF Has
    <3> QED BY <3>1, <3>2
  <2> HIDE DEF v
  <2> QED BY <1>2, <2>2, <2>3 DEF FetchGives
<1>3. CASE ~Reaches(p + n)
  <2>1. a < n /\ n > 0 /\ ~(n <= a)
    BY <1>0, <1>3, <1>5 DEF Reaches
  <2>2. /\ ~r.file.good
        /\ \A k \in 1..n : r.val[k] = IF k <= a THEN image.bytes[p + k - 1] ELSE old
    BY <1>0, <1>1, <1>5, <2>1, FetchPart
  <2>3. r.val[n] = old
    BY <1>0, <2>1, <2>2
  <2>4. p <= len => r.val[1] = s[1]
    <3> SUFFICES ASSUME p <= len PROVE r.val[1] = s[1]
      OBVIOUS
    <3>1. 1 <= a /\ 1 \in 1..n /\ p + 1 - 1 = p
      BY <1>0, <1>5, <2>1
    <3>2. r.val[1] = image.bytes[p]
      BY <2>2, <3>1
    <3> QED BY <1>0, <1>5, <3>1, <3>2 DEF Has
  <2>5. IsStream(f)
    <3>1. TRUE \in BOOLEAN /\ f = [pos |-> p, good |-> TRUE]
      BY DEF StreamFrom
    <3> QED BY <3>1, Zenon DEF IsStream
  <2>6. r.val \in Seq(Byte) /\ Len(r.val) = n 
    BY <1>0, <2>5, FetchReads
  <2> QED BY <1>3, <2>1, <2>2, <2>3, <2>4, <2>6 DEF FetchGives
<1> QED BY <1>2, <1>3

LEMMA FetchFails ==
  ASSUME NEW f, ~f.good, NEW n \in Nat, NEW old
  PROVE  /\ ~Fetch(f, n, old).file.good /\ Len(Fetch(f, n, old).val) = n
         /\ \A k \in 1..n : Fetch(f, n, old).val[k] = old
<1>1. Available(f) = 0
  BY DEF Available
<1> DEFINE got == IF n <= Available(f) THEN n ELSE Available(f)
           v == [k \in 1..n |-> IF k <= got THEN image.bytes[f.pos + k - 1] ELSE old]
<1>2. got = 0
  BY <1>1
<1>3. Fetch(f, n, old).val = v /\ ~Fetch(f, n, old).file.good
  BY DEF Fetch
<1> HIDE DEF got
<1>4. \A k \in 1..n : v[k] = old
  BY <1>2
<1>5. Len(v) = n
  OBVIOUS
<1> HIDE DEF v
<1> QED BY <1>3, <1>4, <1>5

LEMMA ZeroExtends ==
  ASSUME NEW n \in Seq(Byte), Len(n) = 8, n[8] < 128, NEW w \in 1..4,
         SignExtend(SubSeq(n, 1, w)) = n
  PROVE  /\ SubSeq(n, 1, w) \in Seq(Byte) /\ Len(SubSeq(n, 1, w)) = w
         /\ ZeroExtend(SubSeq(n, 1, w)) = n
<1> PICK b : b = SubSeq(n, 1, w)
  OBVIOUS
<1>1. b \in Seq(Byte) /\ Len(b) = w
  OBVIOUS
<1>2. n = [k \in 1..8 |-> IF k <= w THEN b[k] ELSE IF b[w] >= 128 THEN 255 ELSE 0]
  BY <1>1 DEF SignExtend
<1>3. n[8] = IF b[w] >= 128 THEN 255 ELSE 0
  BY <1>2
<1>4. ~(b[w] >= 128)
  BY <1>3
<1>5. n = [k \in 1..8 |-> IF k <= w THEN b[k] ELSE 0]
  BY <1>2, <1>4
<1>6. ZeroExtend(b) = [k \in 1..8 |-> IF k <= w THEN b[k] ELSE 0]
  BY <1>1 DEF ZeroExtend
<1> QED BY <1>1, <1>5, <1>6

(* The integer of width w that follows the first byte enc.                 *)
Width(enc) == CASE enc = 192 -> 1 [] enc = 193 -> 2 [] enc = 194 -> 4
EncodesInteger(s, enc, b) ==
  /\ enc \in 192..194 /\ b \in Seq(Byte) /\ Len(b) = Width(enc)
  /\ EncodeString(s) = <<enc>> \o b /\ s = Decimal(ZeroExtend(b))

LEMMA IntegerOfWidth ==
  ASSUME NEW s, NEW n \in Seq(Byte), Len(n) = 8, n[8] < 128, s = Decimal(n),
         NEW enc \in 192..194, NEW w \in 1..4, w = Width(enc), SignExtend(SubSeq(n, 1, w)) = n,
         EncodeString(s) = <<enc>> \o SubSeq(n, 1, w)
  PROVE  \E e, b : EncodesInteger(s, e, b)
<1>1. SubSeq(n, 1, w) \in Seq(Byte) /\ Len(SubSeq(n, 1, w)) = w /\ ZeroExtend(SubSeq(n, 1, w)) = n
  BY ZeroExtends
<1>2. EncodesInteger(s, enc, SubSeq(n, 1, w))
  BY <1>1, Zenon DEF EncodesInteger
<1> QED BY <1>2

LEMMA IntegerEncoding ==
  ASSUME NEW s, Readable(s), s.kind # "raw"
  PROVE  \E enc, b : EncodesInteger(s, enc, b)
<1> PICK n : n = s.bytes
  OBVIOUS
<1>1. /\ n \in Seq(Byte) /\ Len(n) = 8 /\ n[8] < 128 /\ SignExtend(SubSeq(n, 1, 4)) = n
      /\ s = Decimal(n) /\ s.kind = "int"
  BY DEF Readable, Strings, Decimal
<1>2. EncodeString(s) = EncodeInteger(n)
  BY <1>1 DEF EncodeString
<1> DEFINE fits(w) == SignExtend(SubSeq(n, 1, w)) = n
<1>6. \E enc \in 192..194, w \in 1..4 :
        w = Width(enc) /\ fits(w) /\ EncodeInteger(n) = <<enc>> \o SubSeq(n, 1, w)
  <2>3. CASE fits(1)
    <3>1. EncodeInteger(n) = <<192>> \o SubSeq(n, 1, 1)
      BY <2>3 DEF EncodeInteger
    <3>2. 192 \in 192..194 /\ 1 \in 1..4 /\ 1 = Width(192)
      BY DEF Width
    <3> QED BY <2>3, <3>1, <3>2, Zenon
  <2>4. CASE ~fits(1) /\ fits(2)
    <3>1. EncodeInteger(n) = <<193>> \o SubSeq(n, 1, 2)
      BY <2>4 DEF EncodeInteger
    <3>2. 193 \in 192..194 /\ 2 \in 1..4 /\ 2 = Width(193)
      BY DEF Width
    <3> QED BY <2>4, <3>1, <3>2, Zenon
  <2>5. CASE ~fits(1) /\ ~fits(2)
    <3>1. EncodeInteger(n) = <<194>> \o SubSeq(n, 1, 4)
      BY <1>1, <2>5 DEF EncodeInteger
    <3>2. 194 \in 192..194 /\ 4 \in 1..4 /\ 4 = Width(194)
      BY DEF Width
    <3> QED BY <1>1, <3>1, <3>2, Zenon
  <2> HIDE DEF fits
  <2> QED BY <2>3, <2>4, <2>5, Zenon
<1> HIDE DEF fits
<1> PICK enc \in 192..194, w \in 1..4 :
        w = Width(enc) /\ fits(w) /\ EncodeInteger(n) = <<enc>> \o SubSeq(n, 1, w)
  BY <1>6, Zenon
<1>7. SignExtend(SubSeq(n, 1, w)) = n
  BY DEF fits
<1>8. n \in Seq(Byte) /\ Len(n) = 8 /\ n[8] < 128 /\ s = Decimal(n)
  BY <1>1
<1>9. EncodeString(s) = <<enc>> \o SubSeq(n, 1, w)
  BY <1>2
<1> QED BY <1>7, <1>8, <1>9, IntegerOfWidth, Zenon

LEMMA ShortLength ==
  ASSUME NEW n \in Nat, n < 64
  PROVE  n \in 0..63
OBVIOUS

LEMMA RawEncoding ==
  ASSUME NEW s, Readable(s), s.kind = "raw"
  PROVE  /\ s.bytes \in Seq(Byte) /\ Len(s.bytes) \in 0..63 /\ s = Raw(s.bytes)
         /\ EncodeString(s) = <<Len(s.bytes)>> \o s.bytes
<1>1. s.bytes \in Seq(Byte) /\ Len(s.bytes) < 64 /\ Len(s.bytes) \in Nat /\ s = Raw(s.bytes)
  BY DEF Readable, Strings, Raw
<1> PICK len \in Nat : len = Len(s.bytes)
  BY <1>1
<1>2. EncodeLength(len) = <<len>>
  BY <1>1 DEF EncodeLength
<1>3. s.kind # "int"
  OBVIOUS
<1>4. EncodeString(s) = <<len>> \o s.bytes
  BY <1>2, <1>3, Zenon DEF EncodeString
<1>7. len < 64
  BY <1>1
<1>5. len \in 0..63
  BY <1>7, ShortLength
<1>6. EncodeString(s) = <<Len(s.bytes)>> \o s.bytes
  BY <1>4
<1> QED BY <1>1, <1>5, <1>6, Zenon

LEMMA ByteIsSeq ==
  ASSUME NEW b \in Byte
  PROVE  <<b>> \in Seq(Byte) /\ Len(<<b>>) = 1 /\ <<b>>[1] = b
OBVIOUS

LEMMA Joined ==
  ASSUME NEW s \in Seq(Byte), NEW t \in Seq(Byte)
  PROVE  s \o t \in Seq(Byte) /\ Len(s \o t) = Len(s) + Len(t) /\ Len(s) \in Nat /\ Len(t) \in Nat
OBVIOUS

LEMMA StringEncoding ==
  ASSUME NEW s, Readable(s)
  PROVE  EncodeString(s) \in Seq(Byte) /\ Len(EncodeString(s)) \in Nat \ {0}
<1>1. CASE s.kind = "raw"
  <2> PICK len : len = Len(s.bytes)
    OBVIOUS
  <2>1. len \in Byte /\ s.bytes \in Seq(Byte) /\ EncodeString(s) = <<len>> \o s.bytes
    BY <1>1, RawEncoding, SMTT(30) DEF Byte
  <2> PICK t \in Seq(Byte) : t = <<len>> /\ Len(t) = 1
    BY <2>1, ByteIsSeq
  <2> QED BY <2>1, Joined
<1>2. CASE s.kind # "raw"
  <2> PICK enc, b : EncodesInteger(s, enc, b)
    BY <1>2, IntegerEncoding
  <2>1. enc \in Byte /\ b \in Seq(Byte) /\ EncodeString(s) = <<enc>> \o b
    BY DEF EncodesInteger, Byte
  <2> PICK t \in Seq(Byte) : t = <<enc>> /\ Len(t) = 1
    BY <2>1, ByteIsSeq
  <2> QED BY <2>1, Joined
<1> QED BY <1>1, <1>2

(* What a string of a file that has ended reads as is no key.              *)
LEMMA NoKey ==
  ASSUME NEW v, NEW n \in Nat, Len(v) = n, n > 0 => v[n] = 0
  PROVE  ~Plain(Raw(v))
BY DEF Plain, Raw

LEMMA LengthFails ==
  ASSUME NEW f, NEW junk \in Byte, NEW b \in Byte, Fetch(f, 1, junk).val[1] = b,
         ~Fetch(f, 1, junk).file.good
  PROVE  /\ ~ReadLengthPrefixedString(f, junk).file.good
         /\ ~Plain(ReadLengthPrefixedString(f, junk).str)
<1> PICK g : g = Fetch(f, 1, junk).file
  OBVIOUS
<1> PICK r : r = ReadLengthPrefixedString(f, junk)
  OBVIOUS
<1>1. ~g.good /\ b \in Nat
  BY DEF Byte
<1>2. CASE b < 192
  <2>1. r = [str |-> Raw(Fetch(g, b, 0).val), file |-> Fetch(g, b, 0).file]
    BY <1>2 DEF ReadLengthPrefixedString, Byte
  <2> PICK v : v = Fetch(g, b, 0).val
    OBVIOUS
  <2>2. ~Fetch(g, b, 0).file.good /\ Len(v) = b /\ \A k \in 1..b : v[k] = 0
    BY <1>1, FetchFails
  <2>3. b > 0 => v[b] = 0
    BY <1>1, <2>2
  <2>4. ~Plain(Raw(v))
    BY <1>1, <2>2, <2>3, NoKey
  <2> QED BY <2>1, <2>2, <2>4
<1>3. CASE b \in 192..194
  <2>1. r = ReadIntegerEncodedString(g, b, junk)
    BY <1>3 DEF ReadLengthPrefixedString, ReadEncodedString
  <2>2. Width(b) \in Nat
    BY <1>3 DEF Width
  <2> PICK e : e = Fetch(g, Width(b), junk)
    OBVIOUS
  <2>3. r = [str |-> Decimal(ZeroExtend(e.val)), file |-> e.file]
    BY <2>1, Zenon DEF ReadIntegerEncodedString, Width
  <2>4. ~e.file.good
    BY <1>1, <2>2, FetchFails
  <2>5. ~Plain(r.str)
    BY <2>3 DEF Plain, Decimal
  <2> QED BY <2>3, <2>4, <2>5
<1>4. CASE b > 194
  <2>1. r = [str |-> Raw(<<>>), file |-> g]
    BY <1>4 DEF ReadLengthPrefixedString, ReadEncodedString, Byte
  <2>2. ~Plain(Raw(<<>>))
    BY DEF Plain, Raw
  <2> QED BY <1>1, <2>1, <2>2
<1> QED BY <1>2, <1>3, <1>4 DEF Byte

LEMMA StringFails ==
  ASSUME NEW f, ~f.good, NEW junk \in Byte
  PROVE  /\ ~ReadLengthPrefixedString(f, junk).file.good
         /\ ~Plain(ReadLengthPrefixedString(f, junk).str)
<1> PICK n \in Nat : n = 1
  OBVIOUS
<1>1. ~Fetch(f, n, junk).file.good /\ \A k \in 1..n : Fetch(f, n, junk).val[k] = junk
  BY FetchFails
<1>2. ~Fetch(f, 1, junk).file.good /\ Fetch(f, 1, junk).val[1] = junk
  BY <1>1
<1> QED BY <1>2, LengthFails

ByteGives(r, p, b, old) ==
  IF p <= Len(image.bytes) THEN r.val[1] = b /\ r.file = StreamFrom(p + 1)
  ELSE r.val[1] = old /\ ~r.file.good

LEMMA FetchByte ==
  ASSUME image \in Images, NEW p \in 1..(Len(image.bytes) + 1), NEW b \in Byte, Has(p, <<b>>),
         NEW old \in Byte
  PROVE  ByteGives(Fetch(StreamFrom(p), 1, old), p, b, old)
<1> PICK n \in Nat : n = 1
  OBVIOUS
<1> PICK s \in Seq(Byte) : s = <<b>> /\ Len(s) = n
  BY ByteIsSeq
<1> PICK r : r = Fetch(StreamFrom(p), n, old)
  OBVIOUS
<1>1. FetchGives(r, p, n, s, old)
  BY FetchHas
<1>2. Reaches(p + 1) <=> p <= Len(image.bytes)
  BY ImagesAssumption DEF Reaches
<1>3. r.file = StreamFrom(p + n) /\ r.val = s => r.val[1] = b /\ r.file = StreamFrom(p + 1)
  OBVIOUS
<1>4. r = Fetch(StreamFrom(p), 1, old)
  OBVIOUS
<1>5. Reaches(p + 1) => r = [val |-> s, file |-> StreamFrom(p + n)]
  BY <1>1 DEF FetchGives
<1>6. Reaches(p + 1) => r.file = StreamFrom(p + n) /\ r.val = s
  BY <1>5
<1>7. ~Reaches(p + 1) => ~r.file.good /\ r.val[1] = old
  BY <1>1 DEF FetchGives
<1> QED BY <1>2, <1>3, <1>4, <1>6, <1>7, Zenon DEF ByteGives

StringGives(r, s, q) ==
  IF Reaches(q) THEN r = [str |-> s, file |-> StreamFrom(q)]
  ELSE ~r.file.good /\ ~Plain(r.str)

(* A byte and n more.                                                      *)
HasFirst(p, b, t, n) ==
  Has(p, <<b>>) /\ Has(p + 1, t) /\ p + Len(<<b>> \o t) = p + 1 + n

LEMMA HasByte ==
  ASSUME NEW p \in Nat, NEW b \in Byte, NEW t \in Seq(Byte), NEW n \in Nat, n = Len(t),
         Has(p, <<b>> \o t)
  PROVE  HasFirst(p, b, t, n)
<1>1. <<b>> \in Seq(Byte) /\ Len(<<b>>) = 1 /\ 1 \in Nat
  BY ByteIsSeq
<1>2. Has(p, <<b>>) /\ Has(p + 1, t)
  BY <1>1, HasConcat, Zenon
<1>3. Len(<<b>> \o t) = 1 + n
  BY <1>1, JoinedLength
<1> PICK len : len = Len(<<b>> \o t)
  OBVIOUS
<1>4. p + len = p + 1 + n
  BY <1>3
<1> QED BY <1>2, <1>4, Zenon DEF HasFirst

LEMMA ZeroIsByte == 0 \in Byte
BY DEF Byte

LEMMA SmallByte ==
  ASSUME NEW b \in 0..63
  PROVE  b \in Nat /\ b \in Byte /\ b < 192
BY DEF Byte

LEMMA Positions ==
  ASSUME image \in Images, NEW p \in 1..(Len(image.bytes) + 1)
  PROVE  /\ p \in Nat /\ Len(image.bytes) \in Nat
         /\ p <= Len(image.bytes) => p + 1 \in 1..(Len(image.bytes) + 1)
         /\ \A n \in Nat : ~(p <= Len(image.bytes)) => ~Reaches(p + 1 + n)
BY ImagesAssumption DEF Reaches

LEMMA RawHas ==
  ASSUME image \in Images, NEW p \in 1..(Len(image.bytes) + 1),
         NEW t \in Seq(Byte), NEW n \in Nat, n = Len(t), NEW b \in Byte, b < 192, b = n,
         NEW s, s = Raw(t), Has(p, <<b>>), Has(p + 1, t), NEW junk \in Byte
  PROVE  StringGives(ReadLengthPrefixedString(StreamFrom(p), junk), s, p + 1 + n)
<1> PICK r : r = ReadLengthPrefixedString(StreamFrom(p), junk)
  OBVIOUS
<1> PICK len : len = Fetch(StreamFrom(p), 1, junk)
  OBVIOUS
<1>4. ByteGives(len, p, b, junk)
  BY FetchByte
<1>6. CASE ~(p <= Len(image.bytes))
  <2>1. ~len.file.good /\ len.val[1] = junk
    BY <1>4, <1>6 DEF ByteGives
  <2>2. ~r.file.good /\ ~Plain(r.str)
    BY <2>1, LengthFails
  <2>3. ~Reaches(p + 1 + n)
    BY <1>6, Positions
  <2> QED BY <2>2, <2>3 DEF StringGives
<1>7. CASE p <= Len(image.bytes)
  <2>1. len.file = StreamFrom(p + 1) /\ len.val[1] = b
    BY <1>4, <1>7 DEF ByteGives
  <2> PICK e : e = Fetch(StreamFrom(p + 1), n, 0)
    OBVIOUS
  <2>2. r = [str |-> Raw(e.val), file |-> e.file]
    BY <2>1 DEF ReadLengthPrefixedString
  <2>3. p + 1 \in 1..(Len(image.bytes) + 1) /\ 0 \in Byte
    BY <1>7, Positions, ZeroIsByte
  <2>4. FetchGives(e, p + 1, n, t, 0)
    BY <2>3, FetchHas
  <2>6. CASE Reaches(p + 1 + n)
    <3>1. e = [val |-> t, file |-> StreamFrom(p + 1 + n)]
      BY <2>4, <2>6 DEF FetchGives
    <3>3. e.val = t /\ e.file = StreamFrom(p + 1 + n)
      BY <3>1
    <3>2. r = [str |-> s, file |-> StreamFrom(p + 1 + n)]
      BY <2>2, <3>3, Zenon
    <3> QED BY <2>6, <3>2, Zenon DEF StringGives
  <2>7. CASE ~Reaches(p + 1 + n)
    <3>1. ~e.file.good /\ Len(e.val) = n /\ e.val[n] = 0
      BY <2>4, <2>7 DEF FetchGives
    <3>2. ~Plain(Raw(e.val))
      BY <3>1, NoKey
    <3>4. r.file = e.file /\ r.str = Raw(e.val)
      BY <2>2
    <3>5. ~r.file.good /\ ~Plain(r.str)
      BY <3>1, <3>2, <3>4
    <3> QED BY <2>7, <3>5, Zenon DEF StringGives
  <2> QED BY <2>6, <2>7
<1> QED BY <1>6, <1>7

LEMMA IntegerHas ==
  ASSUME image \in Images, NEW p \in 1..(Len(image.bytes) + 1),
         NEW t \in Seq(Byte), NEW n \in Nat, n = Len(t), NEW b \in Byte, b \in 192..194,
         n = Width(b), NEW s, s = Decimal(ZeroExtend(t)), Has(p, <<b>>), Has(p + 1, t),
         NEW junk \in Byte
  PROVE  StringGives(ReadLengthPrefixedString(StreamFrom(p), junk), s, p + 1 + n)
<1> PICK r : r = ReadLengthPrefixedString(StreamFrom(p), junk)
  OBVIOUS
<1> PICK len : len = Fetch(StreamFrom(p), 1, junk)
  OBVIOUS
<1>4. ByteGives(len, p, b, junk)
  BY FetchByte
<1>6. CASE ~(p <= Len(image.bytes))
  <2>1. ~len.file.good /\ len.val[1] = junk
    BY <1>4, <1>6 DEF ByteGives
  <2>2. ~r.file.good /\ ~Plain(r.str)
    BY <2>1, LengthFails
  <2>3. ~Reaches(p + 1 + n)
    BY <1>6, Positions
  <2> QED BY <2>2, <2>3 DEF StringGives
<1>7. CASE p <= Len(image.bytes)
  <2>1. len.file = StreamFrom(p + 1) /\ len.val[1] = b
    BY <1>4, <1>7 DEF ByteGives
  <2> PICK e : e = Fetch(StreamFrom(p + 1), n, junk)
    OBVIOUS
  <2>2. r = [str |-> Decimal(ZeroExtend(e.val)), file |-> e.file]
    <3>1. r = ReadIntegerEncodedString(StreamFrom(p + 1), b, junk)
      BY <2>1 DEF ReadLengthPrefixedString, ReadEncodedString
    <3> QED BY <3>1, Zenon DEF ReadIntegerEncodedString, Width
  <2>3. p + 1 \in 1..(Len(image.bytes) + 1)
    BY <1>7, Positions
  <2>4. FetchGives(e, p + 1, n, t, junk)
    BY <2>3, FetchHas
  <2>6. CASE Reaches(p + 1 + n)
    <3>1. e = [val |-> t, file |-> StreamFrom(p + 1 + n)]
      BY <2>4, <2>6 DEF FetchGives
    <3>2. r = [str |-> s, file |-> StreamFrom(p + 1 + n)]
      BY <2>2, <3>1
    <3> QED BY <2>6, <3>2, Zenon DEF StringGives
  <2>7. CASE ~Reaches(p + 1 + n)
    <3>1. ~e.file.good
      BY <2>4, <2>7 DEF FetchGives
    <3>2. ~Plain(r.str)
      BY <2>2 DEF Plain, Decimal
    <3> QED BY <2>2, <2>7, <3>1, <3>2 DEF StringGives
  <2> QED BY <2>6, <2>7
<1> QED BY <1>6, <1>7

LEMMA StringHas ==
  ASSUME image \in Images, NEW p \in 1..(Len(image.bytes) + 1), NEW s, Readable(s),
         Has(p, EncodeString(s)), NEW junk \in Byte
  PROVE  StringGives(ReadLengthPrefixedString(StreamFrom(p), junk), s, p + Len(EncodeString(s)))
<1>0. p \in Nat
  BY Positions
<1>1. CASE s.kind = "raw"
  <2> PICK t : t = s.bytes
    OBVIOUS
  <2>1. /\ t \in Seq(Byte) /\ Len(t) \in 0..63 /\ s = Raw(t)
        /\ EncodeString(s) = <<Len(t)>> \o t
    BY <1>1, RawEncoding, Zenon
  <2> PICK n \in 0..63 : n = Len(t)
    BY <2>1
  <2>2. n \in Nat /\ n \in Byte /\ n < 192 /\ Has(p, <<n>> \o t)
    BY <2>1, SmallByte, Zenon
  <2>3. HasFirst(p, n, t, n)
    BY <1>0, <2>1, <2>2, HasByte, Zenon
  <2>4. StringGives(ReadLengthPrefixedString(StreamFrom(p), junk), s, p + 1 + n)
    BY <2>1, <2>2, <2>3, RawHas, Zenon DEF HasFirst
  <2>5. p + Len(EncodeString(s)) = p + 1 + n
    BY <2>1, <2>3, Zenon DEF HasFirst
  <2> QED BY <2>4, <2>5, Zenon
<1>2. CASE s.kind # "raw"
  <2> PICK b, t : EncodesInteger(s, b, t)
    BY <1>2, IntegerEncoding
  <2>1. /\ t \in Seq(Byte) /\ Len(t) = Width(b) /\ b \in 192..194
        /\ s = Decimal(ZeroExtend(t)) /\ EncodeString(s) = <<b>> \o t
    BY DEF EncodesInteger
  <2>2. b \in Byte /\ Width(b) \in Nat
    BY <2>1 DEF Byte, Width
  <2> PICK n \in Nat : n = Width(b)
    BY <2>2
  <2>3. Has(p, <<b>> \o t) /\ n = Len(t)
    BY <2>1, Zenon
  <2>6. HasFirst(p, b, t, n)
    BY <1>0, <2>1, <2>2, <2>3, HasByte, Zenon
  <2>4. StringGives(ReadLengthPrefixedString(StreamFrom(p), junk), s, p + 1 + n)
    BY <2>1, <2>2, <2>3, <2>6, IntegerHas, Zenon DEF HasFirst
  <2>5. p + Len(EncodeString(s)) = p + 1 + n
    BY <2>1, <2>6, Zenon DEF HasFirst
  <2> QED BY <2>4, <2>5, Zenon
<1> QED BY <1>1, <1>2

-----------------------------------------------------------------------------
(* Where things are in a file                                              *)

Layout(l) == Written(l) /\ Supported(l) /\ ImageOf(image, l)

HasThree(p, s, a, t, b, u, c) ==
  /\ Has(p, s) /\ Has(p + a, t) /\ Has(p + a + b, u)
  /\ s \o t \o u \in Seq(Byte) /\ Len(s \o t \o u) = a + b + c

LEMMA ThreeParts ==
  ASSUME NEW p \in Nat, NEW s \in Seq(Byte), NEW a \in Nat, a = Len(s),
         NEW t \in Seq(Byte), NEW b \in Nat, b = Len(t),
         NEW u \in Seq(Byte), NEW c \in Nat, c = Len(u), Has(p, s \o t \o u)
  PROVE  HasThree(p, s, a, t, b, u, c)
<1> PICK st : st = s \o t
  OBVIOUS
<1>1. st \in Seq(Byte) /\ a + b = Len(st)
  BY JoinedLength
<1> PICK ab \in Nat : ab = a + b
  OBVIOUS
<1>2. st \in Seq(Byte) /\ ab = Len(st) /\ Has(p, st \o u)
  BY <1>1
<1>3. Has(p, st) /\ Has(p + ab, u)
  BY <1>2, HasConcat, Zenon
<1>4. Has(p, s) /\ Has(p + a, t)
  BY <1>3, HasConcat
<1>5. st \o u \in Seq(Byte) /\ Len(st \o u) = ab + c
  BY <1>2, JoinedLength
<1>6. p + ab = p + a + b
  OBVIOUS
<1> QED BY <1>3, <1>4, <1>5, <1>6, Zenon DEF HasThree

HasNext(p, s, q) == Has(p + 1, s) /\ q = p + Len(s)

LEMMA FollowsHas ==
  ASSUME image \in Images, NEW l, ImageOf(image, l), NEW p \in Nat, NEW s \in Seq(Byte), NEW q,
         Follows(l.bytes, p, s, q)
  PROVE  HasNext(p, s, q)
<1> PICK f : f = l.bytes
  OBVIOUS
<1>1. \A k \in 1..Len(image.bytes) : image.bytes[k] = f[k]
  BY DEF ImageOf
<1>2. At(f, p + 1, s) /\ q = p + Len(s)
  BY DEF Follows
<1>3. \A k \in 1..Len(s) : f[p + 1 + k - 1] = s[k]
  BY <1>2 DEF At
<1>4. Len(image.bytes) \in Nat /\ Len(s) \in Nat
  BY ImagesAssumption
<1>5. ASSUME NEW k \in 1..Len(s), p + 1 + k - 1 <= Len(image.bytes)
      PROVE  image.bytes[p + 1 + k - 1] = s[k]
  <2> PICK j \in Nat : j = p + 1 + k - 1
    BY <1>4
  <2>1. j \in 1..Len(image.bytes)
    BY <1>4, <1>5
  <2> QED BY <1>1, <1>3, <2>1, Zenon
<1> QED BY <1>2, <1>5 DEF Has, HasNext

(* A field that follows a and ends at b.                                   *)
FieldAt(a, b, f) ==
  /\ Has(a + 1, <<250>>)
  /\ Has(a + 2, EncodeString(f.name))
  /\ Has(a + 2 + Len(EncodeString(f.name)), EncodeString(f.value))
  /\ b + 1 = a + 2 + Len(EncodeString(f.name)) + Len(EncodeString(f.value))

LEMMA FieldParts ==
  ASSUME image \in Images, NEW l, ImageOf(image, l), NEW a \in Nat, NEW b, NEW f,
         Readable(f.name), Readable(f.value), Follows(l.bytes, a, EncodeField(f), b)
  PROVE  FieldAt(a, b, f) /\ b \in Nat /\ a <= b
<1> PICK s \in Seq(Byte), c \in Nat : s = <<250>> /\ c = Len(s) /\ c = 1
  <2>1. <<250>> \in Seq(Byte) /\ Len(<<250>>) = 1
    BY ByteIsSeq DEF Byte
  <2> QED BY <2>1
<1> PICK t \in Seq(Byte), n \in Nat : t = EncodeString(f.name) /\ n = Len(t)
  BY StringEncoding
<1> PICK u \in Seq(Byte), m \in Nat : u = EncodeString(f.value) /\ m = Len(u)
  BY StringEncoding
<1> PICK e : e = s \o t \o u
  OBVIOUS
<1>1. EncodeField(f) = e
  BY Zenon DEF EncodeField
<1>2. e \in Seq(Byte)
  BY JoinedLength
<1>3. Has(a + 1, e) /\ b = a + Len(e)
  <2>1. Follows(l.bytes, a, e, b)
    BY <1>1, Zenon
  <2>2. HasNext(a, e, b)
    BY <1>2, <2>1, FollowsHas, ZenonT(40)
  <2> QED BY <2>2 DEF HasNext
<1>4. a + 1 \in Nat
  OBVIOUS
<1>5. HasThree(a + 1, s, c, t, n, u, m)
  BY <1>3, <1>4, ThreeParts, ZenonT(40)
<1>6. Has(a + 1, s) /\ Has(a + 1 + c, t) /\ Has(a + 1 + c + n, u) /\ Len(e) = c + n + m
  BY <1>5, Zenon DEF HasThree
<1>7. a + 1 + c = a + 2 /\ a + 1 + c + n = a + 2 + n
  OBVIOUS
<1>8. b = a + (c + n + m)
  BY <1>3, <1>6, Zenon
<1>9. b + 1 = a + 2 + n + m /\ b \in Nat /\ a <= b
  BY <1>8
<1> QED BY <1>6, <1>7, <1>9, ZenonT(40) DEF FieldAt

(* The sections that follow a, up to b: database, index, sizes.            *)
SizesAt(a, b, size, expiring) ==
  /\ Has(a + 1, <<254>>) /\ Has(a + 2, <<0>>) /\ Has(a + 3, <<251>>)
  /\ Has(a + 4, EncodeLength(size))
  /\ Has(a + 4 + Len(EncodeLength(size)), EncodeLength(expiring))
  /\ b + 1 = a + 4 + Len(EncodeLength(size)) + Len(EncodeLength(expiring))

LEMMA LengthEncoding ==
  ASSUME NEW n \in Byte
  PROVE  /\ EncodeLength(n) = IF n < 64 THEN <<n>> ELSE <<64, n>>
         /\ EncodeLength(n) \in Seq(Byte) /\ Len(EncodeLength(n)) \in {1, 2}
<1>1. n \in 0..255
  BY DEF Byte
<1>2. 64 + n \div 256 = 64 /\ n % 256 = n
  BY <1>1
<1>3. EncodeLength(n) = IF n < 64 THEN <<n>> ELSE <<64, n>>
  BY <1>2, Zenon DEF EncodeLength
<1>4. 64 \in Byte
  BY DEF Byte
<1>5. <<n>> \in Seq(Byte) /\ <<64, n>> \in Seq(Byte) /\ Len(<<n>>) = 1 /\ Len(<<64, n>>) = 2
  BY <1>4
<1> QED BY <1>3, <1>5

LEMMA ThreeBytes ==
  ASSUME NEW p \in Nat, NEW a \in Byte, NEW b \in Byte, NEW c \in Byte, Has(p, <<a, b, c>>)
  PROVE  Has(p, <<a>>) /\ Has(p + 1, <<b>>) /\ Has(p + 2, <<c>>)
<1>1. /\ p <= Len(image.bytes) => image.bytes[p] = a
      /\ p + 1 <= Len(image.bytes) => image.bytes[p + 1] = b
      /\ p + 2 <= Len(image.bytes) => image.bytes[p + 2] = c
  <2> PICK s : s = <<a, b, c>>
    OBVIOUS
  <2>1. s[1] = a /\ s[2] = b /\ s[3] = c /\ Len(s) = 3
    OBVIOUS
  <2>2. \A k \in 1..3 : p + k - 1 <= Len(image.bytes) => image.bytes[p + k - 1] = s[k]
    BY <2>1 DEF Has
  <2>3. /\ p + 1 - 1 = p /\ p + 2 - 1 = p + 1 /\ p + 3 - 1 = p + 2
        /\ 1 \in 1..3 /\ 2 \in 1..3 /\ 3 \in 1..3
    OBVIOUS
  <2> QED BY <2>1, <2>2, <2>3
<1>2. \A x : \A q \in Nat : (q <= Len(image.bytes) => image.bytes[q] = x) => Has(q, <<x>>)
  <2> TAKE x
  <2> TAKE q \in Nat
  <2>1. Len(<<x>>) = 1 /\ <<x>>[1] = x /\ q + 1 - 1 = q
    OBVIOUS
  <2>2. 1..1 = {1}
    OBVIOUS
  <2> QED BY <2>1, <2>2 DEF Has
<1>3. p + 1 \in Nat /\ p + 2 \in Nat
  OBVIOUS
<1> QED BY <1>1, <1>2, <1>3, Zenon

LEMMA SizesParts ==
  ASSUME image \in Images, NEW l, ImageOf(image, l), NEW a \in Nat, NEW b, NEW size \in Byte,
         NEW expiring \in Byte, Follows(l.bytes, a, EncodeSizes(size, expiring), b)
  PROVE  SizesAt(a, b, size, expiring) /\ b \in Nat
<1>0. 254 \in Byte /\ 0 \in Byte /\ 251 \in Byte
  BY DEF Byte
<1> PICK s \in Seq(Byte), c \in Nat : s = <<254, 0, 251>> /\ c = Len(s) /\ c = 3
  <2>1. <<254, 0, 251>> \in Seq(Byte) /\ Len(<<254, 0, 251>>) = 3
    BY <1>0
  <2> QED BY <2>1
<1> PICK t \in Seq(Byte), n \in Nat : t = EncodeLength(size) /\ n = Len(t)
  BY LengthEncoding
<1> PICK u \in Seq(Byte), m \in Nat : u = EncodeLength(expiring) /\ m = Len(u)
  BY LengthEncoding
<1> PICK e : e = s \o t \o u
  OBVIOUS
<1>1. EncodeSizes(size, expiring) = e
  BY Zenon DEF EncodeSizes
<1>2. e \in Seq(Byte)
  BY JoinedLength
<1>3. Has(a + 1, e) /\ b = a + Len(e)
  <2>1. Follows(l.bytes, a, e, b)
    BY <1>1, Zenon
  <2>2. HasNext(a, e, b)
    BY <1>2, <2>1, FollowsHas, ZenonT(40)
  <2> QED BY <2>2 DEF HasNext
<1>4. a + 1 \in Nat
  OBVIOUS
<1>5. HasThree(a + 1, s, c, t, n, u, m)
  BY <1>3, <1>4, ThreeParts, ZenonT(40)
<1>6. Has(a + 1, s) /\ Has(a + 1 + c, t) /\ Has(a + 1 + c + n, u) /\ Len(e) = c + n + m
  BY <1>5, Zenon DEF HasThree
<1>7. a + 1 + c = a + 4 /\ a + 1 + c + n = a + 4 + n
  OBVIOUS
<1>8. b = a + (c + n + m)
  BY <1>3, <1>6, ZenonT(40)
<1>9. b + 1 = a + 4 + n + m /\ b \in Nat
  BY <1>8
<1>10. Has(a + 1, <<254>>) /\ Has(a + 1 + 1, <<0>>) /\ Has(a + 1 + 2, <<251>>)
  BY <1>0, <1>4, <1>6, ThreeBytes
<1>11. a + 1 + 1 = a + 2 /\ a + 1 + 2 = a + 3
  OBVIOUS
<1>12. Has(a + 2, <<0>>) /\ Has(a + 3, <<251>>) /\ Has(a + 4, t) /\ Has(a + 4 + n, u)
  BY <1>6, <1>7, <1>10, <1>11
<1>13. b + 1 = a + 4 + Len(EncodeLength(size)) + Len(EncodeLength(expiring))
  BY <1>9
<1>14. Has(a + 4 + Len(EncodeLength(size)), EncodeLength(expiring))
  BY <1>12
<1> QED BY <1>9, <1>10, <1>12, <1>13, <1>14 DEF SizesAt

(* An entry that follows a and ends at b.                                  *)
EntryAt(a, b, e) ==
  LET x == Len(EncodeExpiry(e.expiry))
      k == Len(EncodeString(e.key))
  IN /\ Has(a + 1, EncodeExpiry(e.expiry)) /\ Has(a + 1 + x, <<0>>)
     /\ Has(a + x + 2, EncodeString(e.key)) /\ Has(a + x + 2 + k, EncodeString(e.value))
     /\ b + 1 = a + x + 2 + k + Len(EncodeString(e.value))

(* How an expiry is written.                                               *)
ExpiryEncodes(x, op, t) ==
  /\ EncodeExpiry(x) = <<op>> \o t /\ t \in Seq(Byte) /\ op \in {252, 253}
  /\ Len(t) = ExpiryWidth(op) /\ ExpiryTime(op, t) = Meant(x)

LEMMA ZeroExtendLen ==
  ASSUME NEW b \in Seq(Byte)
  PROVE  /\ ZeroExtend(b) \in Seq(Byte) /\ Len(ZeroExtend(b)) = 8
         /\ ZeroExtend(ZeroExtend(b)) = ZeroExtend(b)
<1> PICK z : z = ZeroExtend(b)
  OBVIOUS
<1>1. z \in Seq(Byte)
  BY ZeroExtendType
<1>2. z = [k \in 1..8 |-> IF k <= Len(b) THEN b[k] ELSE 0]
  BY DEF ZeroExtend
<1>3. Len(z) = 8
  BY <1>2
<1>4. ZeroExtend(z) = [k \in 1..8 |-> IF k <= 8 THEN z[k] ELSE 0]
  BY <1>3, Zenon DEF ZeroExtend
<1>5. \A k \in 1..8 : (IF k <= 8 THEN z[k] ELSE 0) = z[k]
  OBVIOUS
<1>6. z = [k \in 1..8 |-> z[k]]
  BY <1>1, <1>3
<1>7. ZeroExtend(z) = z
  BY <1>4, <1>5, <1>6
<1> QED BY <1>1, <1>3, <1>7

LEMMA ExpiryEncoding ==
  ASSUME NEW x, ReadableExpiry(x)
  PROVE  \/ EncodeExpiry(x) = <<>> /\ Meant(x) = ZeroExtend(<<>>)
         \/ \E op, t : ExpiryEncodes(x, op, t)
<1>1. CASE x = Never
  BY <1>1 DEF Never, EncodeExpiry, Meant
<1> PICK z : z = ZeroExtend(x.time)
  OBVIOUS
<1>0. z \in Seq(Byte) /\ Len(z) = 8 /\ ZeroExtend(z) = z
  BY ZeroExtendLen DEF ReadableExpiry
<1>2. CASE x.unit = "ms"
  <2>1. EncodeExpiry(x) = <<252>> \o z
    BY <1>2 DEF EncodeExpiry
  <2>2. ExpiryWidth(252) = 8 /\ ExpiryTime(252, z) = ZeroExtend(z)
    BY DEF ExpiryWidth, ExpiryTime
  <2>3. Meant(x) = z
    BY <1>2 DEF Meant
  <2>4. ExpiryEncodes(x, 252, z)
    BY <1>0, <2>1, <2>2, <2>3 DEF ExpiryEncodes
  <2> QED BY <2>4
<1>3. CASE x.unit = "sec" /\ Meant(x) = ExpiryTime(253, SubSeq(ZeroExtend(x.time), 1, 4))
  <2> PICK t : t = SubSeq(z, 1, 4)
    OBVIOUS
  <2>1. EncodeExpiry(x) = <<253>> \o t
    BY <1>3 DEF EncodeExpiry
  <2>2. ExpiryWidth(253) = 4
    BY DEF ExpiryWidth
  <2>3. t \in Seq(Byte) /\ Len(t) = 4
    BY <1>0
  <2>4. ExpiryEncodes(x, 253, t)
    BY <1>3, <2>1, <2>2, <2>3 DEF ExpiryEncodes
  <2> QED BY <2>4
<1> QED BY <1>1, <1>2, <1>3 DEF ReadableExpiry

LEMMA ExpirySequence ==
  ASSUME NEW x, ReadableExpiry(x)
  PROVE  EncodeExpiry(x) \in Seq(Byte)
<1>1. <<>> \in Seq(Byte)
  OBVIOUS
<1>2. ASSUME NEW op, NEW t, ExpiryEncodes(x, op, t)
      PROVE  EncodeExpiry(x) \in Seq(Byte)
  <2>1. op \in Byte /\ t \in Seq(Byte) /\ EncodeExpiry(x) = <<op>> \o t
    BY <1>2 DEF ExpiryEncodes, Byte
  <2>2. <<op>> \in Seq(Byte)
    BY <2>1, ByteIsSeq
  <2> QED BY <2>1, <2>2, Joined
<1> QED BY <1>1, <1>2, ExpiryEncoding

LEMMA EntryOffsets ==
  ASSUME NEW a \in Nat, NEW p \in Nat, p = a + 1, NEW x \in Nat, NEW c \in Nat, c = 1,
         NEW xc \in Nat, xc = x + c, NEW k \in Nat, NEW xck \in Nat, xck = xc + k, NEW m \in Nat
  PROVE  /\ p + x + c = a + x + 2 /\ p + xck = a + x + 2 + k /\ p + x = a + 1 + x
         /\ a + (xck + m) + 1 = a + x + 2 + k + m /\ a + (xck + m) \in Nat /\ a < a + (xck + m)
OBVIOUS

LEMMA EntryParts ==
  ASSUME image \in Images, NEW l, ImageOf(image, l), NEW a \in Nat, NEW b, NEW e,
         Readable(e.key), Readable(e.value), ReadableExpiry(e.expiry),
         Follows(l.bytes, a, EncodeEntry(e), b)
  PROVE  EntryAt(a, b, e) /\ b \in Nat /\ a < b
<1> PICK s \in Seq(Byte), x \in Nat : s = EncodeExpiry(e.expiry) /\ x = Len(s)
  BY ExpirySequence
<1> PICK t \in Seq(Byte), c \in Nat : t = <<0>> /\ c = Len(t) /\ c = 1
  <2>1. <<0>> \in Seq(Byte) /\ Len(<<0>>) = 1
    BY ByteIsSeq DEF Byte
  <2> QED BY <2>1
<1> PICK u \in Seq(Byte), k \in Nat : u = EncodeString(e.key) /\ k = Len(u)
  BY StringEncoding
<1> PICK v \in Seq(Byte), m \in Nat : v = EncodeString(e.value) /\ m = Len(v)
  BY StringEncoding
<1> PICK stu : stu = s \o t \o u
  OBVIOUS
<1>1. EncodeEntry(e) = stu \o v
  BY Zenon DEF EncodeEntry
<1> PICK st : st = s \o t
  OBVIOUS
<1> PICK xc \in Nat : xc = x + c
  OBVIOUS
<1>2. st \in Seq(Byte) /\ xc = Len(st) /\ stu = st \o u
  BY JoinedLength
<1> PICK xck \in Nat : xck = xc + k
  OBVIOUS
<1>3. stu \in Seq(Byte) /\ xck = Len(stu)
  BY <1>2, JoinedLength
<1>4. stu \o v \in Seq(Byte) /\ Len(stu \o v) = xck + m
  BY <1>3, JoinedLength
<1>5. Has(a + 1, stu \o v) /\ b = a + Len(stu \o v)
  <2>1. Follows(l.bytes, a, stu \o v, b)
    BY <1>1, Zenon
  <2>2. HasNext(a, stu \o v, b)
    BY <1>4, <2>1, FollowsHas, Zenon
  <2> QED BY <2>2 DEF HasNext
<1> PICK p \in Nat : p = a + 1
  OBVIOUS
<1>6. Has(p, stu) /\ Has(p + xck, v)
  BY <1>3, <1>5, HasConcat
<1>7. HasThree(p, s, x, t, c, u, k)
  BY <1>6, ThreeParts
<1>8. Has(p, s) /\ Has(p + x, t) /\ Has(p + x + c, u)
  BY <1>7, Zenon DEF HasThree
<1>9. p + x + c = a + x + 2 /\ p + xck = a + x + 2 + k /\ p + x = a + 1 + x
  BY EntryOffsets
<1>10. Has(a + 1, s) /\ Has(a + 1 + x, t) /\ Has(a + x + 2, u) /\ Has(a + x + 2 + k, v)
  BY <1>6, <1>8, <1>9
<1>11. b = a + (xck + m)
  BY <1>4, <1>5
<1>12. b + 1 = a + x + 2 + k + m /\ b \in Nat /\ a < b
  BY <1>11, EntryOffsets
<1>13. EntryAt(a, b, e)
  BY <1>10, <1>12 DEF EntryAt
<1> QED BY <1>12, <1>13

-----------------------------------------------------------------------------
(* The positions of a layout                                               *)

LEMMA Rising ==
  ASSUME NEW n \in Nat, NEW f \in [0..n -> Nat], \A k \in 1..n : f[k - 1] <= f[k],
         NEW m \in 0..n
  PROVE  \A k \in m..n : f[m] <= f[k]
<1> DEFINE T == {d \in Nat : m + d <= n => f[m] <= f[m + d]}
<1>1. 0 \in T
  OBVIOUS
<1>2. \A d \in Nat : d \in T => d + 1 \in T
  <2> SUFFICES ASSUME NEW d \in Nat, d \in T, m + (d + 1) <= n
               PROVE  f[m] <= f[m + (d + 1)]
    OBVIOUS
  <2>1. f[m] <= f[m + d]
    OBVIOUS
  <2> PICK k \in 1..n : k = m + (d + 1)
    OBVIOUS
  <2>2. f[k - 1] <= f[k] /\ k - 1 = m + d
    OBVIOUS
  <2>3. f[m] \in Nat /\ f[k - 1] \in Nat /\ f[k] \in Nat
    OBVIOUS
  <2> QED BY <2>1, <2>2, <2>3
<1> HIDE DEF T
<1>3. Nat \subseteq T
  BY <1>1, <1>2, SetInduction
<1> TAKE k \in m..n
<1>4. k - m \in T
  BY <1>3
<1> QED BY <1>4 DEF T

Fields(l) == Len(l.fields)
Size(l) == Len(l.db)

(* Everything the steps need to know of a layout.                          *)
FieldEnds(l) ==
  /\ Fields(l) \in Nat /\ l.fieldEnd[0] = 9 /\ Has(1, Header)
  /\ l.fieldEnd \in [0..Fields(l) -> Nat]
  /\ \A m \in 1..Fields(l) :
       /\ FieldAt(l.fieldEnd[m - 1], l.fieldEnd[m], l.fields[m])
       /\ Readable(l.fields[m].name) /\ Readable(l.fields[m].value)
       /\ Raw(<<>>) \notin {l.fields[m].name, l.fields[m].value}
  /\ \A m \in 0..Fields(l) : l.fieldEnd[m] + 3 < l.end[0]
  /\ SizesAt(l.fieldEnd[Fields(l)], l.end[0], l.size, l.expiring)
  /\ l.size \in Byte /\ l.expiring \in Byte
EntryEnds(l) ==
  /\ Size(l) \in 0..l.size /\ l.size \in Byte
  /\ l.end \in [0..Size(l) -> Nat]
  /\ \A n \in 1..Size(l) :
       /\ EntryAt(l.end[n - 1], l.end[n], l.db[n])
       /\ Readable(l.db[n].key) /\ Readable(l.db[n].value) /\ ReadableExpiry(l.db[n].expiry)
       /\ \A m \in 1..(n - 1) : l.db[m].key # l.db[n].key
  /\ \A m \in 0..Size(l) : \A n \in m..Size(l) : l.end[m] <= l.end[n]

LEMMA HeaderIsSeq == Header \in Seq(Byte) /\ Len(Header) = 9
<1>1. <<82, 69, 68, 73, 83>> \in Seq(Byte) /\ Len(<<82, 69, 68, 73, 83>>) = 5
  BY DEF Byte
<1>2. <<48, 48, 49, 49>> \in Seq(Byte) /\ Len(<<48, 48, 49, 49>>) = 4
  BY DEF Byte
<1> PICK s \in Seq(Byte) : s = <<82, 69, 68, 73, 83>> /\ Len(s) = 5
  BY <1>1
<1> PICK t \in Seq(Byte) : t = <<48, 48, 49, 49>> /\ Len(t) = 4
  BY <1>2
<1>3. Len(s \o t) = 9 /\ s \o t \in Seq(Byte)
  OBVIOUS
<1> QED BY <1>3 DEF Header, Magic

LEMMA EndsAround ==
  ASSUME NEW n \in Nat, NEW f \in [0..n -> Nat], NEW m \in 1..n
  PROVE  f[m - 1] \in Nat /\ f[m] \in Nat /\ m - 1 \in 0..n /\ m \in 0..n
OBVIOUS

LEMMA SizesRise ==
  ASSUME NEW a \in Nat, NEW b \in Nat, NEW x \in {1, 2}, NEW y \in {1, 2},
         b + 1 = a + 4 + x + y, NEW c \in Nat, c <= a
  PROVE  c + 3 < b
OBVIOUS

LEMMA FieldsFound ==
  ASSUME image \in Images, NEW l, Layout(l)
  PROVE  FieldEnds(l)
<1>0. ImageOf(image, l)
  BY DEF Layout
<1> PICK n \in Nat : n = Fields(l)
  BY DEF Layout, Supported, Fields
<1> PICK f : f = l.fieldEnd
  OBVIOUS
<1>1. /\ f \in [0..n -> Nat]
      /\ Follows(l.bytes, 0, Header, f[0])
      /\ \A m \in 1..n : Follows(l.bytes, f[m - 1], EncodeField(l.fields[m]), f[m])
      /\ Follows(l.bytes, f[n], EncodeSizes(l.size, l.expiring), l.end[0])
  BY DEF Layout, Written, Fields
<1>2. \A m \in 1..n :
        /\ Readable(l.fields[m].name) /\ Readable(l.fields[m].value)
        /\ Raw(<<>>) \notin {l.fields[m].name, l.fields[m].value}
  BY DEF Layout, Supported, Fields
<1>3. l.size \in Byte /\ l.expiring \in Byte
  BY DEF Layout, Supported
<1>4. Has(1, Header) /\ f[0] = 9
  <2>1. HasNext(0, Header, f[0])
    BY <1>0, <1>1, HeaderIsSeq, FollowsHas
  <2> QED BY <2>1, HeaderIsSeq DEF HasNext
<1>5. ASSUME NEW m \in 1..n
      PROVE  FieldAt(f[m - 1], f[m], l.fields[m]) /\ f[m - 1] <= f[m]
  <2> PICK a \in Nat : a = f[m - 1]
    BY <1>1, EndsAround
  <2> PICK b \in Nat : b = f[m]
    BY <1>1, EndsAround
  <2> PICK field : field = l.fields[m]
    OBVIOUS
  <2>1. Readable(field.name) /\ Readable(field.value) /\ Follows(l.bytes, a, EncodeField(field), b)
    BY <1>1, <1>2
  <2>2. FieldAt(a, b, field) /\ a <= b
    BY <1>0, <2>1, FieldParts
  <2> QED BY <2>2
<1>6. \A m \in 0..n : f[m] <= f[n]
  <2> TAKE m \in 0..n
  <2>1. \A k \in m..n : f[m] <= f[k]
    BY <1>1, <1>5, Rising
  <2> QED BY <2>1
<1> PICK a \in Nat : a = f[n]
  BY <1>1
<1>7. SizesAt(a, l.end[0], l.size, l.expiring) /\ l.end[0] \in Nat
  BY <1>0, <1>1, <1>3, SizesParts
<1> PICK x \in {1, 2} : x = Len(EncodeLength(l.size))
  BY <1>3, LengthEncoding
<1> PICK y \in {1, 2} : y = Len(EncodeLength(l.expiring))
  BY <1>3, LengthEncoding
<1> PICK b \in Nat : b = l.end[0]
  BY <1>7
<1>8. b + 1 = a + 4 + x + y
  BY <1>7 DEF SizesAt
<1>9. \A m \in 0..n : f[m] + 3 < b
  <2> TAKE m \in 0..n
  <2> PICK c \in Nat : c = f[m]
    BY <1>1
  <2>1. c <= a
    BY <1>6
  <2>2. c + 3 < b
    BY <1>8, <2>1, SizesRise
  <2> QED BY <2>2
<1> QED BY <1>1, <1>2, <1>3, <1>4, <1>5, <1>7, <1>9 DEF FieldEnds

LEMMA EntriesFound ==
  ASSUME image \in Images, NEW l, Layout(l)
  PROVE  EntryEnds(l)
<1>0. ImageOf(image, l)
  BY DEF Layout
<1>1. Size(l) \in 0..l.size /\ l.size \in Byte
  BY DEF Layout, Supported, Size
<1> PICK n \in Nat : n = Size(l)
  <2>1. l.size \in Nat
    BY <1>1 DEF Byte
  <2> QED BY <1>1, <2>1
<1> PICK f : f = l.end
  OBVIOUS
<1>2. /\ f \in [0..n -> Nat]
      /\ \A m \in 1..n : Follows(l.bytes, f[m - 1], EncodeEntry(l.db[m]), f[m])
  BY DEF Layout, Written, Size
<1>3. \A m \in 1..n :
       /\ Readable(l.db[m].key) /\ Readable(l.db[m].value) /\ ReadableExpiry(l.db[m].expiry)
       /\ \A k \in 1..(m - 1) : l.db[k].key # l.db[m].key
  BY DEF Layout, Supported, Size
<1>4. ASSUME NEW m \in 1..n
      PROVE  EntryAt(f[m - 1], f[m], l.db[m]) /\ f[m - 1] <= f[m]
  <2> PICK a \in Nat : a = f[m - 1]
    BY <1>2, EndsAround
  <2> PICK b : b = f[m]
    OBVIOUS
  <2> PICK e : e = l.db[m]
    OBVIOUS
  <2>1. /\ Readable(e.key) /\ Readable(e.value) /\ ReadableExpiry(e.expiry)
        /\ Follows(l.bytes, a, EncodeEntry(e), b)
    BY <1>2, <1>3
  <2>2. EntryAt(a, b, e) /\ b \in Nat /\ a < b
    BY <1>0, <2>1, EntryParts
  <2> QED BY <2>2
<1>5. \A m \in 0..n : \A k \in m..n : f[m] <= f[k]
  <2> TAKE m \in 0..n
  <2> QED BY <1>2, <1>4, Rising
<1> QED BY <1>1, <1>2, <1>3, <1>4, <1>5 DEF EntryEnds

-----------------------------------------------------------------------------
(* The invariant: where the loader is in the file, and what it has loaded  *)

Complete == {n \in 1..Len(image.entries) : image.entries[n].end <= Len(image.bytes)}
PromisesNothing == ~image.whole /\ Complete = {}

Loaded(l, n) ==
  /\ DOMAIN database = {l.db[m].key : m \in 1..n}
  /\ \A m \in 1..n :
       database[l.db[m].key] = [value |-> l.db[m].value, expiry_time |-> Meant(l.db[m].expiry)]

(* Before the entries, all of which the file has: at the header, a field,  *)
(* its name, its value, or one of the numbers of the database.             *)
Opened == pc = "open" /\ file = StreamFrom(1)
AtField(l, m) == pc = "loop" /\ m \in 0..Fields(l) /\ file = StreamFrom(l.fieldEnd[m] + 1)
AtName(l, m) ==
  /\ pc = "switch" /\ indicator = 250 /\ m \in 1..Fields(l)
  /\ file = StreamFrom(l.fieldEnd[m - 1] + 2)
AtValue(l, m) ==
  /\ pc = "attribute" /\ key = l.fields[m].name /\ m \in 1..Fields(l)
  /\ file = StreamFrom(l.fieldEnd[m - 1] + 2 + Len(EncodeString(l.fields[m].name)))
AtIndex(l) == pc = "switch" /\ indicator = 254 /\ file = StreamFrom(l.fieldEnd[Fields(l)] + 2)
AtHash(l) == pc = "index" /\ file = StreamFrom(l.fieldEnd[Fields(l)] + 3)
AtSize(l) == pc = "size" /\ file = StreamFrom(l.fieldEnd[Fields(l)] + 4)
AtExpiring(l) ==
  /\ pc = "expirySize" /\ tableSize = l.size
  /\ file = StreamFrom(l.fieldEnd[Fields(l)] + 4 + Len(EncodeLength(l.size)))
AtStart(l) ==
  \/ Opened
  \/ \E m : AtField(l, m) \/ AtName(l, m) \/ AtValue(l, m)
  \/ AtIndex(l) \/ AtHash(l) \/ AtSize(l) \/ AtExpiring(l)
InPrelude(l) == l.end[0] <= Len(image.bytes) /\ DOMAIN database = {} /\ AtStart(l)

(* In the table, with the entries so far loaded; or stopped at an entry of *)
(* another type.                                                           *)
AtEntry(l, n) ==
  /\ pc = "table" /\ tableSize = l.size /\ n \in 0..Size(l) /\ i = n
  /\ file = StreamFrom(l.end[n] + 1) /\ Loaded(l, n)
InEntry(l, n) ==
  /\ tableSize = l.size /\ n \in 1..Size(l) /\ i = n - 1
  /\ time = Meant(l.db[n].expiry) /\ Loaded(l, n - 1)
KeyAt(l, n) == l.end[n - 1] + Len(EncodeExpiry(l.db[n].expiry)) + 2
AtKey(l, n) == pc = "key" /\ InEntry(l, n) /\ file = StreamFrom(KeyAt(l, n))
AtEntryValue(l, n) ==
  /\ pc = "value" /\ InEntry(l, n) /\ key = l.db[n].key
  /\ file = StreamFrom(KeyAt(l, n) + Len(EncodeString(l.db[n].key)))
Stopped(l) == pc = "done" /\ Loaded(l, Size(l)) /\ ~image.whole
InTable(l) == Stopped(l) \/ \E n : AtEntry(l, n) \/ AtKey(l, n) \/ AtEntryValue(l, n)

(* After the entries: the checksum, read as indicators.                    *)
No251 == \A k \in file.pos..Len(image.bytes) : image.bytes[k] # 251
TailPcs == {"loop", "switch", "attribute", "index", "size", "expirySize", "table", "done"}
InTail(l) ==
  /\ Loaded(l, Size(l)) /\ pc \in TailPcs
  /\ file.good =>
       file.pos > l.end[Size(l)] /\ pc \in {"loop", "switch", "attribute", "index", "done"}
  /\ file.good /\ pc = "switch" /\ indicator = 254 => No251
  /\ file.good /\ pc = "index" => nextByte # 251 /\ No251
  /\ pc = "size" => nextByte = 251
  /\ pc \in {"expirySize", "table"} => tableSize = 0

(* After the end of a file that was cut within the entries.                *)
Safe == \A n \in Complete : Holds(image.entries[n])
OtherKey(k) == \A n \in Complete : k # image.entries[n].key
Broken ==
  /\ ~file.good /\ ~image.whole /\ Safe
  /\ pc \in {"table", "key", "value", "loop", "done"}
  /\ pc = "value" => OtherKey(key)

FormatInv ==
  \/ PromisesNothing
  \/ \E l : Layout(l) /\ (InPrelude(l) \/ InTable(l) \/ InTail(l) \/ Broken)

-----------------------------------------------------------------------------
(* Whose turn it is                                                        *)

LEMMA Turns ==
  ASSUME Next
  PROVE  /\ pc = "open" => \E junk \in Junk : ReadHeader(junk)
         /\ pc = "loop" => EndOfFile \/ \E junk \in Junk : ReadIndicator(junk)
         /\ pc = "switch" =>
              SkipIndicator \/ \E junk \in Junk : ReadAttribute(junk) \/ ReadIndex(junk)
         /\ pc = "attribute" => \E junk \in Junk : ReadMetaValue(junk)
         /\ pc = "index" => ReadHashIndicator
         /\ pc = "size" => \E junk \in Junk : ReadTableSize(junk)
         /\ pc = "expirySize" => \E junk \in Junk : ReadExpiryTableSize(junk)
         /\ pc = "table" => EndOfTable \/ \E junk \in Junk : ReadEntryType(junk)
         /\ pc = "key" => \E junk \in Junk : ReadKey(junk)
         /\ pc = "value" => \E junk \in Junk : ReadValue(junk)
         /\ pc # "done"
<1>1. \A junk \in Junk :
        /\ ReadHeader(junk) => pc = "open"
        /\ ReadIndicator(junk) => pc = "loop"
        /\ ReadAttribute(junk) => pc = "switch"
        /\ ReadMetaValue(junk) => pc = "attribute"
        /\ ReadIndex(junk) => pc = "switch"
        /\ ReadTableSize(junk) => pc = "size"
        /\ ReadExpiryTableSize(junk) => pc = "expirySize"
        /\ ReadEntryType(junk) => pc = "table"
        /\ ReadKey(junk) => pc = "key"
        /\ ReadValue(junk) => pc = "value"
  BY Zenon DEF ReadHeader, ReadIndicator, ReadAttribute, ReadMetaValue, ReadIndex,
     ReadTableSize, ReadExpiryTableSize, ReadEntryType, ReadKey, ReadValue
<1>2. /\ EndOfFile => pc = "loop"
      /\ SkipIndicator => pc = "switch"
      /\ ReadHashIndicator => pc = "index"
      /\ EndOfTable => pc = "table"
  BY Zenon DEF EndOfFile, SkipIndicator, ReadHashIndicator, EndOfTable
<1> QED BY <1>1, <1>2 DEF Next

-----------------------------------------------------------------------------
(* Before the entries                                                      *)

LEMMA GoodByte ==
  ASSUME image \in Images, NEW p \in Nat, p > 0, p <= Len(image.bytes), NEW b \in Byte,
         Has(p, <<b>>), NEW old \in Byte
  PROVE  /\ Fetch(StreamFrom(p), 1, old).val[1] = b
         /\ Fetch(StreamFrom(p), 1, old).file = StreamFrom(p + 1)
<1>1. p \in 1..(Len(image.bytes) + 1)
  BY ImagesAssumption
<1>2. ByteGives(Fetch(StreamFrom(p), 1, old), p, b, old)
  BY <1>1, FetchByte
<1> QED BY <1>2, Zenon DEF ByteGives

LEMMA GoodString ==
  ASSUME image \in Images, NEW p \in Nat, p > 0, NEW s, Readable(s), Has(p, EncodeString(s)),
         NEW q, q = p + Len(EncodeString(s)), q <= Len(image.bytes) + 1, NEW junk \in Byte
  PROVE  ReadLengthPrefixedString(StreamFrom(p), junk) = [str |-> s, file |-> StreamFrom(q)]
<1> PICK n \in Nat : n = Len(EncodeString(s))
  BY StringEncoding
<1>0. q = p + n
  OBVIOUS
<1>1. p \in 1..(Len(image.bytes) + 1)
  BY <1>0, ImagesAssumption
<1>2. StringGives(ReadLengthPrefixedString(StreamFrom(p), junk), s, p + Len(EncodeString(s)))
  BY <1>1, StringHas
<1>3. p + Len(EncodeString(s)) = q /\ Reaches(q)
  BY DEF Reaches
<1> QED BY <1>2, <1>3, Zenon DEF StringGives

(* An encoded length of less than 256.                                     *)
LengthGives(r, s, q) == r.size[1] = s /\ r.file = StreamFrom(q)

LEMMA GoodLength ==
  ASSUME image \in Images, NEW p \in Nat, p > 0, NEW s \in Byte, Has(p, EncodeLength(s)),
         NEW n \in Nat, n = Len(EncodeLength(s)), p + n <= Len(image.bytes) + 1,
         NEW old \in Byte, NEW junk \in Byte,
         NEW b, b = Fetch(StreamFrom(p), 1, old)
  PROVE  LengthGives(ReadSizeEncoded(b.file, b.val[1], junk), s, p + n)
<1>0. Len(image.bytes) \in Nat /\ s \in 0..255
  BY ImagesAssumption DEF Byte
<1> PICK e : e = EncodeLength(s)
  OBVIOUS
<1>3. e = IF s < 64 THEN <<s>> ELSE <<64, s>>
  BY LengthEncoding
<1>4. Len(<<s>>) = 1 /\ Len(<<64, s>>) = 2
  OBVIOUS
<1>5. Has(p, e) /\ n = Len(e)
  OBVIOUS
<1>1. CASE s < 64
  <2>1. e = <<s>> /\ n = 1
    BY <1>1, <1>3, <1>4, <1>5, Zenon
  <2>5. p <= Len(image.bytes) /\ Has(p, <<s>>)
    BY <1>0, <1>5, <2>1
  <2>2. b.val[1] = s /\ b.file = StreamFrom(p + 1)
    BY <2>5, GoodByte, Zenon
  <2>3. s \div 64 = 0
    BY <1>0, <1>1
  <2>4. ReadSizeEncoded(b.file, s, junk) = [size |-> <<s>>, file |-> b.file]
    BY <2>3 DEF ReadSizeEncoded
  <2> QED BY <2>1, <2>2, <2>4 DEF LengthGives
<1>2. CASE ~(s < 64)
  <2>0. 64 \in Byte
    BY DEF Byte
  <2>1. e = <<64, s>> /\ n = 2
    BY <1>2, <1>3, <1>4, <1>5, Zenon
  <2>2. <<64, s>> = <<64>> \o <<s>>
    OBVIOUS
  <2> PICK t \in Seq(Byte), one \in Nat : t = <<s>> /\ one = Len(t)
    BY ByteIsSeq, <1>4
  <2>10. Has(p, <<64>> \o t)
    BY <1>5, <2>1, <2>2, Zenon
  <2>11. HasFirst(p, 64, t, one)
    BY <2>0, <2>10, HasByte, Zenon
  <2>3. Has(p, <<64>>) /\ Has(p + 1, <<s>>)
    BY <2>11, Zenon DEF HasFirst
  <2>4. p <= Len(image.bytes) /\ p + 1 <= Len(image.bytes) /\ p + 1 \in Nat /\ p + 1 > 0
    BY <1>0, <2>1
  <2>5. b.val[1] = 64 /\ b.file = StreamFrom(p + 1)
    BY <2>0, <2>3, <2>4, GoodByte
  <2> PICK two : two = Fetch(b.file, 1, junk)
    OBVIOUS
  <2>6. two.val[1] = s /\ two.file = StreamFrom(p + 1 + 1)
    BY <2>3, <2>4, <2>5, GoodByte
  <2>7. 64 \div 64 = 1
    OBVIOUS
  <2>8. ReadSizeEncoded(b.file, 64, junk) = [size |-> <<two.val[1], 64>>, file |-> two.file]
    BY <2>7 DEF ReadSizeEncoded
  <2>9. p + 1 + 1 = p + n
    BY <2>1
  <2> QED BY <2>0, <2>5, <2>6, <2>8, <2>9 DEF LengthGives
<1> QED BY <1>1, <1>2

(* The m-th field, from a to b, its name x bytes long and its value y.     *)
FieldHere(l, m, a, b, x, y) ==
  /\ l.fieldEnd[m - 1] = a /\ l.fieldEnd[m] = b
  /\ x = Len(EncodeString(l.fields[m].name)) /\ y = Len(EncodeString(l.fields[m].value))
  /\ Readable(l.fields[m].name) /\ Readable(l.fields[m].value)
  /\ Raw(<<>>) \notin {l.fields[m].name, l.fields[m].value}
  /\ Has(a + 1, <<250>>) /\ Has(a + 2, EncodeString(l.fields[m].name))
  /\ Has(a + 2 + x, EncodeString(l.fields[m].value))
  /\ b + 1 = a + 2 + x + y /\ b < Len(image.bytes)

LEMMA FieldIs ==
  ASSUME image \in Images, NEW l, FieldEnds(l), EntryEnds(l), l.end[0] <= Len(image.bytes),
         NEW m \in 1..Fields(l)
  PROVE  \E a, b, x, y \in Nat : FieldHere(l, m, a, b, x, y)
<1> PICK f : f = l.fieldEnd
  OBVIOUS
<1> PICK n \in Nat : n = Fields(l)
  BY DEF FieldEnds
<1>1. f \in [0..n -> Nat]
  BY DEF FieldEnds
<1> PICK a \in Nat : a = f[m - 1]
  BY <1>1, EndsAround
<1> PICK b \in Nat : b = f[m]
  BY <1>1, EndsAround
<1> PICK field : field = l.fields[m]
  OBVIOUS
<1>2. /\ FieldAt(a, b, field) /\ Readable(field.name) /\ Readable(field.value)
      /\ Raw(<<>>) \notin {field.name, field.value}
  BY DEF FieldEnds
<1> PICK x \in Nat : x = Len(EncodeString(field.name))
  BY <1>2, StringEncoding
<1> PICK y \in Nat : y = Len(EncodeString(field.value))
  BY <1>2, StringEncoding
<1> PICK e : e = l.end[0]
  OBVIOUS
<1>3. e \in Nat
  BY DEF EntryEnds
<1>4. b + 3 < e
  <2>1. m \in 0..n
    BY <1>1, EndsAround
  <2> QED BY <2>1 DEF FieldEnds
<1>5. b < Len(image.bytes)
  <2> PICK len \in Nat : len = Len(image.bytes)
    BY ImagesAssumption
  <2>1. e <= len
    OBVIOUS
  <2> QED BY <1>3, <1>4, <2>1, SMTT(30)
<1>6. FieldHere(l, m, a, b, x, y)
  BY <1>2, <1>5, Zenon DEF FieldHere, FieldAt
<1> QED BY <1>6

LEMMA SizesWithin ==
  ASSUME NEW a \in Nat, NEW x \in {1, 2}, NEW y \in {1, 2}, NEW e \in Nat, NEW len \in Nat,
         e + 1 = a + 4 + x + y, e <= len
  PROVE  a + 4 + x + y <= len + 1 /\ a + 3 <= len
OBVIOUS

LEMMA NameWithin ==
  ASSUME NEW a \in Nat, NEW b \in Nat, NEW x \in Nat, NEW y \in Nat, NEW len \in Nat,
         b + 1 = a + 2 + x + y, b < len
  PROVE  /\ a + 2 > 0 /\ a + 2 + x <= len + 1 /\ a < len
         /\ a + 2 + x > 0 /\ a + 2 + x + y <= len + 1
OBVIOUS

(* The numbers of the database, from a on.                                 *)
SizesHere(l, a, x, y) ==
  /\ l.fieldEnd[Fields(l)] = a
  /\ x = Len(EncodeLength(l.size)) /\ y = Len(EncodeLength(l.expiring))
  /\ Has(a + 1, <<254>>) /\ Has(a + 2, <<0>>) /\ Has(a + 3, <<251>>)
  /\ Has(a + 4, EncodeLength(l.size)) /\ Has(a + 4 + x, EncodeLength(l.expiring))
  /\ l.size \in Byte /\ l.expiring \in Byte
  /\ l.end[0] + 1 = a + 4 + x + y /\ a + 4 + x + y <= Len(image.bytes) + 1
  /\ a + 3 <= Len(image.bytes)

LEMMA SizesIs ==
  ASSUME image \in Images, NEW l, FieldEnds(l), EntryEnds(l), l.end[0] <= Len(image.bytes)
  PROVE  \E a, x, y \in Nat : SizesHere(l, a, x, y)
<1> PICK n \in Nat : n = Fields(l)
  BY DEF FieldEnds
<1> PICK a \in Nat : a = l.fieldEnd[n]
  BY DEF FieldEnds
<1> PICK e : e = l.end[0]
  OBVIOUS
<1>1. SizesAt(a, e, l.size, l.expiring) /\ l.size \in Byte /\ l.expiring \in Byte
  BY DEF FieldEnds
<1> PICK x \in {1, 2} : x = Len(EncodeLength(l.size))
  BY <1>1, LengthEncoding
<1> PICK y \in {1, 2} : y = Len(EncodeLength(l.expiring))
  BY <1>1, LengthEncoding
<1>2. x \in Nat /\ y \in Nat
  OBVIOUS
<1>3. e + 1 = a + 4 + x + y
  BY <1>1, Zenon DEF SizesAt
<1>4. e \in Nat
  BY DEF EntryEnds
<1>5. a + 4 + x + y <= Len(image.bytes) + 1 /\ a + 3 <= Len(image.bytes)
  <2> PICK len \in Nat : len = Len(image.bytes)
    BY ImagesAssumption
  <2> PICK d \in Nat : d = e
    BY <1>4
  <2> QED BY <1>2, <1>3, SizesWithin
<1>6. SizesHere(l, a, x, y)
  BY <1>1, <1>3, <1>5, Zenon DEF SizesHere, SizesAt
<1> QED BY <1>2, <1>6

Ready(l) == image \in Images /\ FieldEnds(l) /\ EntryEnds(l) /\ ImageOf(image, l)

LEMMA Begins ==
  ASSUME NEW l, Ready(l)
  PROVE  /\ image \in Images /\ FieldEnds(l) /\ EntryEnds(l) /\ Fields(l) \in Nat
         /\ Len(image.bytes) \in Nat /\ l.fieldEnd[0] = 9 /\ l.end[0] \in Nat
         /\ l.fieldEnd[0] + 3 < l.end[0]
<1>1. image \in Images /\ FieldEnds(l) /\ EntryEnds(l)
  BY Zenon DEF Ready
<1>2. Fields(l) \in Nat /\ l.fieldEnd[0] = 9 /\ \A m \in 0..Fields(l) : l.fieldEnd[m] + 3 < l.end[0]
  BY <1>1, Zenon DEF FieldEnds
<1>3. l.end \in [0..Size(l) -> Nat] /\ Size(l) \in 0..l.size /\ l.size \in Byte
  BY <1>1, Zenon DEF EntryEnds
<1>4. 0 \in 0..Fields(l)
  BY <1>2
<1>5. 0 \in 0..Size(l)
  BY <1>3 DEF Byte
<1>6. l.fieldEnd[0] + 3 < l.end[0]
  BY <1>2, <1>4, Zenon
<1> QED BY <1>1, <1>2, <1>3, <1>5, <1>6, ImagesAssumption

LEMMA StillPrelude ==
  ASSUME NEW l, InPrelude(l), image' = image, database' = database, AtStart(l)'
  PROVE  InPrelude(l)'
BY Zenon DEF InPrelude

LEMMA Starts ==
  ASSUME NEW s \in Seq(Byte), NEW t \in Seq(Byte), NEW n \in Nat, n = Len(s)
  PROVE  SubSeq(s \o t, 1, n) = s
OBVIOUS

LEMMA HeaderStarts == SubSeq(Header, 1, 5) = Magic
<1>1. <<82, 69, 68, 73, 83>> \in Seq(Byte) /\ Len(<<82, 69, 68, 73, 83>>) = 5
  BY DEF Byte
<1>2. <<48, 48, 49, 49>> \in Seq(Byte)
  BY DEF Byte
<1>3. PICK s \in Seq(Byte) : s = <<82, 69, 68, 73, 83>>
  BY <1>1
<1>4. PICK t \in Seq(Byte) : t = <<48, 48, 49, 49>>
  BY <1>2
<1>5. PICK n \in Nat : n = 5 /\ n = Len(s)
  BY <1>1, <1>3
<1>6. SubSeq(s \o t, 1, n) = s
  BY <1>5, Starts
<1> QED BY <1>3, <1>4, <1>5, <1>6, Zenon DEF Header, Magic

LEMMA HeaderIn ==
  ASSUME NEW l, Ready(l), InPrelude(l), Opened, NEW junk \in Byte, ReadHeader(junk)
  PROVE  InPrelude(l)'
<1> PICK r : r = Fetch(StreamFrom(1), 9, junk)
  OBVIOUS
<1>1. Reaches(1 + 9)
  <2>1. l.fieldEnd[0] = 9 /\ l.fieldEnd[0] + 3 < l.end[0] /\ l.end[0] \in Nat
    BY Begins, Zenon
  <2>2. l.end[0] <= Len(image.bytes) /\ Len(image.bytes) \in Nat
    BY Begins, Zenon DEF InPrelude
  <2> QED BY <2>1, <2>2 DEF Reaches
<1> PICK s \in Seq(Byte) : s = Header /\ Len(s) = 9
  BY HeaderIsSeq
<1>2. FetchGives(r, 1, 9, s, junk)
  <2>1. Has(1, s) /\ image \in Images
    BY DEF Ready, FieldEnds
  <2>2. 1 \in 1..(Len(image.bytes) + 1)
    BY <2>1, ImagesAssumption
  <2> QED BY <2>1, <2>2, FetchHas
<1>3. r.val = Header /\ r.file = StreamFrom(10)
  <2>1. r = [val |-> s, file |-> StreamFrom(1 + 9)]
    BY <1>1, <1>2 DEF FetchGives
  <2> QED BY <2>1
<1>4. SubSeq(Header, 1, 5) = Magic
  BY HeaderStarts
<1>5. image.exists
  BY DEF Ready, ImageOf
<1>6. file = StreamFrom(1)
  BY DEF Opened
<1>7. pc' = "loop" /\ file' = StreamFrom(10) /\ image' = image /\ database' = database
  BY <1>3, <1>4, <1>5, <1>6, Zenon DEF ReadHeader
<1>8. 0 \in 0..Fields(l) /\ l.fieldEnd[0] + 1 = 10
  <2>1. Fields(l) \in Nat /\ l.fieldEnd[0] = 9
    BY Begins, Zenon
  <2> QED BY <2>1
<1>9. AtField(l, 0)'
  BY <1>7, <1>8, Zenon DEF AtField
<1> QED BY <1>7, <1>9, StillPrelude DEF AtStart

LEMMA FieldIn ==
  ASSUME NEW l, Ready(l), InPrelude(l), NEW m, AtField(l, m), NEW junk \in Byte, ReadIndicator(junk)
  PROVE  InPrelude(l)'
<1>0. /\ l.end[0] <= Len(image.bytes) /\ image \in Images /\ FieldEnds(l) /\ EntryEnds(l)
      /\ Len(image.bytes) \in Nat /\ m \in 0..Fields(l) /\ Fields(l) \in Nat
  BY Begins, Zenon DEF InPrelude, AtField
<1> PICK a \in Nat : a = l.fieldEnd[m]
  BY <1>0 DEF FieldEnds
<1>1. file = StreamFrom(a + 1)
  BY DEF AtField
<1> PICK r : r = Fetch(StreamFrom(a + 1), 1, junk)
  OBVIOUS
<1>2. /\ pc' = "switch" /\ image' = image /\ database' = database
      /\ indicator' = r.val[1] /\ file' = r.file
  BY <1>1, Zenon DEF ReadIndicator
<1>3. ASSUME NEW b \in Byte, Has(a + 1, <<b>>), a < Len(image.bytes)
      PROVE  indicator' = b /\ file' = StreamFrom(a + 2)
  <2> PICK p \in Nat : p = a + 1 /\ p > 0 /\ p <= Len(image.bytes) /\ p + 1 = a + 2
    BY <1>0, <1>3
  <2>1. r.val[1] = b /\ r.file = StreamFrom(p + 1)
    BY <1>0, <1>3, GoodByte, Zenon
  <2> QED BY <1>2, <2>1
<1>4. CASE m < Fields(l)
  <2> PICK n \in 1..Fields(l) : n = m + 1
    BY <1>0, <1>4
  <2>0. n - 1 = m
    BY <1>0
  <2> PICK c, b, x, y \in Nat : FieldHere(l, n, c, b, x, y)
    BY <1>0, FieldIs
  <2>1. a = c /\ Has(a + 1, <<250>>) /\ b + 1 = a + 2 + x + y /\ b < Len(image.bytes)
    BY <2>0, Zenon DEF FieldHere
  <2>2. a < Len(image.bytes) /\ 250 \in Byte
    BY <1>0, <2>1 DEF Byte
  <2>3. AtName(l, n)'
    BY <1>2, <1>3, <2>0, <2>1, <2>2, Zenon DEF AtName
  <2> QED BY <1>2, <2>3, StillPrelude DEF AtStart
<1>5. CASE m = Fields(l)
  <2> PICK c, x, y \in Nat : SizesHere(l, c, x, y)
    BY <1>0, SizesIs
  <2>1. a = c /\ Has(a + 1, <<254>>) /\ a + 3 <= Len(image.bytes)
    BY <1>5, Zenon DEF SizesHere
  <2>2. a < Len(image.bytes) /\ 254 \in Byte
    BY <1>0, <2>1 DEF Byte
  <2>3. AtIndex(l)'
    BY <1>2, <1>3, <1>5, <2>1, <2>2, Zenon DEF AtIndex
  <2> QED BY <1>2, <2>3, StillPrelude DEF AtStart
<1> QED BY <1>0, <1>4, <1>5

LEMMA NameIn ==
  ASSUME NEW l, Ready(l), InPrelude(l), NEW m, AtName(l, m), NEW junk \in Byte, ReadAttribute(junk)
  PROVE  InPrelude(l)'
<1>0. /\ l.end[0] <= Len(image.bytes) /\ image \in Images /\ FieldEnds(l) /\ EntryEnds(l)
      /\ Len(image.bytes) \in Nat /\ m \in 1..Fields(l)
  BY Begins, Zenon DEF InPrelude, AtName
<1> PICK a, b, x, y \in Nat : FieldHere(l, m, a, b, x, y)
  BY <1>0, FieldIs
<1> PICK s : s = l.fields[m].name
  OBVIOUS
<1>1. /\ a = l.fieldEnd[m - 1] /\ Readable(s) /\ Has(a + 2, EncodeString(s))
      /\ x = Len(EncodeString(s)) /\ b + 1 = a + 2 + x + y /\ b < Len(image.bytes)
  BY DEF FieldHere
<1>8. PICK p \in Nat : p = a + 2
  OBVIOUS
<1>9. PICK q \in Nat : q = p + x
  BY <1>8
<1>2. p > 0 /\ q <= Len(image.bytes) + 1
  <2> PICK len \in Nat : len = Len(image.bytes)
    BY <1>0
  <2>1. b + 1 = a + 2 + x + y /\ b < len
    BY <1>1, Zenon
  <2> QED BY <1>8, <1>9, <2>1, NameWithin
<1>3. ReadLengthPrefixedString(StreamFrom(p), junk) = [str |-> s, file |-> StreamFrom(q)]
  <2>1. image \in Images /\ Readable(s) /\ Has(p, EncodeString(s)) /\ q = p + Len(EncodeString(s))
    BY <1>0, <1>1, <1>8, <1>9, Zenon
  <2> QED BY <1>2, <1>8, <2>1, GoodString
<1>4. file = StreamFrom(p)
  BY <1>1, <1>8 DEF AtName
<1>5. /\ pc' = "attribute" /\ key' = s /\ file' = StreamFrom(q)
      /\ image' = image /\ database' = database
  BY <1>3, <1>4 DEF ReadAttribute
<1>6. q = l.fieldEnd[m - 1] + 2 + Len(EncodeString(s))
  BY <1>1, <1>8, <1>9, Zenon
<1>7. AtValue(l, m)'
  BY <1>0, <1>5, <1>6, Zenon DEF AtValue
<1> QED BY <1>5, <1>7, StillPrelude DEF AtStart

LEMMA ValueIn ==
  ASSUME NEW l, Ready(l), InPrelude(l), NEW m, AtValue(l, m), NEW junk \in Byte, ReadMetaValue(junk)
  PROVE  InPrelude(l)'
<1>0. /\ l.end[0] <= Len(image.bytes) /\ image \in Images /\ FieldEnds(l) /\ EntryEnds(l)
      /\ Len(image.bytes) \in Nat /\ m \in 1..Fields(l) /\ Fields(l) \in Nat
  BY Begins, Zenon DEF InPrelude, AtValue
<1> PICK a, b, x, y \in Nat : FieldHere(l, m, a, b, x, y)
  BY <1>0, FieldIs
<1> PICK s : s = l.fields[m].value
  OBVIOUS
<1> PICK t : t = l.fields[m].name
  OBVIOUS
<1>1. /\ a = l.fieldEnd[m - 1] /\ b = l.fieldEnd[m]
      /\ Readable(s) /\ Has(a + 2 + x, EncodeString(s))
      /\ x = Len(EncodeString(t)) /\ y = Len(EncodeString(s))
      /\ b + 1 = a + 2 + x + y /\ b < Len(image.bytes) /\ Raw(<<>>) \notin {t, s}
  BY DEF FieldHere
<1>8. PICK p \in Nat : p = a + 2 + x
  OBVIOUS
<1>9. PICK q \in Nat : q = p + y
  BY <1>8
<1>2. p > 0 /\ q <= Len(image.bytes) + 1 /\ q = b + 1
  <2> PICK len \in Nat : len = Len(image.bytes)
    BY <1>0
  <2>1. b + 1 = a + 2 + x + y /\ b < len
    BY <1>1, Zenon
  <2> QED BY <1>8, <1>9, <2>1, NameWithin
<1>3. ReadLengthPrefixedString(StreamFrom(p), junk) = [str |-> s, file |-> StreamFrom(q)]
  <2>1. image \in Images /\ Readable(s) /\ Has(p, EncodeString(s)) /\ q = p + Len(EncodeString(s))
    BY <1>0, <1>1, <1>8, <1>9, Zenon
  <2> QED BY <1>2, <1>8, <2>1, GoodString
<1>4. file = StreamFrom(p) /\ key = t
  BY <1>1, <1>8, Zenon DEF AtValue
<1>5. pc' = "loop" /\ file' = StreamFrom(q) /\ image' = image /\ database' = database
  <2> PICK r : r = ReadLengthPrefixedString(StreamFrom(p), junk)
    OBVIOUS
  <2>1. r.str = s /\ r.file = StreamFrom(q)
    BY <1>3
  <2>2. /\ file' = r.file /\ image' = image /\ database' = database
        /\ pc' = IF Raw(<<>>) \in {t, r.str} THEN "done" ELSE "loop"
    BY <1>4, Zenon DEF ReadMetaValue
  <2>3. Raw(<<>>) \notin {t, r.str}
    BY <1>1, <2>1, Zenon
  <2> QED BY <2>1, <2>2, <2>3, Zenon
<1>6. m \in 0..Fields(l)
  BY <1>0
<1>7. AtField(l, m)'
  BY <1>1, <1>2, <1>5, <1>6, Zenon DEF AtField
<1> QED BY <1>5, <1>7, StillPrelude DEF AtStart

LEMMA IndexIn ==
  ASSUME NEW l, Ready(l), InPrelude(l), AtIndex(l), NEW junk \in Byte, ReadIndex(junk)
  PROVE  InPrelude(l)'
<1>0. /\ l.end[0] <= Len(image.bytes) /\ image \in Images /\ FieldEnds(l) /\ EntryEnds(l)
      /\ Len(image.bytes) \in Nat
  BY Begins, Zenon DEF InPrelude
<1> PICK a, x, y \in Nat : SizesHere(l, a, x, y)
  BY <1>0, SizesIs
<1>1. l.fieldEnd[Fields(l)] = a /\ Has(a + 2, <<0>>) /\ a + 3 <= Len(image.bytes)
  BY Zenon DEF SizesHere
<1>2. PICK p \in Nat : p = a + 2 /\ p > 0 /\ p <= Len(image.bytes) /\ p + 1 = a + 3
  BY <1>0, <1>1
<1> PICK b : b = Fetch(StreamFrom(p), 1, junk)
  OBVIOUS
<1>3. b.val[1] = 0 /\ b.file = StreamFrom(p + 1)
  BY <1>0, <1>1, <1>2, ZeroIsByte, GoodByte
<1>4. ReadSizeEncoded(b.file, 0, junk).file = b.file
  <2>1. 0 \div 64 = 0
    OBVIOUS
  <2>2. ReadSizeEncoded(b.file, 0, junk) = [size |-> <<0>>, file |-> b.file]
    BY <2>1 DEF ReadSizeEncoded
  <2> QED BY <2>2
<1>5. file = StreamFrom(p)
  BY <1>1, <1>2 DEF AtIndex
<1>6. /\ pc' = "index" /\ image' = image /\ database' = database
      /\ file' = ReadSizeEncoded(b.file, b.val[1], junk).file
  BY <1>5, Zenon DEF ReadIndex
<1>7. file' = StreamFrom(a + 3)
  BY <1>2, <1>3, <1>4, <1>6
<1>8. AtHash(l)'
  BY <1>1, <1>6, <1>7, Zenon DEF AtHash
<1> QED BY <1>6, <1>8, StillPrelude DEF AtStart

LEMMA HashIn ==
  ASSUME NEW l, Ready(l), InPrelude(l), AtHash(l), nextByte \in Byte, ReadHashIndicator
  PROVE  InPrelude(l)'
<1>0. /\ l.end[0] <= Len(image.bytes) /\ image \in Images /\ FieldEnds(l) /\ EntryEnds(l)
      /\ Len(image.bytes) \in Nat
  BY Begins, Zenon DEF InPrelude
<1> PICK a, x, y \in Nat : SizesHere(l, a, x, y)
  BY <1>0, SizesIs
<1>1. l.fieldEnd[Fields(l)] = a /\ Has(a + 3, <<251>>) /\ a + 3 <= Len(image.bytes)
  BY Zenon DEF SizesHere
<1>2. PICK p \in Nat : p = a + 3 /\ p > 0 /\ p <= Len(image.bytes) /\ p + 1 = a + 4
  BY <1>0, <1>1
<1> PICK b : b = Fetch(StreamFrom(p), 1, nextByte)
  OBVIOUS
<1>3. b.val[1] = 251 /\ b.file = StreamFrom(p + 1)
  <2>1. 251 \in Byte
    BY DEF Byte
  <2> QED BY <1>0, <1>1, <1>2, <2>1, GoodByte
<1>5. file = StreamFrom(p)
  BY <1>1, <1>2 DEF AtHash
<1>6. pc' = "size" /\ image' = image /\ database' = database /\ file' = b.file
  BY <1>3, <1>5, Zenon DEF ReadHashIndicator
<1>7. file' = StreamFrom(a + 4)
  BY <1>2, <1>3, <1>6
<1>8. AtSize(l)'
  BY <1>1, <1>6, <1>7, Zenon DEF AtSize
<1> QED BY <1>6, <1>8, StillPrelude DEF AtStart

LEMMA SizeRoom ==
  ASSUME NEW a \in Nat, NEW x \in Nat, NEW y \in Nat, NEW len \in Nat, a + 4 + x + y <= len + 1
  PROVE  a + 4 + x <= len + 1 /\ a + 4 + x > 0 /\ a + 4 > 0
OBVIOUS

LEMMA SizeIn ==
  ASSUME NEW l, Ready(l), InPrelude(l), AtSize(l), nextByte \in Byte,
         NEW junk \in Byte, ReadTableSize(junk)
  PROVE  InPrelude(l)'
<1>0. /\ l.end[0] <= Len(image.bytes) /\ image \in Images /\ FieldEnds(l) /\ EntryEnds(l)
      /\ Len(image.bytes) \in Nat
  BY Begins, Zenon DEF InPrelude
<1> PICK a, x, y \in Nat : SizesHere(l, a, x, y)
  BY <1>0, SizesIs
<1> PICK s : s = l.size
  OBVIOUS
<1>1. /\ l.fieldEnd[Fields(l)] = a /\ Has(a + 4, EncodeLength(s)) /\ x = Len(EncodeLength(s))
      /\ a + 4 + x + y <= Len(image.bytes) + 1 /\ s \in Byte
  BY Zenon DEF SizesHere
<1>2. PICK p \in Nat : p = a + 4
  OBVIOUS
<1>3. p > 0 /\ p + x <= Len(image.bytes) + 1
  BY <1>0, <1>1, <1>2, SizeRoom
<1> PICK b : b = Fetch(StreamFrom(p), 1, nextByte)
  OBVIOUS
<1> PICK r : r = ReadSizeEncoded(b.file, b.val[1], junk)
  OBVIOUS
<1>4. r.size[1] = s /\ r.file = StreamFrom(p + x)
  <2>1. Has(p, EncodeLength(s))
    BY <1>1, <1>2
  <2>2. s \in Byte /\ image \in Images
    BY <1>0, <1>1, Zenon
  <2>3. x = Len(EncodeLength(s)) /\ p + x <= Len(image.bytes) + 1
    BY <1>1, <1>3, Zenon
  <2>4. LengthGives(r, s, p + x)
    BY <1>3, <2>1, <2>2, <2>3, GoodLength, Zenon
  <2> QED BY <2>4, Zenon DEF LengthGives
<1>5. file = StreamFrom(p)
  BY <1>1, <1>2 DEF AtSize
<1>6. /\ pc' = "expirySize" /\ image' = image /\ database' = database
      /\ file' = r.file /\ tableSize' = r.size[1]
  BY <1>5, Zenon DEF ReadTableSize
<1>7. AtExpiring(l)'
  <2>1. file' = StreamFrom(l.fieldEnd[Fields(l)] + 4 + Len(EncodeLength(l.size)))
    BY <1>1, <1>2, <1>4, <1>6, Zenon
  <2> QED BY <1>4, <1>6, <2>1, Zenon DEF AtExpiring
<1> QED BY <1>6, <1>7, StillPrelude DEF AtStart

LEMMA NoneLoaded ==
  ASSUME NEW l, DOMAIN database = {}
  PROVE  Loaded(l, 0)
<1>1. {l.db[m].key : m \in 1..0} = {} /\ 1..0 = {}
  OBVIOUS
<1> QED BY <1>1, Zenon DEF Loaded

LEMMA ExpiringIn ==
  ASSUME NEW l, Ready(l), InPrelude(l), AtExpiring(l), nextByte \in Byte,
         NEW junk \in Byte, ReadExpiryTableSize(junk)
  PROVE  InTable(l)'
<1>0. /\ l.end[0] <= Len(image.bytes) /\ image \in Images /\ FieldEnds(l) /\ EntryEnds(l)
      /\ Len(image.bytes) \in Nat
  BY Begins, Zenon DEF InPrelude
<1> PICK a, x, y \in Nat : SizesHere(l, a, x, y)
  BY <1>0, SizesIs
<1> PICK s : s = l.expiring
  OBVIOUS
<1>1. /\ l.fieldEnd[Fields(l)] = a /\ Has(a + 4 + x, EncodeLength(s))
      /\ x = Len(EncodeLength(l.size)) /\ y = Len(EncodeLength(s))
      /\ a + 4 + x + y <= Len(image.bytes) + 1 /\ s \in Byte /\ l.end[0] + 1 = a + 4 + x + y
  BY Zenon DEF SizesHere
<1>2. PICK p \in Nat : p = a + 4 + x
  OBVIOUS
<1>3. p > 0 /\ p + y <= Len(image.bytes) + 1
  BY <1>0, <1>1, <1>2, SizeRoom
<1> PICK b : b = Fetch(StreamFrom(p), 1, nextByte)
  OBVIOUS
<1> PICK r : r = ReadSizeEncoded(b.file, b.val[1], junk)
  OBVIOUS
<1>4. r.file = StreamFrom(p + y)
  <2>1. Has(p, EncodeLength(s))
    BY <1>1, <1>2
  <2>2. s \in Byte /\ image \in Images
    BY <1>0, <1>1, Zenon
  <2>3. y = Len(EncodeLength(s)) /\ p + y <= Len(image.bytes) + 1
    BY <1>1, <1>3, Zenon
  <2>4. LengthGives(r, s, p + y)
    BY <1>3, <2>1, <2>2, <2>3, GoodLength, Zenon
  <2> QED BY <2>4, Zenon DEF LengthGives
<1>5. file = StreamFrom(p)
  BY <1>1, <1>2, Zenon DEF AtExpiring
<1>6. /\ pc' = "table" /\ image' = image /\ database' = database
      /\ file' = r.file /\ tableSize' = tableSize /\ i' = 0
  BY <1>5, Zenon DEF ReadExpiryTableSize
<1>7. file' = StreamFrom(l.end[0] + 1)
  BY <1>1, <1>2, <1>4, <1>6, Zenon
<1>8. Loaded(l, 0)'
  <2>1. Loaded(l, 0)
    BY NoneLoaded DEF InPrelude
  <2> QED BY <1>6, <2>1, Zenon DEF Loaded
<1>9. 0 \in 0..Size(l)
  <2>1. Size(l) \in 0..l.size /\ l.size \in Byte
    BY <1>0, Zenon DEF EntryEnds
  <2> QED BY <2>1 DEF Byte
<1>10. AtEntry(l, 0)'
  BY <1>6, <1>7, <1>8, <1>9, Zenon DEF AtEntry, AtExpiring
<1> QED BY <1>10, Zenon DEF InTable

LEMMA PreludeStep ==
  ASSUME RdbInv, NEW l, Ready(l), InPrelude(l), Next
  PROVE  InPrelude(l)' \/ InTable(l)'
<1>0. nextByte \in Byte /\ Junk \subseteq Byte
  BY JunkAssumption DEF RdbInv, RdbTypeOK
<1>1. CASE Opened
  <2> PICK junk \in Junk : ReadHeader(junk)
    BY <1>1, Turns DEF Opened
  <2> QED BY <1>0, <1>1, HeaderIn
<1>2. ASSUME NEW m, AtField(l, m)
      PROVE  InPrelude(l)'
  <2>1. file.good /\ pc = "loop"
    BY <1>2 DEF AtField, StreamFrom
  <2> PICK junk \in Junk : ReadIndicator(junk)
    BY <2>1, Turns DEF EndOfFile
  <2> QED BY <1>0, <1>2, FieldIn
<1>3. ASSUME NEW m, AtName(l, m)
      PROVE  InPrelude(l)'
  <2>1. indicator = 250 /\ pc = "switch"
    BY <1>3 DEF AtName
  <2> PICK junk \in Junk : ReadAttribute(junk)
    BY <2>1, Turns DEF SkipIndicator, ReadIndex
  <2> QED BY <1>0, <1>3, NameIn
<1>4. ASSUME NEW m, AtValue(l, m)
      PROVE  InPrelude(l)'
  <2>1. pc = "attribute"
    BY <1>4 DEF AtValue
  <2> PICK junk \in Junk : ReadMetaValue(junk)
    BY <2>1, Turns
  <2> QED BY <1>0, <1>4, ValueIn
<1>5. CASE AtIndex(l)
  <2>1. indicator = 254 /\ pc = "switch"
    BY <1>5 DEF AtIndex
  <2> PICK junk \in Junk : ReadIndex(junk)
    BY <2>1, Turns DEF SkipIndicator, ReadAttribute
  <2> QED BY <1>0, <1>5, IndexIn
<1>6. CASE AtHash(l)
  <2>1. ReadHashIndicator
    BY <1>6, Turns DEF AtHash
  <2> QED BY <1>0, <1>6, <2>1, HashIn
<1>7. CASE AtSize(l)
  <2> PICK junk \in Junk : ReadTableSize(junk)
    BY <1>7, Turns DEF AtSize
  <2> QED BY <1>0, <1>7, SizeIn
<1>8. CASE AtExpiring(l)
  <2> PICK junk \in Junk : ReadExpiryTableSize(junk)
    BY <1>8, Turns DEF AtExpiring
  <2> QED BY <1>0, <1>8, ExpiringIn
<1> QED BY <1>1, <1>2, <1>3, <1>4, <1>5, <1>6, <1>7, <1>8, Zenon DEF InPrelude, AtStart

-----------------------------------------------------------------------------
(* The entries                                                             *)

(* The n-th entry, from a to b, with the lengths of its three parts.       *)
EntryHere(l, n, a, b, x, k, v) ==
  /\ l.end[n - 1] = a /\ l.end[n] = b
  /\ x = Len(EncodeExpiry(l.db[n].expiry))
  /\ k = Len(EncodeString(l.db[n].key)) /\ v = Len(EncodeString(l.db[n].value))
  /\ Readable(l.db[n].key) /\ Readable(l.db[n].value) /\ ReadableExpiry(l.db[n].expiry)
  /\ Has(a + 1, EncodeExpiry(l.db[n].expiry)) /\ Has(a + 1 + x, <<0>>)
  /\ Has(a + x + 2, EncodeString(l.db[n].key))
  /\ Has(a + x + 2 + k, EncodeString(l.db[n].value))
  /\ b + 1 = a + x + 2 + k + v

LEMMA EntryIs ==
  ASSUME image \in Images, NEW l, EntryEnds(l), NEW n \in 1..Size(l)
  PROVE  \E a, b, x, k, v \in Nat : EntryHere(l, n, a, b, x, k, v)
<1> PICK f : f = l.end
  OBVIOUS
<1> PICK s \in Nat : s = Size(l)
  <2>1. Size(l) \in 0..l.size /\ l.size \in Byte
    BY DEF EntryEnds
  <2> QED BY <2>1 DEF Byte
<1>1. f \in [0..s -> Nat]
  BY DEF EntryEnds
<1> PICK a \in Nat : a = f[n - 1]
  BY <1>1, EndsAround
<1> PICK b \in Nat : b = f[n]
  BY <1>1, EndsAround
<1> PICK e : e = l.db[n]
  OBVIOUS
<1>2. EntryAt(a, b, e) /\ Readable(e.key) /\ Readable(e.value) /\ ReadableExpiry(e.expiry)
  BY DEF EntryEnds
<1> PICK x \in Nat : x = Len(EncodeExpiry(e.expiry))
  BY <1>2, ExpirySequence
<1> PICK k \in Nat : k = Len(EncodeString(e.key))
  BY <1>2, StringEncoding
<1> PICK v \in Nat : v = Len(EncodeString(e.value))
  BY <1>2, StringEncoding
<1>3. EntryHere(l, n, a, b, x, k, v)
  BY <1>2, Zenon DEF EntryHere, EntryAt
<1> QED BY <1>3

LEMMA EntriesAre ==
  ASSUME NEW l, Ready(l)
  PROVE  /\ Len(image.entries) = Size(l) /\ Size(l) \in Nat
         /\ \A n \in 1..Size(l) :
              /\ image.entries[n].key = l.db[n].key /\ image.entries[n].value = l.db[n].value
              /\ image.entries[n].expiry_time = Meant(l.db[n].expiry)
              /\ image.entries[n].end = l.end[n]
         /\ ~image.whole => \A n \in 1..Size(l) : Plain(l.db[n].key)
<1>1. Len(image.entries) = Size(l)
  BY DEF Ready, ImageOf, Size
<1>2. Size(l) \in Nat
  BY <1>1, ImagesAssumption DEF Ready
<1>3. \A n \in 1..Size(l) :
        image.entries[n] = [key |-> l.db[n].key, value |-> l.db[n].value,
                            expiry_time |-> Meant(l.db[n].expiry), end |-> l.end[n]]
  BY DEF Ready, ImageOf, Size
<1>4. ~image.whole => \A n \in 1..Size(l) : Plain(l.db[n].key)
  BY Zenon DEF Ready, ImageOf, Size
<1>5. \A n \in 1..Size(l) :
        /\ image.entries[n].key = l.db[n].key /\ image.entries[n].value = l.db[n].value
        /\ image.entries[n].expiry_time = Meant(l.db[n].expiry)
        /\ image.entries[n].end = l.end[n]
  <2> TAKE n \in 1..Size(l)
  <2> PICK e : e = image.entries[n]
    OBVIOUS
  <2> PICK d : d = l.db[n]
    OBVIOUS
  <2> PICK m : m = Meant(d.expiry)
    OBVIOUS
  <2>1. e = [key |-> d.key, value |-> d.value, expiry_time |-> m, end |-> l.end[n]]
    BY <1>3, Zenon
  <2>2. e.key = d.key /\ e.value = d.value /\ e.expiry_time = m /\ e.end = l.end[n]
    BY <2>1
  <2> QED BY <2>2
<1> QED BY <1>1, <1>2, <1>4, <1>5, Zenon

LEMMA LoadedHolds ==
  ASSUME NEW l, Ready(l), NEW n \in 0..Size(l), Loaded(l, n), NEW m \in 1..n
  PROVE  Holds(image.entries[m])
<1>1. m \in 1..Size(l)
  BY EntriesAre
<1> PICK e : e = image.entries[m]
  OBVIOUS
<1>2. /\ e.key = l.db[m].key /\ e.value = l.db[m].value
      /\ e.expiry_time = Meant(l.db[m].expiry)
  BY <1>1, EntriesAre, Zenon
<1>3. /\ l.db[m].key \in DOMAIN database
      /\ database[l.db[m].key] = [value |-> l.db[m].value, expiry_time |-> Meant(l.db[m].expiry)]
  BY DEF Loaded
<1> QED BY <1>2, <1>3, Zenon DEF Holds

LEMMA SizesSequence ==
  ASSUME NEW m \in Byte, NEW n \in Byte
  PROVE  EncodeSizes(m, n) \in Seq(Byte)
<1> PICK s \in Seq(Byte) : s = <<254, 0, 251>>
  <2>1. 254 \in Byte /\ 0 \in Byte /\ 251 \in Byte
    BY DEF Byte
  <2>2. <<254, 0, 251>> \in Seq(Byte)
    BY <2>1
  <2> QED BY <2>2
<1> PICK t \in Seq(Byte) : t = EncodeLength(m)
  BY LengthEncoding
<1> PICK u \in Seq(Byte) : u = EncodeLength(n)
  BY LengthEncoding
<1>1. s \o t \o u \in Seq(Byte)
  OBVIOUS
<1> QED BY <1>1, Zenon DEF EncodeSizes

LEMMA EntrySequence ==
  ASSUME NEW e, Readable(e.key), Readable(e.value), ReadableExpiry(e.expiry)
  PROVE  EncodeEntry(e) \in Seq(Byte)
<1> PICK s \in Seq(Byte) : s = EncodeExpiry(e.expiry)
  BY ExpirySequence
<1> PICK t \in Seq(Byte) : t = <<0>>
  BY ByteIsSeq, ZeroIsByte
<1> PICK u \in Seq(Byte) : u = EncodeString(e.key)
  BY StringEncoding
<1> PICK v \in Seq(Byte) : v = EncodeString(e.value)
  BY StringEncoding
<1>1. s \o t \o u \o v \in Seq(Byte)
  OBVIOUS
<1> QED BY <1>1, Zenon DEF EncodeEntry

LEMMA WholeEnds ==
  ASSUME NEW l, Layout(l), Ready(l), image.whole, NEW n \in 0..Size(l)
  PROVE  l.end[n] <= Len(image.bytes)
<1>1. Len(image.bytes) = Len(l.bytes) /\ image \in Images
  BY DEF Ready, ImageOf
<1>2. Len(l.bytes) \in Nat
  BY <1>1, ImagesAssumption
<1>3. l.end \in [0..Size(l) -> Nat] /\ Size(l) \in Nat
  BY EntriesAre DEF Ready, EntryEnds
<1>4. PICK len \in Nat : len = Len(image.bytes) /\ len = Len(l.bytes)
  BY <1>1, <1>2
<1>7. PICK q \in Nat : q = l.end[n]
  BY <1>3
<1>5. CASE n = 0
  <2>1. Follows(l.bytes, l.fieldEnd[Fields(l)], EncodeSizes(l.size, l.expiring), q)
    BY <1>5, <1>7 DEF Layout, Written, Fields
  <2> PICK p \in Nat : p = l.fieldEnd[Fields(l)]
    <3>1. l.fieldEnd \in [0..Fields(l) -> Nat] /\ Fields(l) \in Nat
      BY DEF Ready, FieldEnds
    <3> QED BY <3>1
  <2> PICK s : s = EncodeSizes(l.size, l.expiring)
    OBVIOUS
  <2>2. q = p + Len(s) /\ p + 1 + Len(s) <= Len(l.bytes) + 1
    BY <2>1, Zenon DEF Follows, At
  <2>3. s \in Seq(Byte)
    <3>1. l.size \in Byte /\ l.expiring \in Byte
      BY DEF Ready, FieldEnds
    <3> QED BY <3>1, SizesSequence
  <2>4. PICK c \in Nat : c = Len(s)
    BY <2>3
  <2>5. q = p + c /\ p + 1 + c <= len + 1
    BY <1>4, <2>2, <2>4, Zenon
  <2>6. q <= len
    BY <2>5
  <2> QED BY <1>4, <1>7, <2>6, Zenon
<1>6. CASE n # 0
  <2>0. n \in 1..Size(l)
    BY <1>3, <1>6
  <2>1. Follows(l.bytes, l.end[n - 1], EncodeEntry(l.db[n]), q)
    BY <1>7, <2>0 DEF Layout, Written, Size
  <2> PICK p \in Nat : p = l.end[n - 1]
    BY <1>3, <2>0, EndsAround
  <2> PICK s : s = EncodeEntry(l.db[n])
    OBVIOUS
  <2>2. q = p + Len(s) /\ p + 1 + Len(s) <= Len(l.bytes) + 1
    BY <2>1, Zenon DEF Follows, At
  <2>3. s \in Seq(Byte)
    <3>1. Readable(l.db[n].key) /\ Readable(l.db[n].value) /\ ReadableExpiry(l.db[n].expiry)
      BY <2>0 DEF Ready, EntryEnds
    <3> QED BY <3>1, EntrySequence
  <2>4. PICK c \in Nat : c = Len(s)
    BY <2>3
  <2>5. q = p + c /\ p + 1 + c <= len + 1
    BY <1>4, <2>2, <2>4, Zenon
  <2>6. q <= len
    BY <2>5
  <2> QED BY <1>4, <1>7, <2>6, Zenon
<1> QED BY <1>5, <1>6

(* The three reads of ReadEntryType.                                       *)
ExpiryRead(b, junk) == Fetch(b.file, ExpiryWidth(b.val[1]), junk)
TypeRead(b, junk, old) ==
  IF b.val[1] \in {252, 253} THEN Fetch(ExpiryRead(b, junk).file, 1, old) ELSE b

LEMMA WidthIsNat ==
  ASSUME NEW op
  PROVE  ExpiryWidth(op) \in Nat /\ (op \notin {252, 253} => ExpiryWidth(op) = 0)
BY DEF ExpiryWidth

LEMMA TypeFails ==
  ASSUME NEW b, ~b.file.good, NEW junk, NEW old
  PROVE  ~TypeRead(b, junk, old).file.good
<1> PICK w \in Nat : w = ExpiryWidth(b.val[1])
  BY WidthIsNat
<1>1. ~ExpiryRead(b, junk).file.good
  BY FetchFails DEF ExpiryRead
<1> PICK n \in Nat : n = 1
  OBVIOUS
<1>2. ~Fetch(ExpiryRead(b, junk).file, n, old).file.good
  BY <1>1, FetchFails, Zenon
<1> QED BY <1>2 DEF TypeRead

(* What they give where an entry should follow.                            *)
TypeGives(b, r, junk, p, q, x) ==
  IF q <= Len(image.bytes) + 1
  THEN /\ r.val[1] = 0 /\ r.file = StreamFrom(q)
       /\ ExpiryTime(b.val[1], ExpiryRead(b, junk).val) = Meant(x)
  ELSE ~r.file.good

LEMMA NoExpiryHas ==
  ASSUME image \in Images, NEW p \in 1..(Len(image.bytes) + 1), Has(p, << 0 >>),
         NEW old \in Byte, NEW junk \in Byte, NEW vt \in Byte, NEW q, q = p + 1,
         NEW x, Meant(x) = ZeroExtend(<<>>),
         NEW b, b = Fetch(StreamFrom(p), 1, old)
  PROVE  TypeGives(b, TypeRead(b, junk, vt), junk, p, q, x)
<1>1. ByteGives(b, p, 0, old)
  BY FetchByte, ZeroIsByte
<1>0. Len(image.bytes) \in Nat /\ p \in Nat
  BY Positions
<1>2. CASE p <= Len(image.bytes)
  <2>1. b.val[1] = 0 /\ b.file = StreamFrom(q)
    BY <1>1, <1>2, Zenon DEF ByteGives
  <2>2. TypeRead(b, junk, vt) = b
    BY <2>1 DEF TypeRead
  <2> PICK f : f = b.file
    OBVIOUS
  <2> PICK t : t = Fetch(f, 0, junk).val
    OBVIOUS
  <2>3. ExpiryRead(b, junk).val = t
    BY <2>1 DEF ExpiryRead, ExpiryWidth
  <2>4. t = <<>>
    <3>1. t = [k \in 1..0 |-> IF k <= (IF 0 <= Available(f) THEN 0 ELSE Available(f))
                                THEN image.bytes[f.pos + k - 1] ELSE junk]
      BY Zenon DEF Fetch
    <3> QED BY <3>1
  <2>5. ExpiryTime(0, t) = ZeroExtend(t)
    BY DEF ExpiryTime
  <2>6. ExpiryTime(b.val[1], ExpiryRead(b, junk).val) = Meant(x)
    BY <2>1, <2>3, <2>4, <2>5, Zenon
  <2>7. q <= Len(image.bytes) + 1
    BY <1>0, <1>2
  <2> QED BY <2>1, <2>2, <2>6, <2>7, Zenon DEF TypeGives
<1>3. CASE ~(p <= Len(image.bytes))
  <2>1. ~b.file.good
    BY <1>1, <1>3, Zenon DEF ByteGives
  <2>2. ~TypeRead(b, junk, vt).file.good
    BY <2>1, TypeFails, Zenon
  <2>3. ~(q <= Len(image.bytes) + 1)
    BY <1>0, <1>3
  <2> QED BY <2>2, <2>3, Zenon DEF TypeGives
<1> QED BY <1>2, <1>3

LEMMA AfterExpiry ==
  ASSUME NEW p \in Nat, NEW w \in Nat, NEW len \in Nat, p <= len
  PROVE  /\ p + 1 \in 1..(len + 1) /\ p + 1 + w \in Nat
         /\ p + 1 + w <= len + 1 => p + 1 + w \in 1..(len + 1)
         /\ ~(p + 1 + w <= len + 1) => ~(p + 1 + w + 1 <= len + 1)
         /\ p + 1 + w + 1 <= len + 1 <=> p + 1 + w <= len
OBVIOUS

LEMMA ExpiryHas ==
  ASSUME image \in Images, NEW p \in 1..(Len(image.bytes) + 1),
         NEW op, NEW t, NEW w \in Nat, NEW x, ExpiryEncodes(x, op, t), w = Len(t),
         Has(p, <<op>>), Has(p + 1, t), Has(p + 1 + w, << 0 >>),
         NEW old \in Byte, NEW junk \in Byte, NEW vt \in Byte, NEW q, q = p + 1 + w + 1,
         NEW b, b = Fetch(StreamFrom(p), 1, old)
  PROVE  TypeGives(b, TypeRead(b, junk, vt), junk, p, q, x)
<1>0. PICK len \in Nat : len = Len(image.bytes)
  BY Positions
<1>1. /\ t \in Seq(Byte) /\ op \in {252, 253} /\ w = ExpiryWidth(op)
      /\ ExpiryTime(op, t) = Meant(x)
  BY DEF ExpiryEncodes
<1>2. op \in Byte
  BY <1>1 DEF Byte
<1>3. ByteGives(b, p, op, old)
  BY <1>2, FetchByte
<1>4. CASE ~(p <= len)
  <2>1. ~b.file.good
    BY <1>0, <1>3, <1>4, Zenon DEF ByteGives
  <2>2. ~TypeRead(b, junk, vt).file.good
    BY <2>1, TypeFails, Zenon
  <2>3. ~(q <= len + 1)
    BY <1>4
  <2> QED BY <1>0, <2>2, <2>3, Zenon DEF TypeGives
<1>5. CASE p <= len
  <2>1. b.val[1] = op /\ b.file = StreamFrom(p + 1)
    BY <1>0, <1>3, <1>5, Zenon DEF ByteGives
  <2>2. PICK s \in Nat : s = p + 1 + w
    OBVIOUS
  <2> PICK e : e = Fetch(StreamFrom(p + 1), w, junk)
    OBVIOUS
  <2>3. ExpiryRead(b, junk) = e
    BY <1>1, <2>1, Zenon DEF ExpiryRead
  <2> PICK r : r = TypeRead(b, junk, vt)
    OBVIOUS
  <2>4. r = Fetch(e.file, 1, vt)
    BY <1>1, <2>1, <2>3, Zenon DEF TypeRead
  <2>5. p + 1 \in 1..(len + 1)
    BY <1>5
  <2>6. FetchGives(e, p + 1, w, t, junk)
    BY <1>0, <1>1, <2>5, FetchHas
  <2>7. CASE s <= len + 1
    <3>1. e = [val |-> t, file |-> StreamFrom(s)]
      BY <1>0, <2>2, <2>6, <2>7 DEF FetchGives, Reaches
    <3>2. e.val = t /\ e.file = StreamFrom(s)
      BY <3>1
    <3>3. s \in 1..(len + 1) /\ Has(s, <<0>>)
      BY <2>2, <2>7
    <3>4. ByteGives(r, s, 0, vt)
      BY <1>0, <2>4, <3>2, <3>3, FetchByte, ZeroIsByte
    <3>5. q = s + 1 /\ (q <= len + 1 <=> s <= len)
      BY <2>2
    <3>6. ExpiryTime(b.val[1], ExpiryRead(b, junk).val) = Meant(x)
      BY <1>1, <2>1, <2>3, <3>2, Zenon
    <3> QED BY <1>0, <3>4, <3>5, <3>6, Zenon DEF TypeGives, ByteGives
  <2>8. CASE ~(s <= len + 1)
    <3>1. ~e.file.good
      BY <1>0, <2>2, <2>6, <2>8 DEF FetchGives, Reaches
    <3> PICK n \in Nat : n = 1
      OBVIOUS
    <3>2. ~Fetch(e.file, n, vt).file.good
      BY <3>1, FetchFails, Zenon
    <3>3. ~r.file.good
      BY <2>4, <3>2
    <3>4. ~(q <= len + 1)
      BY <2>2, <2>8
    <3> QED BY <1>0, <3>3, <3>4, Zenon DEF TypeGives
  <2> QED BY <2>7, <2>8
<1> QED BY <1>4, <1>5

LEMMA TypeHas ==
  ASSUME image \in Images, NEW p \in 1..(Len(image.bytes) + 1), NEW x, ReadableExpiry(x),
         NEW n \in Nat, n = Len(EncodeExpiry(x)), Has(p, EncodeExpiry(x)), Has(p + n, << 0 >>),
         NEW old \in Byte, NEW junk \in Byte, NEW vt \in Byte, NEW q, q = p + n + 1,
         NEW b, b = Fetch(StreamFrom(p), 1, old)
  PROVE  TypeGives(b, TypeRead(b, junk, vt), junk, p, q, x)
<1>0. p \in Nat
  BY Positions
<1>1. CASE EncodeExpiry(x) = <<>> /\ Meant(x) = ZeroExtend(<<>>)
  <2>1. p + n = p
    BY <1>0, <1>1
  <2>2. Has(p, <<0>>) /\ q = p + 1
    BY <2>1, Zenon
  <2> QED BY <1>1, <2>2, NoExpiryHas
<1>2. ASSUME NEW op, NEW t, ExpiryEncodes(x, op, t)
      PROVE  TypeGives(b, TypeRead(b, junk, vt), junk, p, q, x)
  <2>1. t \in Seq(Byte) /\ EncodeExpiry(x) = <<op>> \o t /\ op \in Byte
    BY <1>2 DEF ExpiryEncodes, Byte
  <2>2. PICK w \in Nat : w = Len(t)
    BY <2>1
  <2>3. HasFirst(p, op, t, w)
    BY <1>0, <2>1, <2>2, HasByte
  <2>4. Has(p, <<op>>) /\ Has(p + 1, t) /\ p + n = p + 1 + w
    BY <2>1, <2>3, Zenon DEF HasFirst
  <2>5. Has(p + 1 + w, <<0>>) /\ q = p + 1 + w + 1
    BY <2>4, Zenon
  <2> QED BY <1>2, <2>2, <2>4, <2>5, ExpiryHas
<1> QED BY <1>1, <1>2, ExpiryEncoding

(* When the n-th entry ends after the file does.                           *)
LEMMA CutHere ==
  ASSUME NEW l, Layout(l), Ready(l), NEW n \in 1..Size(l), Loaded(l, n - 1),
         ~(l.end[n] <= Len(image.bytes))
  PROVE  ~image.whole /\ Safe /\ \A j \in Complete : j \in 1..(n - 1)
<1>0. Size(l) \in Nat /\ Len(image.entries) = Size(l)
  BY EntriesAre, Zenon
<1>1. ~image.whole
  <2>1. n \in 0..Size(l)
    BY <1>0
  <2> QED BY <2>1, WholeEnds
<1>2. \A j \in Complete : j \in 1..(n - 1)
  <2> TAKE j \in Complete
  <2>1. j \in 1..Size(l) /\ l.end[j] <= Len(image.bytes)
    BY <1>0, EntriesAre DEF Complete
  <2>2. ASSUME ~(j < n) PROVE FALSE
    <3>1. n \in 0..Size(l) /\ j \in n..Size(l)
      BY <1>0, <2>1, <2>2
    <3>2. l.end[n] <= l.end[j]
      BY <3>1 DEF Ready, EntryEnds
    <3>3. l.end[n] \in Nat /\ l.end[j] \in Nat /\ Len(image.bytes) \in Nat
      BY <2>1, <3>1, ImagesAssumption DEF Ready, EntryEnds
    <3> QED BY <2>1, <3>2, <3>3
  <2> QED BY <1>0, <2>1, <2>2
<1>3. Safe
  <2>1. n - 1 \in 0..Size(l)
    BY <1>0
  <2> QED BY <1>2, <2>1, LoadedHolds DEF Safe
<1> QED BY <1>1, <1>2, <1>3

LEMMA StillSafe ==
  ASSUME Safe, image' = image, database' = database
  PROVE  Safe'
BY Zenon DEF Safe, Complete, Holds

LEMMA Breaks ==
  ASSUME Safe, ~image.whole, image' = image, database' = database, ~file'.good,
         pc' \in {"key", "table", "loop", "done"}
  PROVE  Broken'
<1>1. Safe'
  BY StillSafe, Zenon
<1>2. pc' # "value" /\ pc' \in {"table", "key", "value", "loop", "done"}
  OBVIOUS
<1> QED BY <1>1, <1>2, Zenon DEF Broken

(* One read of ReadEntryType after another.                                *)
LEMMA EntryTypeReads ==
  ASSUME NEW junk, ReadEntryType(junk),
         NEW b, b = Fetch(file, 1, nextByte), NEW r, r = TypeRead(b, junk, valueType)
  PROVE  /\ time' = ExpiryTime(b.val[1], ExpiryRead(b, junk).val)
         /\ file' = r.file /\ pc' = IF r.val[1] = 0 THEN "key" ELSE "done"
         /\ image' = image /\ database' = database /\ tableSize' = tableSize /\ i' = i
         /\ i < tableSize
BY ZenonT(40) DEF ReadEntryType, TypeRead, ExpiryRead

LEMMA EntryRoom ==
  ASSUME NEW a \in Nat, NEW b \in Nat, NEW x \in Nat, NEW k \in Nat, NEW v \in Nat,
         NEW len \in Nat, b + 1 = a + x + 2 + k + v
  PROVE  /\ a + 1 + x + 1 = a + x + 2
         /\ ~(a + x + 2 <= len + 1) => ~(b <= len)
         /\ ~(a + x + 2 + k <= len + 1) => ~(b <= len)
         /\ ~(a + x + 2 + k + v <= len + 1) => ~(b <= len)
OBVIOUS

LEMMA EntryTypeIn ==
  ASSUME RdbInv, NEW l, Layout(l), Ready(l), NEW m, AtEntry(l, m), NEW n \in 1..Size(l),
         m = n - 1, NEW junk \in Byte, ReadEntryType(junk)
  PROVE  InTable(l)' \/ Broken'
<1>0. /\ image \in Images /\ EntryEnds(l) /\ nextByte \in Byte /\ valueType \in Byte
      /\ file.pos \in 1..(Len(image.bytes) + 1)
  BY DEF RdbInv, RdbTypeOK, Ready
<1> PICK a, c, x, k, v \in Nat : EntryHere(l, n, a, c, x, k, v)
  BY <1>0, EntryIs
<1> PICK e : e = l.db[n]
  OBVIOUS
<1>1. /\ l.end[m] = a /\ l.end[n] = c /\ x = Len(EncodeExpiry(e.expiry))
      /\ ReadableExpiry(e.expiry)
      /\ Has(a + 1, EncodeExpiry(e.expiry)) /\ Has(a + 1 + x, <<0>>)
      /\ c + 1 = a + x + 2 + k + v
  BY Zenon DEF EntryHere
<1>2. file = StreamFrom(a + 1)
  BY <1>1, Zenon DEF AtEntry
<1>3. PICK p \in Nat : p = a + 1 /\ p \in 1..(Len(image.bytes) + 1)
  BY <1>0, <1>2 DEF StreamFrom
<1> PICK b : b = Fetch(StreamFrom(p), 1, nextByte)
  OBVIOUS
<1> PICK r : r = TypeRead(b, junk, valueType)
  OBVIOUS
<1>4. PICK q \in Nat : q = p + x + 1
  BY <1>3
<1>5. TypeGives(b, r, junk, p, q, e.expiry)
  <2>1. Has(p, EncodeExpiry(e.expiry)) /\ Has(p + x, <<0>>)
    BY <1>1, <1>3, Zenon
  <2> QED BY <1>0, <1>1, <1>3, <1>4, <2>1, TypeHas
<1>6. /\ time' = ExpiryTime(b.val[1], ExpiryRead(b, junk).val)
      /\ file' = r.file /\ pc' = IF r.val[1] = 0 THEN "key" ELSE "done"
      /\ image' = image /\ database' = database /\ tableSize' = tableSize /\ i' = i
  BY <1>2, <1>3, EntryTypeReads, Zenon
<1>7. q = a + x + 2 /\ (~(q <= Len(image.bytes) + 1) => ~(c <= Len(image.bytes)))
  <2> PICK len \in Nat : len = Len(image.bytes)
    BY <1>0, ImagesAssumption
  <2> QED BY <1>1, <1>3, <1>4, EntryRoom, SMTT(30)
<1>8. Loaded(l, m)' /\ Loaded(l, m)
  <2>1. Loaded(l, m)
    BY DEF AtEntry
  <2> QED BY <1>6, <2>1, Zenon DEF Loaded
<1>9. CASE q <= Len(image.bytes) + 1
  <2>1. pc' = "key" /\ file' = StreamFrom(q) /\ time' = Meant(e.expiry)
    BY <1>5, <1>6, <1>9, Zenon DEF TypeGives
  <2>2. KeyAt(l, n) = q
    BY <1>1, <1>7, Zenon DEF KeyAt
  <2>3. InEntry(l, n)'
    BY <1>6, <1>8, <2>1, Zenon DEF InEntry, AtEntry
  <2>4. AtKey(l, n)'
    BY <2>1, <2>2, <2>3, Zenon DEF AtKey
  <2> QED BY <2>4, Zenon DEF InTable
<1>10. CASE ~(q <= Len(image.bytes) + 1)
  <2>1. ~file'.good /\ pc' \in {"key", "table", "loop", "done"}
    BY <1>5, <1>6, <1>10, Zenon DEF TypeGives
  <2>2. ~(l.end[n] <= Len(image.bytes))
    BY <1>1, <1>7, <1>10
  <2>3. ~image.whole /\ Safe
    BY <1>8, <2>2, CutHere
  <2> QED BY <1>6, <2>1, <2>3, Breaks, Zenon
<1> QED BY <1>9, <1>10

LEMMA LayoutBytes ==
  ASSUME NEW l, Layout(l), Ready(l)
  PROVE  /\ Len(l.bytes) \in Nat /\ Len(image.bytes) <= Len(l.bytes)
         /\ \A k \in 1..Len(image.bytes) : image.bytes[k] = l.bytes[k]
<1>1. /\ Len(image.bytes) <= Len(l.bytes)
      /\ \A k \in 1..Len(image.bytes) : image.bytes[k] = l.bytes[k]
  BY Zenon DEF Ready, ImageOf
<1>2. l.bytes \in Seq(Byte)
  BY Zenon DEF Layout, Written
<1> QED BY <1>1, <1>2

(* Another type than a string's follows, or the file ends.                 *)
LEMMA OtherTypeIn ==
  ASSUME RdbInv, NEW l, Layout(l), Ready(l), NEW n, AtEntry(l, n), n = Size(l),
         NEW junk \in Byte, ReadEntryType(junk)
  PROVE  InTable(l)' \/ Broken'
<1>0. /\ image \in Images /\ nextByte \in Byte /\ valueType \in Byte
      /\ file.pos \in 1..(Len(image.bytes) + 1) /\ Size(l) \in Nat /\ Len(image.bytes) \in Nat
      /\ Len(image.entries) = Size(l)
  BY EntriesAre, ImagesAssumption DEF RdbInv, RdbTypeOK, Ready
<1> PICK b : b = Fetch(file, 1, nextByte)
  OBVIOUS
<1> PICK r : r = TypeRead(b, junk, valueType)
  OBVIOUS
<1>1. /\ file' = r.file /\ pc' = IF r.val[1] = 0 THEN "key" ELSE "done"
      /\ image' = image /\ database' = database /\ i < tableSize
  BY EntryTypeReads, Zenon
<1>2. Size(l) < l.size /\ Loaded(l, n)
  BY <1>1 DEF AtEntry
<1>3. ~image.whole
  <2>3. l.size \in Byte
    BY Zenon DEF Ready, EntryEnds
  <2>1. l.size \in Nat
    BY <2>3 DEF Byte
  <2>2. image.whole => l.size = Size(l)
    BY DEF Ready, ImageOf, Size
  <2> QED BY <1>0, <1>2, <2>1, <2>2
<1>4. Safe
  <2>1. \A j \in Complete : j \in 1..n
    BY <1>0 DEF Complete
  <2>2. n \in 0..Size(l)
    BY <1>0
  <2> QED BY <1>2, <2>1, <2>2, LoadedHolds DEF Safe
<1>5. PICK p \in Nat : p = l.end[n] + 1 /\ file = StreamFrom(p) /\ p \in 1..(Len(image.bytes) + 1)
  <2>1. file = StreamFrom(l.end[n] + 1)
    BY DEF AtEntry
  <2>2. file.pos = l.end[n] + 1
    BY <2>1 DEF StreamFrom
  <2> QED BY <1>0, <2>1, <2>2
<1>6. CASE p <= Len(image.bytes)
  <2>1. PICK op \in Byte : op = image.bytes[p]
    BY <1>0, <1>5, <1>6, ImagesAssumption
  <2>2. Has(p, <<op>>)
    <3>1. Len(<<op>>) = 1 /\ <<op>>[1] = op /\ p + 1 - 1 = p
      BY <1>5
    <3>2. 1..1 = {1}
      OBVIOUS
    <3> QED BY <2>1, <3>1, <3>2 DEF Has
  <2>3. b.val[1] = op
    BY <1>0, <1>5, <1>6, <2>2, GoodByte
  <2>4. op \notin {0, 252, 253}
    <3>1. p <= Len(l.bytes) /\ l.bytes[p] = op
      BY <1>0, <1>5, <1>6, <2>1, LayoutBytes
    <3>2. l.end[n] < Len(l.bytes)
      <4>1. Len(l.bytes) \in Nat /\ l.end[n] \in Nat
        BY <1>0, LayoutBytes DEF Ready, EntryEnds
      <4> QED BY <1>5, <3>1, <4>1
    <3>3. l.bytes[l.end[n] + 1] \notin {0, 252, 253}
      BY <1>2, <3>2 DEF Layout, Supported, Size
    <3> QED BY <1>5, <3>1, <3>3
  <2>5. r = b
    BY <2>3, <2>4 DEF TypeRead
  <2>6. pc' = "done"
    BY <1>1, <2>3, <2>4, <2>5
  <2>7. Loaded(l, n)'
    BY <1>1, <1>2, Zenon DEF Loaded
  <2>8. Stopped(l)'
    BY <1>1, <1>3, <2>6, <2>7, Zenon DEF Stopped
  <2> QED BY <2>8, Zenon DEF InTable
<1>7. CASE ~(p <= Len(image.bytes))
  <2>1. ~b.file.good
    <3> PICK s \in Seq(Byte), one \in Nat : s = <<0>> /\ one = Len(s) /\ one = 1
      <4>1. <<0>> \in Seq(Byte) /\ Len(<<0>>) = 1
        BY ByteIsSeq, ZeroIsByte
      <4> QED BY <4>1
    <3>1. Has(p, s)
      <4>1. 1..1 = {1} /\ ~(p + 1 - 1 <= Len(image.bytes))
        BY <1>5, <1>7
      <4> QED BY <4>1 DEF Has
    <3>2. FetchGives(b, p, one, s, nextByte)
      BY <1>0, <1>5, <3>1, FetchHas
    <3>3. ~Reaches(p + one)
      BY <1>0, <1>5, <1>7 DEF Reaches
    <3> QED BY <3>2, <3>3, Zenon DEF FetchGives
  <2>2. ~file'.good
    BY <1>1, <2>1, TypeFails, Zenon
  <2>3. pc' \in {"key", "table", "loop", "done"}
    BY <1>1
  <2> QED BY <1>1, <1>3, <1>4, <2>2, <2>3, Breaks, Zenon
<1> QED BY <1>6, <1>7

LEMMA LoadedNext ==
  ASSUME NEW l, Ready(l), NEW n \in 1..Size(l), Loaded(l, n - 1),
         DatabaseSet(l.db[n].key, l.db[n].value, Meant(l.db[n].expiry))
  PROVE  Loaded(l, n)'
<1>0. n \in Nat /\ n - 1 \in Nat /\ 1..n = (1..(n - 1)) \cup {n} /\ n \notin 1..(n - 1)
  BY EntriesAre
<1> PICK k : k = l.db[n].key
  OBVIOUS
<1> PICK e : e = [value |-> l.db[n].value, expiry_time |-> Meant(l.db[n].expiry)]
  OBVIOUS
<1>1. database' = [s \in {k} \cup DOMAIN database |-> IF s = k THEN e ELSE database[s]]
  BY Zenon DEF DatabaseSet
<1>2. DOMAIN database = {l.db[m].key : m \in 1..(n - 1)}
  BY DEF Loaded
<1>3. DOMAIN database' = {l.db[m].key : m \in 1..n}
  <2>1. DOMAIN database' = {k} \cup DOMAIN database
    BY <1>1
  <2> QED BY <1>0, <1>2, <2>1
<1>4. database'[k] = e
  BY <1>1
<1>5. ASSUME NEW m \in 1..(n - 1)
      PROVE  database'[l.db[m].key] =
               [value |-> l.db[m].value, expiry_time |-> Meant(l.db[m].expiry)]
  <2> PICK s : s = l.db[m].key
    OBVIOUS
  <2>1. s # k
    BY DEF Ready, EntryEnds
  <2>2. s \in DOMAIN database
    BY <1>2
  <2>3. database'[s] = database[s]
    BY <1>1, <2>1, <2>2
  <2>4. database[s] = [value |-> l.db[m].value, expiry_time |-> Meant(l.db[m].expiry)]
    BY Zenon DEF Loaded
  <2> QED BY <2>3, <2>4
<1>6. \A m \in 1..n :
        database'[l.db[m].key] = [value |-> l.db[m].value, expiry_time |-> Meant(l.db[m].expiry)]
  BY <1>0, <1>4, <1>5, Zenon
<1> QED BY <1>3, <1>6, Zenon DEF Loaded

LEMMA SetKeeps ==
  ASSUME NEW k, NEW v, NEW t, DatabaseSet(k, v, t), Safe, OtherKey(k), image' = image
  PROVE  Safe'
<1> SUFFICES ASSUME NEW n \in Complete PROVE Holds(image.entries[n])'
  BY Zenon DEF Safe, Complete
<1> PICK e : e = image.entries[n]
  OBVIOUS
<1>1. e.key # k /\ e.key \in DOMAIN database
      /\ database[e.key] = [value |-> e.value, expiry_time |-> e.expiry_time]
  BY DEF Safe, OtherKey, Holds
<1>2. e.key \in DOMAIN database' /\ database'[e.key] = database[e.key]
  BY <1>1 DEF DatabaseSet
<1>3. image'.entries[n] = e
  OBVIOUS
<1> QED BY <1>1, <1>2, <1>3, Zenon DEF Holds

(* A string that was not read to its end is none of the keys.              *)
LEMMA NotPlain ==
  ASSUME NEW l, Ready(l), ~image.whole, NEW k, ~Plain(k)
  PROVE  OtherKey(k)
<1> SUFFICES ASSUME NEW n \in Complete PROVE k # image.entries[n].key
  BY DEF OtherKey
<1>1. n \in 1..Size(l)
  BY EntriesAre DEF Complete
<1>2. Plain(image.entries[n].key)
  BY <1>1, EntriesAre, Zenon
<1> QED BY <1>2

LEMMA KeyIn ==
  ASSUME RdbInv, NEW l, Layout(l), Ready(l), NEW n, AtKey(l, n), NEW junk \in Byte, ReadKey(junk)
  PROVE  InTable(l)' \/ Broken'
<1>0. /\ image \in Images /\ EntryEnds(l) /\ file.pos \in 1..(Len(image.bytes) + 1)
      /\ n \in 1..Size(l)
  BY DEF RdbInv, RdbTypeOK, Ready, AtKey, InEntry
<1> PICK a, c, x, k, v \in Nat : EntryHere(l, n, a, c, x, k, v)
  BY <1>0, EntryIs
<1> PICK s : s = l.db[n].key
  OBVIOUS
<1>1. /\ l.end[n - 1] = a /\ l.end[n] = c /\ x = Len(EncodeExpiry(l.db[n].expiry))
      /\ Readable(s) /\ k = Len(EncodeString(s))
      /\ Has(a + x + 2, EncodeString(s)) /\ c + 1 = a + x + 2 + k + v
  BY Zenon DEF EntryHere
<1>2. file = StreamFrom(a + x + 2)
  BY <1>1, Zenon DEF AtKey, KeyAt
<1>3. PICK p \in Nat : p = a + x + 2 /\ p \in 1..(Len(image.bytes) + 1)
  BY <1>0, <1>2 DEF StreamFrom
<1> PICK r : r = ReadLengthPrefixedString(StreamFrom(p), junk)
  OBVIOUS
<1>4. StringGives(r, s, p + Len(EncodeString(s)))
  <2>1. Has(p, EncodeString(s))
    BY <1>1, <1>3, Zenon
  <2> QED BY <1>0, <1>1, <1>3, <2>1, StringHas
<1>5. /\ pc' = "value" /\ key' = r.str /\ file' = r.file
      /\ image' = image /\ database' = database
      /\ tableSize' = tableSize /\ i' = i /\ time' = time
  BY <1>2, <1>3, Zenon DEF ReadKey, dbLocals
<1>6. InEntry(l, n)' /\ Loaded(l, n - 1)
  <2>1. InEntry(l, n)
    BY DEF AtKey
  <2> QED BY <1>5, <2>1, Zenon DEF InEntry, Loaded
<1>7. CASE Reaches(p + Len(EncodeString(s)))
  <2>1. key' = s /\ file' = StreamFrom(p + Len(EncodeString(s)))
    <3>1. r = [str |-> s, file |-> StreamFrom(p + Len(EncodeString(s)))]
      BY <1>4, <1>7, Zenon DEF StringGives
    <3> QED BY <1>5, <3>1
  <2>2. KeyAt(l, n) = p
    BY <1>1, <1>3, Zenon DEF KeyAt
  <2>3. AtEntryValue(l, n)'
    BY <1>5, <1>6, <2>1, <2>2, Zenon DEF AtEntryValue
  <2> QED BY <2>3, Zenon DEF InTable
<1>8. CASE ~Reaches(p + Len(EncodeString(s)))
  <2>1. ~file'.good /\ ~Plain(key')
    BY <1>4, <1>5, <1>8, Zenon DEF StringGives
  <2>2. ~(l.end[n] <= Len(image.bytes))
    <3> PICK len \in Nat : len = Len(image.bytes)
      BY Begins
    <3>2. c + 1 = a + x + 2 + k + v /\ l.end[n] = c
      BY <1>1, Zenon
    <3>1. ~(a + x + 2 + k <= len + 1)
      BY <1>1, <1>3, <1>8 DEF Reaches
    <3> QED BY <3>1, <3>2, EntryRoom
  <2>3. ~image.whole /\ Safe
    BY <1>0, <1>6, <2>2, CutHere
  <2>4. Safe'
    BY <1>5, <2>3, StillSafe, Zenon
  <2>5. OtherKey(key')
    BY <2>1, <2>3, NotPlain
  <2>6. OtherKey(key)'
    BY <1>5, <2>5, Zenon DEF OtherKey, Complete
  <2> QED BY <1>5, <2>1, <2>3, <2>4, <2>6, Zenon DEF Broken
<1> QED BY <1>7, <1>8

LEMMA EntryValueIn ==
  ASSUME RdbInv, NEW l, Layout(l), Ready(l), NEW n, AtEntryValue(l, n),
         NEW junk \in Byte, ReadValue(junk)
  PROVE  InTable(l)' \/ Broken'
<1>0. /\ image \in Images /\ EntryEnds(l) /\ file.pos \in 1..(Len(image.bytes) + 1)
      /\ n \in 1..Size(l)
  BY DEF RdbInv, RdbTypeOK, Ready, AtEntryValue, InEntry
<1> PICK a, c, x, k, v \in Nat : EntryHere(l, n, a, c, x, k, v)
  BY <1>0, EntryIs
<1> PICK s : s = l.db[n].value
  OBVIOUS
<1>1. /\ l.end[n - 1] = a /\ l.end[n] = c /\ x = Len(EncodeExpiry(l.db[n].expiry))
      /\ k = Len(EncodeString(l.db[n].key)) /\ Readable(s) /\ v = Len(EncodeString(s))
      /\ Has(a + x + 2 + k, EncodeString(s)) /\ c + 1 = a + x + 2 + k + v
  BY Zenon DEF EntryHere
<1>2. file = StreamFrom(a + x + 2 + k)
  BY <1>1, Zenon DEF AtEntryValue, KeyAt
<1>3. PICK p \in Nat : p = a + x + 2 + k /\ p \in 1..(Len(image.bytes) + 1)
  BY <1>0, <1>2 DEF StreamFrom
<1> PICK r : r = ReadLengthPrefixedString(StreamFrom(p), junk)
  OBVIOUS
<1>4. StringGives(r, s, p + Len(EncodeString(s)))
  <2>1. Has(p, EncodeString(s))
    BY <1>1, <1>3, Zenon
  <2> QED BY <1>0, <1>1, <1>3, <2>1, StringHas
<1>5. /\ pc' = "table" /\ file' = r.file /\ image' = image
      /\ tableSize' = tableSize /\ i' = i + 1 /\ DatabaseSet(key, r.str, time)
  BY <1>2, <1>3, Zenon DEF ReadValue
<1>6. /\ key = l.db[n].key /\ time = Meant(l.db[n].expiry) /\ Loaded(l, n - 1)
      /\ tableSize = l.size /\ i = n - 1
  BY Zenon DEF AtEntryValue, InEntry
<1>7. CASE Reaches(p + Len(EncodeString(s)))
  <2>1. r.str = s /\ file' = StreamFrom(p + Len(EncodeString(s)))
    <3>1. r = [str |-> s, file |-> StreamFrom(p + Len(EncodeString(s)))]
      BY <1>4, <1>7, Zenon DEF StringGives
    <3> QED BY <1>5, <3>1
  <2>2. l.end[n] + 1 = p + Len(EncodeString(s))
    BY <1>1, <1>3, Zenon
  <2>3. Loaded(l, n)'
    <3>1. DatabaseSet(l.db[n].key, l.db[n].value, Meant(l.db[n].expiry))
      BY <1>5, <1>6, <2>1, Zenon
    <3> QED BY <1>0, <1>6, <3>1, LoadedNext
  <2>4. n \in 0..Size(l) /\ i' = n
    BY <1>0, <1>5, <1>6
  <2>5. AtEntry(l, n)'
    BY <1>5, <1>6, <2>1, <2>2, <2>3, <2>4, Zenon DEF AtEntry
  <2> QED BY <2>5, Zenon DEF InTable
<1>8. CASE ~Reaches(p + Len(EncodeString(s)))
  <2>1. ~file'.good
    BY <1>4, <1>5, <1>8, Zenon DEF StringGives
  <2>2. ~(l.end[n] <= Len(image.bytes))
    <3> PICK len \in Nat : len = Len(image.bytes)
      BY Begins
    <3>2. c + 1 = a + x + 2 + k + v /\ l.end[n] = c
      BY <1>1, Zenon
    <3>1. ~(a + x + 2 + k + v <= len + 1)
      BY <1>1, <1>3, <1>8 DEF Reaches
    <3> QED BY <3>1, <3>2, EntryRoom
  <2>3. ~image.whole /\ Safe /\ \A j \in Complete : j \in 1..(n - 1)
    BY <1>0, <1>6, <2>2, CutHere
  <2>4. OtherKey(key)
    <3> SUFFICES ASSUME NEW j \in Complete PROVE key # image.entries[j].key
      BY DEF OtherKey
    <3>1. j \in 1..(n - 1) /\ j \in 1..Size(l)
      BY <1>0, <2>3, EntriesAre
    <3>2. l.db[j].key # l.db[n].key
      BY <1>0, <3>1 DEF EntryEnds
    <3>3. image.entries[j].key = l.db[j].key
      BY <3>1, EntriesAre, Zenon
    <3> QED BY <1>6, <3>2, <3>3
  <2>5. Safe'
    BY <1>5, <2>3, <2>4, SetKeeps, Zenon
  <2>6. pc' # "value"
    BY <1>5
  <2> QED BY <1>5, <2>1, <2>3, <2>5, <2>6, Zenon DEF Broken
<1> QED BY <1>7, <1>8

LEMMA EndIn ==
  ASSUME RdbInv, NEW l, Ready(l), NEW n, AtEntry(l, n), EndOfTable
  PROVE  InTail(l)'
<1>1. /\ pc' = "loop" /\ image' = image /\ file' = file /\ database' = database
      /\ i >= tableSize
  BY Zenon DEF EndOfTable
<1>2. n = Size(l)
  <2>1. Size(l) \in 0..l.size /\ l.size \in Byte
    BY Zenon DEF Ready, EntryEnds
  <2>2. n \in 0..Size(l) /\ n >= l.size
    BY <1>1 DEF AtEntry
  <2> QED BY <2>1, <2>2 DEF Byte
<1>3. Loaded(l, Size(l))'
  <2>1. Loaded(l, Size(l))
    BY <1>2, Zenon DEF AtEntry
  <2> QED BY <1>1, <2>1, Zenon DEF Loaded
<1>4. file'.pos > l.end[Size(l)]
  <2>1. PICK p \in Nat : p = l.end[Size(l)]
    BY EntriesAre DEF Ready, EntryEnds
  <2>2. file' = [pos |-> p + 1, good |-> TRUE]
    BY <1>1, <1>2, <2>1 DEF AtEntry, StreamFrom
  <2> QED BY <2>1, <2>2
<1>5. /\ pc' \in TailPcs /\ pc' \in {"loop", "switch", "attribute", "index", "done"}
      /\ pc' \notin {"switch", "index", "size", "expirySize", "table"}
  BY <1>1 DEF TailPcs
<1> QED BY <1>3, <1>4, <1>5 DEF InTail

LEMMA TableStep ==
  ASSUME RdbInv, NEW l, Layout(l), Ready(l), InTable(l), Next
  PROVE  InTable(l)' \/ InTail(l)' \/ Broken'
<1>0. Junk \subseteq Byte /\ Size(l) \in Nat
  BY JunkAssumption, EntriesAre
<1>1. ~Stopped(l)
  BY Turns DEF Stopped
<1>2. ASSUME NEW m, AtEntry(l, m)
      PROVE  InTable(l)' \/ InTail(l)' \/ Broken'
  <2>1. pc = "table"
    BY <1>2 DEF AtEntry
  <2>2. CASE EndOfTable
    BY <1>2, <2>2, EndIn, Zenon
  <2>3. ASSUME NEW junk \in Junk, ReadEntryType(junk)
        PROVE  InTable(l)' \/ Broken'
    <3>1. m \in 0..Size(l)
      BY <1>2 DEF AtEntry
    <3>2. CASE m = Size(l)
      BY <1>0, <1>2, <2>3, <3>2, OtherTypeIn
    <3>3. CASE m # Size(l)
      <4> PICK n \in 1..Size(l) : n = m + 1
        BY <1>0, <3>1, <3>3
      <4>1. m = n - 1
        BY <3>1
      <4> QED BY <1>0, <1>2, <2>3, <4>1, EntryTypeIn
    <3> QED BY <3>2, <3>3
  <2> QED BY <2>1, <2>2, <2>3, Turns
<1>3. ASSUME NEW n, AtKey(l, n)
      PROVE  InTable(l)' \/ Broken'
  <2>1. pc = "key"
    BY <1>3 DEF AtKey
  <2> PICK junk \in Junk : ReadKey(junk)
    BY <2>1, Turns
  <2> QED BY <1>0, <1>3, KeyIn
<1>4. ASSUME NEW n, AtEntryValue(l, n)
      PROVE  InTable(l)' \/ Broken'
  <2>1. pc = "value"
    BY <1>4 DEF AtEntryValue
  <2> PICK junk \in Junk : ReadValue(junk)
    BY <2>1, Turns
  <2> QED BY <1>0, <1>4, EntryValueIn
<1> QED BY <1>1, <1>2, <1>3, <1>4, Zenon DEF InTable

-----------------------------------------------------------------------------
(* After a failed read                                                     *)

LEMMA BrokenStep ==
  ASSUME RdbInv, NEW l, Ready(l), Broken, Next
  PROVE  Broken'
<1>0. ~file.good /\ ~image.whole /\ Safe
  BY Zenon DEF Broken
<1>1. ~(pc \in {"open", "switch", "attribute", "index", "size", "expirySize", "done"})
  <2>1. pc \in {"table", "key", "value", "loop", "done"}
    BY Zenon DEF Broken
  <2> QED BY <2>1, Turns
<1>2. CASE EndOfFile
  <2>1. pc' = "done" /\ image' = image /\ database' = database /\ file' = file
    BY <1>2, Zenon DEF EndOfFile
  <2> QED BY <1>0, <2>1, Breaks
<1>3. CASE EndOfTable
  <2>1. pc' = "loop" /\ image' = image /\ database' = database /\ file' = file
    BY <1>3, Zenon DEF EndOfTable
  <2> QED BY <1>0, <2>1, Breaks
<1>4. ASSUME NEW junk \in Byte, ReadEntryType(junk)
      PROVE  Broken'
  <2> PICK b : b = Fetch(file, 1, nextByte)
    OBVIOUS
  <2> PICK r : r = TypeRead(b, junk, valueType)
    OBVIOUS
  <2>1. /\ file' = r.file /\ pc' = IF r.val[1] = 0 THEN "key" ELSE "done"
        /\ image' = image /\ database' = database
    BY <1>4, EntryTypeReads, Zenon
  <2> PICK one \in Nat : one = 1
    OBVIOUS
  <2>2. ~Fetch(file, one, nextByte).file.good
    BY <1>0, FetchFails, Zenon
  <2>3. ~file'.good
    BY <2>1, <2>2, TypeFails
  <2>4. pc' \in {"key", "table", "loop", "done"}
    BY <2>1
  <2> QED BY <1>0, <2>1, <2>3, <2>4, Breaks, Zenon
<1>5. ASSUME NEW junk \in Byte, ReadKey(junk)
      PROVE  Broken'
  <2> PICK r : r = ReadLengthPrefixedString(file, junk)
    OBVIOUS
  <2>1. /\ pc' = "value" /\ key' = r.str /\ file' = r.file
        /\ image' = image /\ database' = database
    BY <1>5, Zenon DEF ReadKey
  <2>2. ~r.file.good /\ ~Plain(r.str)
    BY <1>0, StringFails
  <2>3. OtherKey(key')
    BY <1>0, <2>1, <2>2, NotPlain
  <2>4. OtherKey(key)'
    BY <2>1, <2>3, Zenon DEF OtherKey, Complete
  <2>5. Safe' /\ ~file'.good
    BY <1>0, <2>1, <2>2, StillSafe
  <2> QED BY <1>0, <2>1, <2>4, <2>5, Zenon DEF Broken
<1>6. ASSUME NEW junk \in Byte, ReadValue(junk)
      PROVE  Broken'
  <2> PICK r : r = ReadLengthPrefixedString(file, junk)
    OBVIOUS
  <2>1. /\ pc' = "table" /\ file' = r.file /\ image' = image
        /\ DatabaseSet(key, r.str, time) /\ pc = "value"
    BY <1>6, Zenon DEF ReadValue
  <2>2. ~file'.good
    BY <1>0, <2>1, StringFails
  <2>3. OtherKey(key)
    BY <2>1, Zenon DEF Broken
  <2>4. Safe'
    BY <1>0, <2>1, <2>3, SetKeeps, Zenon
  <2>5. pc' # "value"
    BY <2>1
  <2> QED BY <1>0, <2>1, <2>2, <2>4, <2>5, Zenon DEF Broken
<1>7. ASSUME NEW junk, ReadIndicator(junk)
      PROVE  FALSE
  BY <1>0, <1>7, Zenon DEF ReadIndicator
<1>8. pc \in {"table", "key", "value", "loop"}
  BY <1>1 DEF Broken
<1>9. Junk \subseteq Byte
  BY JunkAssumption
<1> QED BY <1>2, <1>3, <1>4, <1>5, <1>6, <1>7, <1>8, <1>9, Turns

-----------------------------------------------------------------------------
(* After the entries                                                       *)

LEMMA Later ==
  ASSUME image \in Images, NEW f, IsStream(f), NEW g, ReadsOn(f, g), g.good
  PROVE  f.good /\ g.pos >= f.pos /\ (Consumes(f, g) => g.pos > f.pos)
<1> PICK len \in Nat : len = Len(image.bytes)
  BY ImagesAssumption
<1>1. IsStream(g) /\ BytesLeft(g) <= BytesLeft(f)
  BY DEF ReadsOn
<1> PICK p \in 1..(len + 1) : p = f.pos
  BY StreamType
<1> PICK q \in 1..(len + 1) : q = g.pos
  BY <1>1, StreamType
<1>2. BytesLeft(g) = (len + 2) - q
  BY DEF BytesLeft
<1>3. f.good
  <2> SUFFICES ASSUME ~f.good PROVE FALSE
    OBVIOUS
  <2>1. BytesLeft(f) = 0
    BY DEF BytesLeft
  <2> QED BY <1>1, <1>2, <2>1
<1>4. BytesLeft(f) = (len + 2) - p
  BY <1>3 DEF BytesLeft
<1>5. q >= p
  BY <1>1, <1>2, <1>4
<1>6. Consumes(f, g) => q > p
  BY <1>2, <1>3, <1>4 DEF Consumes
<1> QED BY <1>3, <1>5, <1>6

LEMMA TailByte ==
  ASSUME image \in Images, NEW f, IsStream(f), NEW old \in Byte, NEW r, r = Fetch(f, 1, old)
  PROVE  /\ r.file.good => /\ f.good /\ f.pos \in 1..Len(image.bytes)
                           /\ r.val[1] = image.bytes[f.pos] /\ r.file = StreamFrom(f.pos + 1)
         /\ ~r.file.good => r.val[1] = old
<1>0. PICK len \in Nat : len = Len(image.bytes)
  BY ImagesAssumption
<1>1. CASE ~f.good
  <2> PICK n \in Nat : n = 1
    OBVIOUS
  <2>1. ~Fetch(f, n, old).file.good /\ \A k \in 1..n : Fetch(f, n, old).val[k] = old
    BY <1>1, FetchFails
  <2>2. ~r.file.good /\ r.val[1] = old
    BY <2>1
  <2> QED BY <2>2
<1>2. CASE f.good
  <2>1. PICK p \in 1..(len + 1) : f = StreamFrom(p) /\ p = f.pos
    <3> PICK p \in 1..(len + 1), g \in BOOLEAN : f = [pos |-> p, good |-> g]
      BY <1>0 DEF IsStream
    <3>1. g = TRUE
      BY <1>2
    <3>2. f.pos = p /\ f = StreamFrom(p)
      BY <3>1 DEF StreamFrom
    <3> QED BY <3>2
  <2>2. PICK b \in Byte : p <= len => b = image.bytes[p]
    <3>1. CASE p <= len
      BY <1>0, <3>1, ImagesAssumption
    <3>2. CASE ~(p <= len)
      BY <3>2, ZeroIsByte
    <3> QED BY <3>1, <3>2
  <2>3. Has(p, <<b>>)
    <3>1. Len(<<b>>) = 1 /\ <<b>>[1] = b /\ p + 1 - 1 = p /\ 1..1 = {1}
      OBVIOUS
    <3> QED BY <1>0, <2>2, <3>1 DEF Has
  <2>4. ByteGives(r, p, b, old)
    BY <1>0, <2>1, <2>3, FetchByte
  <2>5. CASE p <= len
    <3>1. r.val[1] = b /\ r.file = StreamFrom(p + 1)
      BY <1>0, <2>4, <2>5, Zenon DEF ByteGives
    <3>2. r.file.good
      BY <3>1 DEF StreamFrom
    <3> QED BY <1>0, <1>2, <2>1, <2>2, <2>5, <3>1, <3>2
  <2>6. CASE ~(p <= len)
    <3>1. ~r.file.good /\ r.val[1] = old
      BY <1>0, <2>4, <2>6, Zenon DEF ByteGives
    <3> QED BY <3>1
  <2> QED BY <2>5, <2>6
<1> QED BY <1>1, <1>2

(* What every state of the tail has, and what the stream has before it.    *)
TailStream(l) ==
  /\ image \in Images /\ IsStream(file) /\ Junk \subseteq Byte /\ nextByte \in Byte
  /\ file.pos \in Nat /\ l.end[Size(l)] \in Nat
  /\ file.good => file.pos > l.end[Size(l)]

LEMMA TailIs ==
  ASSUME RdbInv, NEW l, Ready(l), InTail(l)
  PROVE  TailStream(l)
<1>1. l.end[Size(l)] \in Nat
  BY EntriesAre DEF Ready, EntryEnds
<1>2. image \in Images /\ IsStream(file) /\ nextByte \in Byte
  BY DEF RdbInv, RdbTypeOK
<1>3. file.pos \in Nat
  BY <1>2, StreamType
<1> QED BY <1>1, <1>2, <1>3, JunkAssumption DEF TailStream, InTail

(* The stream that a read leaves, if it is good.                           *)
LEMMA TailGoesOn ==
  ASSUME NEW l, TailStream(l), NEW g, ReadsOn(file, g), g.good
  PROVE  file.good /\ g.pos > l.end[Size(l)] /\ g.pos >= file.pos
<1>1. image \in Images /\ IsStream(file) /\ IsStream(g)
  BY DEF TailStream, ReadsOn
<1>2. file.good /\ g.pos >= file.pos
  BY <1>1, Later
<1> PICK e \in Nat : e = l.end[Size(l)]
  BY DEF TailStream
<1>3. file.pos > e /\ file.pos \in Nat
  BY <1>2 DEF TailStream
<1>4. g.pos \in Nat
  BY <1>1, StreamType
<1> QED BY <1>2, <1>3, <1>4

LEMMA LoadedStays ==
  ASSUME NEW l, Loaded(l, Size(l)), database' = database
  PROVE  Loaded(l, Size(l))'
BY Zenon DEF Loaded

LEMMA IndicatorTail ==
  ASSUME RdbInv, NEW l, Layout(l), Ready(l), InTail(l), TailStream(l),
         NEW junk \in Byte, ReadIndicator(junk)
  PROVE  InTail(l)'
<1>0. image \in Images /\ IsStream(file)
  BY DEF TailStream
<1> PICK r : r = Fetch(file, 1, junk)
  OBVIOUS
<1>1. /\ pc' = "switch" /\ image' = image /\ database' = database
      /\ indicator' = r.val[1] /\ file' = r.file
  BY Zenon DEF ReadIndicator
<1>2. Loaded(l, Size(l))'
  BY <1>1, LoadedStays DEF InTail
<1>3. r.file.good => /\ file.good /\ file.pos \in 1..Len(image.bytes)
                     /\ r.val[1] = image.bytes[file.pos] /\ r.file = StreamFrom(file.pos + 1)
  BY <1>0, TailByte
<1>4. ASSUME file'.good
      PROVE  file'.pos > l.end[Size(l)] /\ (indicator' = 254 => No251')
  <2>1. PICK p \in 1..Len(image.bytes) : p = file.pos /\ file' = StreamFrom(p + 1)
    BY <1>1, <1>3, <1>4
  <2>2. PICK last \in Nat : last = l.end[Size(l)] /\ p > last
    BY <1>1, <1>3, <1>4, <2>1 DEF TailStream
  <2>3. file'.pos = p + 1
    BY <2>1 DEF StreamFrom
  <2>4. file'.pos > last
    BY <2>2, <2>3
  <2>5. indicator' = image.bytes[p]
    BY <1>1, <1>3, <1>4, <2>1
  <2>6. ASSUME image.bytes[p] = 254, NEW k \in (p + 1)..Len(image.bytes)
        PROVE  image.bytes[k] # 251
    <3>1. PICK len \in Nat : len = Len(image.bytes)
      BY Begins
    <3>2. PICK whole \in Nat : whole = Len(l.bytes) /\ len <= whole
      BY <3>1, LayoutBytes
    <3>3. p \in (last + 1)..whole /\ k \in (p + 1)..whole /\ k \in 1..len /\ p \in 1..len
      BY <2>2, <3>1, <3>2
    <3>4. l.bytes[p] = 254 /\ image.bytes[k] = l.bytes[k]
      BY <2>6, <3>1, <3>3, LayoutBytes
    <3>5. \A m \in (last + 1)..whole :
            l.bytes[m] = 254 => \A n \in (m + 1)..whole : l.bytes[n] # 251
      <4>1. \A m \in (l.end[Size(l)] + 1)..Len(l.bytes) :
              l.bytes[m] = 254 => \A n \in (m + 1)..Len(l.bytes) : l.bytes[n] # 251
        BY Zenon DEF Layout, Supported, Size
      <4> QED BY <2>2, <3>2, <4>1
    <3> QED BY <3>3, <3>4, <3>5
  <2>7. indicator' = 254 => No251'
    BY <1>1, <2>3, <2>5, <2>6 DEF No251
  <2> QED BY <2>2, <2>4, <2>7
<1>5. /\ pc' \in TailPcs /\ pc' \in {"loop", "switch", "attribute", "index", "done"}
      /\ pc' # "index" /\ pc' # "size" /\ pc' \notin {"expirySize", "table"}
  BY <1>1 DEF TailPcs
<1> QED BY <1>2, <1>4, <1>5, Zenon DEF InTail

(* The metadata the checksum may seem to hold.                             *)
LEMMA StringTail ==
  ASSUME RdbInv, NEW l, Ready(l), InTail(l), TailStream(l),
         NEW junk \in Byte, ReadAttribute(junk) \/ ReadMetaValue(junk)
  PROVE  InTail(l)'
<1> PICK r : r = ReadLengthPrefixedString(file, junk)
  OBVIOUS
<1>1. /\ pc' \in {"attribute", "loop", "done"} /\ image' = image /\ database' = database
      /\ file' = r.file
  BY DEF ReadAttribute, ReadMetaValue
<1>2. Loaded(l, Size(l))'
  BY <1>1, LoadedStays DEF InTail
<1>3. ReadsOn(file, r.file)
  BY StringReads DEF TailStream, Consumes
<1>4. file'.good => file'.pos > l.end[Size(l)]
  BY <1>1, <1>3, TailGoesOn, Zenon
<1>5. /\ pc' \in TailPcs /\ pc' \in {"loop", "switch", "attribute", "index", "done"}
      /\ pc' # "switch" /\ pc' # "index" /\ pc' # "size" /\ pc' \notin {"expirySize", "table"}
  BY <1>1 DEF TailPcs
<1> QED BY <1>2, <1>4, <1>5, Zenon DEF InTail

LEMMA IndexTail ==
  ASSUME RdbInv, NEW l, Ready(l), InTail(l), TailStream(l), NEW junk \in Byte, ReadIndex(junk)
  PROVE  InTail(l)'
<1>0. image \in Images /\ IsStream(file)
  BY DEF TailStream
<1> PICK b : b = Fetch(file, 1, junk)
  OBVIOUS
<1> PICK s : s = ReadSizeEncoded(b.file, b.val[1], junk)
  OBVIOUS
<1>1. /\ pc' = "index" /\ image' = image /\ database' = database
      /\ nextByte' = b.val[1] /\ file' = s.file /\ pc = "switch" /\ indicator = 254
  BY Zenon DEF ReadIndex
<1>2. Loaded(l, Size(l))'
  BY <1>1, LoadedStays DEF InTail
<1>3. b.val[1] \in Byte /\ ReadsOn(file, b.file) /\ IsStream(b.file)
  BY <1>0, ByteReads DEF Consumes
<1>4. ReadsOn(b.file, s.file)
  BY <1>0, <1>3, SizeReads
<1>5. ASSUME file'.good
      PROVE  file'.pos > l.end[Size(l)] /\ nextByte' # 251 /\ No251'
  <2>1. b.file.good /\ s.file.pos >= b.file.pos /\ IsStream(s.file)
    BY <1>0, <1>1, <1>3, <1>4, <1>5, Later DEF ReadsOn
  <2>2. b.file.pos > l.end[Size(l)] /\ file.good /\ b.file.pos >= file.pos
    BY <1>3, <2>1, TailGoesOn
  <2>3. file.pos \in 1..Len(image.bytes) /\ nextByte' = image.bytes[file.pos]
    BY <1>0, <1>1, <2>1, TailByte
  <2>4. No251
    BY <1>1, <2>2, Zenon DEF InTail
  <2>5. nextByte' # 251
    <3>1. file.pos \in file.pos..Len(image.bytes)
      BY <2>3
    <3> QED BY <2>3, <2>4, <3>1 DEF No251
  <2>6. /\ file.pos \in Nat /\ b.file.pos \in Nat /\ file'.pos \in Nat
        /\ Len(image.bytes) \in Nat /\ l.end[Size(l)] \in Nat
    BY <1>0, <1>1, <1>3, <2>1, StreamType DEF TailStream
  <2>7. No251'
    <3> SUFFICES ASSUME NEW k \in file'.pos..Len(image.bytes) PROVE image.bytes[k] # 251
      BY <1>1 DEF No251
    <3>1. k \in file.pos..Len(image.bytes)
      BY <1>1, <2>1, <2>2, <2>6
    <3> QED BY <2>4, <3>1 DEF No251
  <2>8. file'.pos > l.end[Size(l)]
    BY <1>1, <2>1, <2>2, <2>6
  <2> QED BY <2>5, <2>7, <2>8
<1>6. /\ pc' \in TailPcs /\ pc' \in {"loop", "switch", "attribute", "index", "done"}
      /\ pc' # "switch" /\ pc' # "size" /\ pc' \notin {"expirySize", "table"}
  BY <1>1 DEF TailPcs
<1> QED BY <1>2, <1>5, <1>6, Zenon DEF InTail

LEMMA HashTail ==
  ASSUME RdbInv, NEW l, Ready(l), InTail(l), TailStream(l), ReadHashIndicator
  PROVE  InTail(l)'
<1>0. image \in Images /\ IsStream(file) /\ nextByte \in Byte
  BY DEF TailStream
<1> PICK b : b = Fetch(file, 1, nextByte)
  OBVIOUS
<1>1. /\ pc' = IF b.val[1] = 251 THEN "size" ELSE "loop"
      /\ image' = image /\ database' = database
      /\ nextByte' = b.val[1] /\ file' = b.file /\ pc = "index"
  BY Zenon DEF ReadHashIndicator
<1>2. Loaded(l, Size(l))'
  BY <1>1, LoadedStays DEF InTail
<1>3. ReadsOn(file, b.file)
  BY <1>0, ByteReads DEF Consumes
<1>4. ASSUME file'.good
      PROVE  file'.pos > l.end[Size(l)] /\ pc' = "loop"
  <2>1. file.good /\ file'.pos > l.end[Size(l)]
    BY <1>1, <1>3, <1>4, TailGoesOn
  <2>2. file.pos \in 1..Len(image.bytes) /\ b.val[1] = image.bytes[file.pos]
    BY <1>0, <1>1, <1>4, TailByte
  <2>3. No251
    BY <1>1, <2>1, Zenon DEF InTail
  <2>4. b.val[1] # 251
    <3>1. file.pos \in file.pos..Len(image.bytes)
      BY <2>2
    <3> QED BY <2>2, <2>3, <3>1 DEF No251
  <2> QED BY <1>1, <2>1, <2>4
<1>5. /\ pc' \in TailPcs /\ pc' # "switch" /\ pc' # "index" /\ pc' \notin {"expirySize", "table"}
      /\ pc' = "loop" => pc' \in {"loop", "switch", "attribute", "index", "done"}
      /\ pc' = "size" => nextByte' = 251
  BY <1>1 DEF TailPcs
<1> QED BY <1>2, <1>4, <1>5, Zenon DEF InTail

(* The numbers of a table are read only from a stream that has failed: the *)
(* size is the low six bits of the 251 still in nextByte, as if written in *)
(* the fourth form, which is read as 0.                                    *)
LEMMA TailFailed ==
  ASSUME NEW l, InTail(l), pc \in {"size", "expirySize", "table"}
  PROVE  ~file.good
BY DEF InTail

LEMMA SizeTail ==
  ASSUME RdbInv, NEW l, Ready(l), InTail(l), TailStream(l), NEW junk \in Byte,
         ReadTableSize(junk)
  PROVE  InTail(l)'
<1>0. image \in Images /\ IsStream(file) /\ nextByte \in Byte
  BY DEF TailStream
<1> PICK b : b = Fetch(file, 1, nextByte)
  OBVIOUS
<1> PICK s : s = ReadSizeEncoded(b.file, b.val[1], junk)
  OBVIOUS
<1>1. /\ pc' = "expirySize" /\ image' = image /\ database' = database
      /\ tableSize' = s.size[1] /\ file' = s.file /\ pc = "size"
  BY Zenon DEF ReadTableSize
<1>2. Loaded(l, Size(l))'
  BY <1>1, LoadedStays DEF InTail
<1>3. ~file.good /\ nextByte = 251
  BY <1>1, TailFailed DEF InTail
<1>4. ~b.file.good /\ b.val[1] = 251
  BY <1>0, <1>3, TailByte
<1>5. s = [size |-> <<0>>, file |-> b.file]
  <2>1. 251 \div 64 = 3
    OBVIOUS
  <2>2. ReadSizeEncoded(b.file, 251, junk) = [size |-> <<0>>, file |-> b.file]
    BY <2>1 DEF ReadSizeEncoded
  <2> QED BY <1>4, <2>2
<1>6. tableSize' = 0 /\ ~file'.good
  BY <1>1, <1>4, <1>5
<1>7. pc' \in TailPcs /\ pc' # "switch" /\ pc' # "index" /\ pc' # "size"
  BY <1>1 DEF TailPcs
<1> QED BY <1>2, <1>6, <1>7, Zenon DEF InTail

LEMMA ExpiringTail ==
  ASSUME RdbInv, NEW l, Ready(l), InTail(l), TailStream(l), NEW junk \in Byte,
         ReadExpiryTableSize(junk)
  PROVE  InTail(l)'
<1>0. image \in Images /\ IsStream(file) /\ nextByte \in Byte
  BY DEF TailStream
<1> PICK b : b = Fetch(file, 1, nextByte)
  OBVIOUS
<1> PICK s : s = ReadSizeEncoded(b.file, b.val[1], junk)
  OBVIOUS
<1>1. /\ pc' = "table" /\ image' = image /\ database' = database
      /\ tableSize' = tableSize /\ file' = s.file /\ pc = "expirySize"
  BY Zenon DEF ReadExpiryTableSize
<1>2. Loaded(l, Size(l))'
  BY <1>1, LoadedStays DEF InTail
<1>3. ~file.good /\ tableSize = 0
  BY <1>1, TailFailed DEF InTail
<1>4. b.val[1] \in Byte /\ ReadsOn(file, b.file) /\ IsStream(b.file)
  BY <1>0, ByteReads DEF Consumes
<1>5. ReadsOn(b.file, s.file)
  BY <1>0, <1>4, SizeReads
<1>6. ~file'.good
  <2>1. s.file.good => b.file.good
    BY <1>0, <1>4, <1>5, Later
  <2>2. b.file.good => file.good
    BY <1>0, <1>4, Later
  <2> QED BY <1>1, <1>3, <2>1, <2>2
<1>7. pc' \in TailPcs /\ pc' # "switch" /\ pc' # "index" /\ pc' # "size"
  BY <1>1 DEF TailPcs
<1> QED BY <1>1, <1>2, <1>3, <1>6, <1>7, Zenon DEF InTail

LEMMA QuietTail ==
  ASSUME RdbInv, NEW l, InTail(l), EndOfFile \/ SkipIndicator \/ EndOfTable
  PROVE  InTail(l)'
<1>1. /\ pc' \in {"loop", "done"} /\ file' = file /\ image' = image /\ database' = database
  BY DEF EndOfFile, SkipIndicator, EndOfTable
<1>2. Loaded(l, Size(l))'
  BY <1>1, LoadedStays DEF InTail
<1>3. file'.good => file'.pos > l.end[Size(l)]
  BY <1>1, Zenon DEF InTail
<1>4. /\ pc' \in TailPcs /\ pc' \in {"loop", "switch", "attribute", "index", "done"}
      /\ pc' # "switch" /\ pc' # "index" /\ pc' # "size" /\ pc' \notin {"expirySize", "table"}
  BY <1>1 DEF TailPcs
<1> QED BY <1>2, <1>3, <1>4, Zenon DEF InTail

LEMMA TailStep ==
  ASSUME RdbInv, NEW l, Layout(l), Ready(l), InTail(l), Next
  PROVE  InTail(l)'
<1>0. TailStream(l) /\ Junk \subseteq Byte
  BY TailIs, JunkAssumption
<1>1. pc \in TailPcs
  BY DEF InTail
<1>2. CASE EndOfFile \/ SkipIndicator \/ EndOfTable
  BY <1>2, QuietTail
<1>3. ASSUME NEW junk \in Byte, ReadIndicator(junk) PROVE InTail(l)'
  BY <1>0, <1>3, IndicatorTail, Zenon
<1>4. ASSUME NEW junk \in Byte, ReadAttribute(junk) \/ ReadMetaValue(junk) PROVE InTail(l)'
  BY <1>0, <1>4, StringTail, Zenon
<1>5. ASSUME NEW junk \in Byte, ReadIndex(junk) PROVE InTail(l)'
  BY <1>0, <1>5, IndexTail, Zenon
<1>6. CASE ReadHashIndicator
  BY <1>0, <1>6, HashTail
<1>7. ASSUME NEW junk \in Byte, ReadTableSize(junk) PROVE InTail(l)'
  BY <1>0, <1>7, SizeTail, Zenon
<1>8. ASSUME NEW junk \in Byte, ReadExpiryTableSize(junk) PROVE InTail(l)'
  BY <1>0, <1>8, ExpiringTail, Zenon
<1>9. ASSUME NEW junk, ReadEntryType(junk) PROVE FALSE
  <2>1. pc = "table" /\ i < tableSize
    BY <1>9, Zenon DEF ReadEntryType
  <2>2. tableSize = 0
    BY <2>1, Zenon DEF InTail
  <2>3. i \in 0..255
    BY DEF RdbInv, RdbTypeOK
  <2> QED BY <2>1, <2>2, <2>3
<1>10. pc \in {"loop", "switch", "attribute", "index", "size", "expirySize", "table", "done"}
  BY <1>1 DEF TailPcs
<1> QED BY <1>0, <1>2, <1>3, <1>4, <1>5, <1>6, <1>7, <1>8, <1>9, <1>10, Turns

-----------------------------------------------------------------------------
(* The theorems                                                            *)

(* Every file of which anything is expected is one that Redis wrote within *)
(* what the loader supports, or what is left of one.                       *)
ExpectedImages ==
  \A img \in Images :
    Promises(img) => \E l : Written(l) /\ Supported(l) /\ ImageOf(img, l)

LEMMA LayoutReady ==
  ASSUME image \in Images, NEW l, Layout(l)
  PROVE  Ready(l)
BY FieldsFound, EntriesFound DEF Ready, Layout

LEMMA FormatInit ==
  ASSUME ExpectedImages, RdbInv, Init
  PROVE  FormatInv
<1>0. image \in Images
  BY DEF RdbInv
<1>1. CASE ~Promises(image)
  BY <1>1 DEF Promises, FormatInv, PromisesNothing, Complete
<1>2. CASE Promises(image)
  <2> PICK l : Layout(l)
    BY <1>0, <1>2, Zenon DEF ExpectedImages, Layout
  <2>1. Ready(l)
    BY <1>0, LayoutReady
  <2>2. CASE l.end[0] <= Len(image.bytes)
    <3>1. Opened /\ DOMAIN database = {}
      BY DEF Init, Opened, StreamFrom
    <3>2. InPrelude(l)
      BY <2>2, <3>1, Zenon DEF InPrelude, AtStart
    <3> QED BY <3>2, Zenon DEF FormatInv
  <2>3. CASE ~(l.end[0] <= Len(image.bytes))
    <3>0. Size(l) \in Nat /\ Len(image.entries) = Size(l)
      BY <2>1, EntriesAre, Zenon
    <3>1. ~image.whole
      <4>1. 0 \in 0..Size(l)
        BY <3>0
      <4> QED BY <2>1, <2>3, <4>1, WholeEnds
    <3>2. ASSUME NEW n \in Complete PROVE FALSE
      <4>1. n \in 1..Size(l) /\ l.end[n] <= Len(image.bytes)
        BY <2>1, <3>0, <3>2, EntriesAre DEF Complete
      <4>2. 0 \in 0..Size(l) /\ n \in 0..Size(l)
        BY <3>0, <4>1
      <4>3. l.end[0] <= l.end[n]
        BY <2>1, <4>2 DEF Ready, EntryEnds
      <4>4. l.end[0] \in Nat /\ l.end[n] \in Nat /\ Len(image.bytes) \in Nat
        BY <1>0, <2>1, <4>2, ImagesAssumption DEF Ready, EntryEnds
      <4> QED BY <2>3, <4>1, <4>3, <4>4
    <3>3. PromisesNothing
      BY <3>1, <3>2 DEF PromisesNothing
    <3> QED BY <3>3 DEF FormatInv
  <2> QED BY <2>2, <2>3
<1> QED BY <1>1, <1>2

LEMMA FormatStep ==
  ASSUME RdbInv, FormatInv, [Next]_vars
  PROVE  FormatInv'
<1>0. image \in Images
  BY DEF RdbInv
<1>1. CASE UNCHANGED vars
  <2>1. /\ image' = image /\ file' = file /\ pc' = pc /\ indicator' = indicator
        /\ nextByte' = nextByte /\ tableSize' = tableSize /\ i' = i /\ time' = time
        /\ key' = key /\ database' = database
    BY <1>1, Zenon DEF vars, dbLocals
  <2>2. \A l : /\ Layout(l) => Layout(l)'
               /\ InPrelude(l) => InPrelude(l)'
               /\ InTable(l) => InTable(l)'
               /\ InTail(l) => InTail(l)'
    <3> TAKE l
    <3>1. Layout(l) => Layout(l)'
      BY <2>1, Zenon DEF Layout
    <3>2. InPrelude(l) => InPrelude(l)'
      BY <2>1, Zenon DEF InPrelude, AtStart, Opened, AtField, AtName, AtValue, AtIndex, AtHash,
         AtSize, AtExpiring
    <3>3. \A n : Loaded(l, n) => Loaded(l, n)'
      BY <2>1, Zenon DEF Loaded
    <3>4. InTable(l) => InTable(l)'
      BY <2>1, <3>3, Zenon DEF InTable, Stopped, AtEntry, AtKey, AtEntryValue, InEntry
    <3>5. (No251 => No251') /\ (Loaded(l, Size(l)) => Loaded(l, Size(l))')
      BY <2>1, <3>3, Zenon DEF No251
    <3>6. InTail(l) => InTail(l)'
      BY <2>1, <3>5 DEF InTail
    <3> QED BY <3>1, <3>2, <3>4, <3>6, Zenon
  <2>3. Broken => Broken'
    BY <2>1, Zenon DEF Broken, Safe, Complete, Holds, OtherKey
  <2>4. PromisesNothing => PromisesNothing'
    BY <2>1, Zenon DEF PromisesNothing, Complete
  <2> QED BY <2>2, <2>3, <2>4, Zenon DEF FormatInv
<1>2. CASE Next
  <2>0. image' = image
    BY <1>2, ImageKept
  <2>1. CASE PromisesNothing
    <3>1. PromisesNothing'
      BY <2>0, <2>1, Zenon DEF PromisesNothing, Complete
    <3> QED BY <3>1 DEF FormatInv
  <2>2. ASSUME NEW l, Layout(l), InPrelude(l) \/ InTable(l) \/ InTail(l) \/ Broken
        PROVE  FormatInv'
    <3>1. Ready(l)
      BY <1>0, <2>2, LayoutReady
    <3>2. Layout(l)'
      BY <2>0, <2>2, Zenon DEF Layout
    <3>3. InPrelude(l)' \/ InTable(l)' \/ InTail(l)' \/ Broken'
      BY <1>2, <2>2, <3>1, PreludeStep, TableStep, TailStep, BrokenStep, Zenon
    <3> QED BY <3>2, <3>3, Zenon DEF FormatInv
  <2> QED BY <2>1, <2>2, Zenon DEF FormatInv
<1> QED BY <1>1, <1>2

LEMMA FormatGives ==
  ASSUME RdbInv, FormatInv
  PROVE  LoadedExactly /\ EntriesBeforeCutKept
<1>0. image \in Images
  BY DEF RdbInv
<1>1. CASE PromisesNothing
  BY <1>1 DEF PromisesNothing, Complete, LoadedExactly, EntriesBeforeCutKept
<1>2. ASSUME NEW l, Layout(l), InPrelude(l) \/ InTable(l) \/ InTail(l) \/ Broken
      PROVE  LoadedExactly /\ EntriesBeforeCutKept
  <2>0. Ready(l)
    BY <1>0, <1>2, LayoutReady
  <2>1. CASE pc # "done"
    BY <2>1 DEF LoadedExactly, EntriesBeforeCutKept
  <2>2. CASE pc = "done" /\ Loaded(l, Size(l))
    <3>1. Size(l) \in 0..Size(l) /\ Len(image.entries) = Size(l)
      BY <2>0, EntriesAre
    <3>2. \A n \in 1..Len(image.entries) : Holds(image.entries[n])
      BY <2>0, <2>2, <3>1, LoadedHolds
    <3>3. {l.db[n].key : n \in 1..Size(l)} = {image.entries[n].key : n \in 1..Len(image.entries)}
      <4>1. \A n \in 1..Size(l) : image.entries[n].key = l.db[n].key
        BY <2>0, EntriesAre, Zenon
      <4> QED BY <3>1, <4>1
    <3>4. DOMAIN database = {image.entries[n].key : n \in 1..Len(image.entries)}
      BY <2>2, <3>3, Zenon DEF Loaded
    <3> QED BY <3>2, <3>4, Zenon DEF LoadedExactly, EntriesBeforeCutKept
  <2>3. CASE Broken
    BY <2>3 DEF Broken, Safe, Complete, LoadedExactly, EntriesBeforeCutKept
  <2>4. InPrelude(l) => pc # "done"
    BY DEF InPrelude, AtStart, Opened, AtField, AtName, AtValue, AtIndex, AtHash, AtSize, AtExpiring
  <2>5. InTable(l) => pc # "done" \/ Loaded(l, Size(l))
    BY DEF InTable, Stopped, AtEntry, AtKey, AtEntryValue
  <2>6. InTail(l) => Loaded(l, Size(l))
    BY DEF InTail
  <2> QED BY <1>2, <2>1, <2>2, <2>3, <2>4, <2>5, <2>6
<1> QED BY <1>1, <1>2, Zenon DEF FormatInv

(* The loader is always at the place of the file it should be at, has      *)
(* loaded what comes before, and keeps it after the file ends.             *)
THEOREM FormatInvHolds ==
  ASSUME ExpectedImages
  PROVE  Spec => []FormatInv
<1>1. RdbInv /\ Init => FormatInv
  BY FormatInit
<1>2. RdbInv /\ FormatInv /\ [Next]_vars => FormatInv'
  BY FormatStep
<1> QED BY <1>1, <1>2, RdbInvHolds, PTL DEF Spec

(* A whole file's entries are in the database when the loader returns, and *)
(* nothing else is.                                                        *)
THEOREM LoadsExactly ==
  ASSUME ExpectedImages
  PROVE  Spec => []LoadedExactly
<1>1. RdbInv /\ FormatInv => LoadedExactly
  BY FormatGives
<1> QED BY <1>1, FormatInvHolds, RdbInvHolds, PTL

(* The entries before the place where a file is cut are loaded, and stay.  *)
THEOREM CutKeepsEntries ==
  ASSUME ExpectedImages
  PROVE  Spec => []EntriesBeforeCutKept
<1>1. RdbInv /\ FormatInv => EntriesBeforeCutKept
  BY FormatGives
<1> QED BY <1>1, FormatInvHolds, RdbInvHolds, PTL
=============================================================================
