----------------------------- MODULE MemoryProofs ------------------------------
(***************************************************************************)
(* Memory implements ByteArray: the arithmetic of src/machine/memory.rs    *)
(* covers every range in whole words, and what it charges adds up.         *)
(***************************************************************************)
EXTENDS Memory, TLAPS

-------------------------------------------------------------------------------
(* Quotients. *)

\* A larger factor, a larger product.
LEMMA Products ==
    ASSUME NEW d \in Nat \ {0}, NEW p \in Int, NEW q \in Int, p < q
    PROVE  d * p + d <= d * q
<1>1. q - p \in Nat \ {0}
  OBVIOUS
<1> DEFINE r == q - p
<1>2. d <= d * r
  <2> HIDE DEF r
  <2>1. r - 1 \in Nat /\ d * r = d * (r - 1) + d
    BY <1>1 DEF r
  <2>2. d * (r - 1) \in Nat
    BY <2>1
  <2> QED
    BY <2>1, <2>2
<1>3. d * q = d * p + d * r
  OBVIOUS
<1> QED
  BY <1>2, <1>3

\* What \div computes.
LEMMA Division ==
    ASSUME NEW a \in Nat, NEW d \in Nat \ {0}
    PROVE  a \div d \in Nat /\ d * (a \div d) <= a /\ a < d * (a \div d) + d
OBVIOUS

\* Nothing else lies there.
LEMMA Quotient ==
    ASSUME NEW a \in Nat, NEW d \in Nat \ {0}, NEW q \in Int, d * q <= a, a < d * q + d
    PROVE  a \div d = q
<1> DEFINE p == a \div d
<1>1. p \in Nat /\ d * p <= a /\ a < d * p + d
  BY Division
<1> HIDE DEF p
<1>2. ~(p < q)
  BY <1>1, Products
<1>3. ~(q < p)
  BY <1>1, Products
<1> QED
  BY <1>1, <1>2, <1>3 DEF p

\* What it means to be a whole number of words.
Whole(n) == \E k \in Nat : n = WordBytes * k

LEMMA UsizeWhole == Whole(UsizeMod)
<1>1. UsizeMod \in Nat /\ WordBytes \in Nat \ {0} /\ UsizeMod % WordBytes = 0
  BY UsizeAssumption, WordBytesAssumption
<1>2. UsizeMod = WordBytes * (UsizeMod \div WordBytes) /\ UsizeMod \div WordBytes \in Nat
  BY <1>1
<1> QED
  BY <1>2 DEF Whole

-------------------------------------------------------------------------------
(* What an extension covers. *)

\* The size that covers the range o .. o + n - 1 and len bytes.
CoveredBy(len, o, n) ==
    LET words == (o + n + WordBytes - 1) \div WordBytes
    IN  IF o + n <= len THEN len ELSE words * WordBytes

\* The extension covers the range in whole words, unless it ends in the last word of
\* the address space: then nothing is extended.
LEMMA Coverage ==
    ASSUME NEW len \in Nat, Whole(len), len < UsizeMod, NEW o \in Nat, NEW n \in Nat,
           InBounds(o, n)
    PROVE  /\ Whole(CoveredBy(len, o, n)) /\ CoveredBy(len, o, n) \in Nat
           /\ LenAfter(len, o, n) \in Nat /\ Whole(LenAfter(len, o, n))
           /\ len <= LenAfter(len, o, n)
           /\ \/ /\ LenAfter(len, o, n) = CoveredBy(len, o, n)
                 /\ o + n < UsizeMod /\ o + n <= LenAfter(len, o, n)
              \/ /\ LenAfter(len, o, n) = len /\ CoveredBy(len, o, n) = UsizeMod
                 /\ o + n > UsizeMod - WordBytes /\ len < o + n
<1> DEFINE W == WordBytes
           U == UsizeMod
           e == End(o, n)
           total == o + n + WordBytes - 1
           cover == total \div WordBytes
<1>1. W \in Nat \ {0} /\ U \in Nat \ {0}
  BY WordBytesAssumption, UsizeAssumption
<1>2. PICK k \in Nat : len = W * k
  BY DEF Whole
<1>3. PICK u \in Nat : U = W * u
  BY UsizeWhole DEF Whole
<1>4. o + n <= U /\ o < U /\ n < U
  BY <1>1 DEF InBounds, Usize
<1>5. CASE o + n <= len
  <2>1. e = o + n
    BY <1>1, <1>5 DEF End
  <2>2. LenAfter(len, o, n) = len
    BY <1>5, <2>1 DEF LenAfter, ExtensionSize
  <2>3. CoveredBy(len, o, n) = len
    BY <1>5 DEF CoveredBy
  <2> QED
    BY <1>1, <1>5, <2>2, <2>3
<1>6. CASE o + n = U
  <2>1. e = 0
    BY <1>1, <1>6 DEF End
  <2>2. LenAfter(len, o, n) = len
    BY <2>1 DEF LenAfter, ExtensionSize
  <2>3. cover = u
    <3>1. W * u <= o + n + W - 1 /\ o + n + W - 1 < W * u + W /\ o + n + W - 1 \in Nat
      BY <1>1, <1>3, <1>6
    <3> QED
      BY <1>1, <3>1, Quotient
  <2>4. CoveredBy(len, o, n) = U
    BY <1>1, <1>3, <1>6, <2>3 DEF CoveredBy
  <2>5. o + n > U - W
    BY <1>1, <1>6
  <2> QED
    BY <1>1, <1>6, <2>2, <2>4, <2>5, UsizeWhole
<1>7. CASE len < o + n /\ o + n < U
  <2> DEFINE gap == o + n - len - 1
             q   == gap \div W
             raw == (q + 1) * W
  <2>1. e = o + n
    BY <1>1, <1>7 DEF End
  <2>2. gap \in Nat
    BY <1>7
  <2>3. q \in Nat /\ W * q <= gap /\ gap < W * q + W
    BY <1>1, <2>2, Division
  <2>4. ExtensionSize(len, o, n) = raw % U
    BY <1>7, <2>1 DEF ExtensionSize
  <2> HIDE DEF q
  <2>5. /\ W * q \in Nat /\ W * k \in Nat /\ W * u \in Nat
        /\ W * (q + 1 + k) = W * q + W + W * k /\ raw = W * q + W
        /\ (q + 1 + k) * W = W * q + W + W * k
    BY <1>1, <2>3
  <2> DEFINE all == q + 1 + k
  <2>6. cover = all
    <3>1. W * all <= total /\ total < W * all + W /\ total \in Nat
      BY <1>1, <1>2, <2>3, <2>5
    <3>2. all \in Int
      BY <2>3
    <3> HIDE DEF all, total
    <3> QED
      BY <1>1, <3>1, <3>2, Quotient
  <2>7. CoveredBy(len, o, n) = len + raw
    <3>1. CoveredBy(len, o, n) = cover * W
      BY <1>7 DEF CoveredBy
    <3>2. CoveredBy(len, o, n) = (q + 1 + k) * W
      BY <2>6, <3>1
    <3> HIDE DEF raw
    <3> QED
      BY <1>1, <1>2, <2>3, <2>5, <3>2
  <2>8. len + raw <= U /\ len + raw >= o + n
    <3>1. ~(u < q + 1 + k)
      <4>1. SUFFICES ASSUME u < q + 1 + k
                     PROVE  FALSE
        OBVIOUS
      <4>2. W * u + W <= W * (q + 1 + k)
        BY <1>1, <2>3, <4>1, Products
      <4> QED
        BY <1>1, <1>2, <1>3, <1>7, <2>3, <2>5, <4>2
    <3>2. q + 1 + k = u \/ W * (q + 1 + k) + W <= W * u
      BY <1>1, <2>3, <3>1, Products
    <3> QED
      BY <1>1, <1>2, <1>3, <2>3, <2>5, <3>2
  <2>9. Whole(len + raw) /\ len + raw \in Nat /\ raw \in Nat
    <3> HIDE DEF raw
    <3>1. len + raw = W * (q + 1 + k)
      BY <1>2, <2>5
    <3>2. q + 1 + k \in Nat /\ raw \in Nat
      BY <1>1, <2>3, <2>5
    <3> QED
      BY <3>1, <3>2 DEF Whole
  <2> HIDE DEF raw
  <2>10. CASE raw < U
    <3>1. raw % U = raw
      BY <1>1, <2>9, <2>10
    <3>2. LenAfter(len, o, n) = len + raw
      BY <2>4, <3>1 DEF LenAfter
    <3> QED
      BY <1>7, <2>7, <2>8, <2>9, <3>2
  <2>11. CASE raw = U
    <3>1. raw % U = 0 /\ len = 0
      BY <1>1, <2>8, <2>11
    <3>2. LenAfter(len, o, n) = len
      BY <2>4, <3>1 DEF LenAfter
    <3>3. CoveredBy(len, o, n) = U
      BY <1>1, <2>7, <2>11, <3>1
    <3>4. o + n > U - W
      BY <1>1, <2>3, <2>5, <2>11, <3>1 DEF raw
    <3> QED
      BY <1>7, <2>9, <3>2, <3>3, <3>4, UsizeWhole, <1>1
  <2> QED
    BY <2>8, <2>9, <2>10, <2>11, <1>1
<1> QED
  BY <1>1, <1>4, <1>5, <1>6, <1>7

-------------------------------------------------------------------------------
(* The invariant: the memory is made of whole words, can be allocated and has been
   paid for.                                                                    *)

Sound ==
    /\ Len(bytes) \in Nat /\ Whole(Len(bytes)) /\ Len(bytes) <= AllocLimit
    /\ charged = MemoryCost(Len(bytes))

\* A size costs a natural number.
LEMMA MemoryCostNat ==
    ASSUME NEW n \in Nat
    PROVE  MemoryCost(n) \in Nat
<1>1. n + WordBytes - 1 \in Nat /\ WordBytes \in Nat \ {0}
  BY WordBytesAssumption
<1>2. Words(n) \in Nat
  BY <1>1, Division DEF Words
<1>3. Words(n) * Words(n) \in Nat
  BY <1>2
<1>4. (Words(n) * Words(n)) \div 512 \in Nat
  BY <1>3, Division
<1> QED
  BY <1>2, <1>4 DEF MemoryCost

\* What can be allocated is well within the address space, in whole words.
LEMMA AllocatedBelow ==
    /\ AllocLimit \in Nat /\ UsizeMod \in Nat \ {0} /\ WordBytes \in Nat \ {0}
    /\ AllocLimit < UsizeMod
BY AllocAssumption, UsizeAssumption, WordBytesAssumption

\* The size of what a call leaves, and of what a load returns.
LEMMA CallLengths ==
    ASSUME NEW mem, Len(mem) \in Nat, NEW o \in Nat, NEW n \in Nat, NEW data,
           LenAfter(Len(mem), o, n) \in Nat
    PROVE  /\ Len(Extended(mem, o, n)) = LenAfter(Len(mem), o, n)
           /\ Len(Written(mem, o, n, data)) = LenAfter(Len(mem), o, n)
           /\ Len(Read(mem, o, n)) = n
BY DEF Extended, Written, Read

\* The bytes that a position shows, of memory mem.
Shown(mem) == [p \in Positions |-> IF p < Len(mem) THEN mem[p + 1] ELSE 0]

\* An extension shows nothing new.
LEMMA ExtendedShows ==
    ASSUME NEW mem, Len(mem) \in Nat, NEW o \in Nat, NEW n \in Nat,
           LenAfter(Len(mem), o, n) \in Nat, Len(mem) <= LenAfter(Len(mem), o, n)
    PROVE  Shown(Extended(mem, o, n)) = Shown(mem)
<1> DEFINE len == Len(mem)
           new == LenAfter(len, o, n)
           ext == Extended(mem, o, n)
<1>1. Len(ext) = new
  BY CallLengths
<1>2. \A p \in Nat : p < new => ext[p + 1] = IF p < len THEN mem[p + 1] ELSE 0
  BY DEF Extended
<1> HIDE DEF ext, new
<1>3. Positions \subseteq Nat
  BY PositionsAssumption, UsizeAssumption DEF Usize
<1> QED
  BY <1>1, <1>2, <1>3 DEF Shown, ext, new

\* A load answers the bytes that are shown in its range.
LEMMA ReadShows ==
    ASSUME NEW mem, Len(mem) \in Nat, NEW o \in Nat, NEW n \in Nat,
           NEW p \in Positions, p \in o .. o + n - 1
    PROVE  Read(mem, o, n)[p - o + 1] = Shown(mem)[p]
<1>1. p \in Nat /\ p - o + 1 \in 1 .. n /\ o + (p - o + 1) = p + 1
  BY PositionsAssumption, UsizeAssumption DEF Usize
<1>2. Read(mem, o, n)[p - o + 1] = IF p + 1 <= Len(mem) THEN mem[p + 1] ELSE 0
  BY <1>1 DEF Read
<1> QED
  BY <1>1, <1>2 DEF Shown

\* A store that covers its range shows its bytes there, padded with zeros, and
\* nothing new elsewhere.
LEMMA WrittenShows ==
    ASSUME NEW mem, Len(mem) \in Nat, NEW o \in Nat, NEW n \in Nat, NEW data,
           Len(data) \in Nat,
           LenAfter(Len(mem), o, n) \in Nat, Len(mem) <= LenAfter(Len(mem), o, n),
           n = 0 \/ o + n <= LenAfter(Len(mem), o, n)
    PROVE  Shown(Written(mem, o, n, data)) =
               [p \in Positions |->
                   IF p \notin o .. o + n - 1 THEN Shown(mem)[p]
                   ELSE IF p - o < Len(data) THEN data[p - o + 1] ELSE 0]
<1> DEFINE len == Len(mem)
           new == LenAfter(len, o, n)
           wri == Written(mem, o, n, data)
<1>1. Len(wri) = new
  BY CallLengths
<1>2. \A p \in Nat : p < new =>
          wri[p + 1] = IF p + 1 \in o + 1 .. o + n
                       THEN IF p + 1 - o <= Len(data) THEN data[p + 1 - o] ELSE 0
                       ELSE IF p + 1 <= len THEN mem[p + 1] ELSE 0
  BY DEF Written
<1>3. Positions \subseteq Nat
  BY PositionsAssumption, UsizeAssumption DEF Usize
<1> HIDE DEF wri, new
<1>4. ASSUME NEW p \in Positions
      PROVE  Shown(wri)[p] = IF p \notin o .. o + n - 1 THEN Shown(mem)[p]
                             ELSE IF p - o < Len(data) THEN data[p - o + 1] ELSE 0
  <2>1. p \in Nat /\ new \in Nat /\ len <= new /\ (n = 0 \/ o + n <= new)
    BY <1>3 DEF new
  <2>2. /\ Shown(wri)[p] = IF p < new THEN wri[p + 1] ELSE 0
        /\ Shown(mem)[p] = IF p < len THEN mem[p + 1] ELSE 0
    BY <1>1 DEF Shown
  <2>3. CASE p \in o .. o + n - 1
    <3>1. p < new /\ p + 1 \in o + 1 .. o + n /\ p + 1 - o = p - o + 1
      BY <2>1, <2>3
    <3>2. wri[p + 1] = IF p - o < Len(data) THEN data[p - o + 1] ELSE 0
      BY <1>2, <2>1, <3>1
    <3> QED
      BY <2>2, <2>3, <3>1, <3>2
  <2>4. CASE p \notin o .. o + n - 1
    <3>1. p + 1 \notin o + 1 .. o + n
      BY <2>1, <2>4
    <3>2. p < new => wri[p + 1] = IF p < len THEN mem[p + 1] ELSE 0
      BY <1>2, <2>1, <3>1
    <3> QED
      BY <2>1, <2>2, <2>4, <3>2
  <2> QED
    BY <2>3, <2>4
<1> HIDE DEF wri
<1>5. Shown(wri) = [p \in Positions |-> Shown(wri)[p]]
  BY DEF Shown
<1>6. Shown(wri) = [p \in Positions |->
                       IF p \notin o .. o + n - 1 THEN Shown(mem)[p]
                       ELSE IF p - o < Len(data) THEN data[p - o + 1] ELSE 0]
  BY <1>4, <1>5
<1> QED
  BY <1>6 DEF wri

-------------------------------------------------------------------------------
(* The steps. *)

\* The size that ByteArray covers a range with.
LEMMA SameCover ==
    \A o, n : Array!Covered(o, n) = CoveredBy(Len(bytes), o, n)
BY DEF Array!Covered, CoveredBy

\* ByteArray sees the memory as it is shown.
LEMMA Content ==
    [p \in Positions |-> IF p < Len(bytes) THEN bytes[p + 1] ELSE 0] = Shown(bytes)
BY DEF Shown

\* A range that is in bounds exists.
LEMMA BoundsExist ==
    ASSUME NEW o \in Nat, NEW n \in Nat
    PROVE  InBounds(o, n) <=> Array!Exists(o, n)
BY UsizeAssumption DEF InBounds, Usize, Array!Exists

\* A range that is in bounds and makes the call panic cannot be allocated ...
LEMMA PanicDoesNotFit ==
    ASSUME Sound, NEW o \in Nat, NEW n \in Nat, InBounds(o, n),
           WritePanics(Len(bytes), o, n)
    PROVE  ~Array!Fits(o, n)
<1> DEFINE len == Len(bytes)
<1>1. len \in Nat /\ Whole(len) /\ len < UsizeMod /\ len <= AllocLimit
  BY AllocatedBelow DEF Sound
<1>2. /\ \/ /\ LenAfter(len, o, n) = CoveredBy(len, o, n)
            /\ o + n < UsizeMod /\ o + n <= LenAfter(len, o, n)
         \/ /\ LenAfter(len, o, n) = len /\ CoveredBy(len, o, n) = UsizeMod
            /\ o + n > UsizeMod - WordBytes /\ len < o + n
  BY <1>1, Coverage
<1>3. \/ o + n >= UsizeMod \/ LenAfter(len, o, n) > AllocLimit \/ n > AllocLimit
      \/ n > 0 /\ o + n > LenAfter(len, o, n)
  BY DEF WritePanics, AccessPanics
<1>4. CoveredBy(len, o, n) \in Nat /\ LenAfter(len, o, n) \in Nat
  BY <1>1, Coverage
<1> HIDE DEF len
<1>5. CoveredBy(len, o, n) > AllocLimit \/ n > AllocLimit
  <2> DEFINE after == LenAfter(len, o, n)
             cover == CoveredBy(len, o, n)
  <2>1. CASE after = cover /\ o + n < UsizeMod /\ o + n <= after
    <3>1. after \in Nat /\ cover \in Nat
      BY <1>4
    <3>2. \/ o + n >= UsizeMod \/ after > AllocLimit \/ n > AllocLimit
          \/ n > 0 /\ o + n > after
      BY <1>3
    <3> HIDE DEF after, cover
    <3>3. cover > AllocLimit \/ n > AllocLimit
      BY <2>1, <3>1, <3>2, AllocatedBelow
    <3> QED
      BY <3>3 DEF cover
  <2>2. CASE cover = UsizeMod
    BY <2>2, AllocatedBelow
  <2> QED
    BY <1>2, <2>1, <2>2
<1>6. ~(CoveredBy(len, o, n) <= AllocLimit /\ n <= AllocLimit)
  BY <1>4, <1>5, AllocatedBelow
<1> QED
  BY <1>6, SameCover DEF Array!Fits, len

\* A call that fails, by a panic or for its bounds.
LEMMA FailIsArray ==
    ASSUME Sound, NEW o \in Nat, NEW n \in Nat, NEW status,
           \/ status = LoadStatus(Len(bytes), o, n)
           \/ status = StoreStatus(Len(bytes), o, n),
           status # "ok", Fail(status)
    PROVE  Sound' /\ (Array!Refuse(o, n) \/ Array!Die(o, n))
<1>1. Sound' /\ reply'.status = status /\ UNCHANGED <<bytes, charged>>
  BY DEF Fail, Sound, Reply
<1>2. CASE ~InBounds(o, n)
  <2>1. status = "MemoryOutOfBounds"
    BY <1>2 DEF LoadStatus, StoreStatus
  <2> QED
    BY <1>1, <1>2, <2>1, BoundsExist DEF Array!Refuse
<1>3. CASE InBounds(o, n)
  <2>1. status = "panic" /\ WritePanics(Len(bytes), o, n)
    BY <1>3 DEF LoadStatus, StoreStatus, WritePanics
  <2> QED
    BY <1>1, <1>3, <2>1, BoundsExist, PanicDoesNotFit DEF Array!Die
<1> QED
  BY <1>2, <1>3

\* A call that succeeds extends the memory as ByteArray does, or it reaches into the
\* last word of the address space and extends it by nothing.
LEMMA AnswerExtends ==
    ASSUME Sound, NEW o \in Nat, NEW n \in Nat, InBounds(o, n),
           ~AccessPanics(Len(bytes), o, n),
           Len(bytes') = LenAfter(Len(bytes), o, n), NEW data, Answer(o, n, data)
    PROVE  /\ Sound' /\ reply'.status = "ok" /\ reply'.result = data
           /\ \/ Array!Extend(o, n) /\ o + n <= LenAfter(Len(bytes), o, n)
              \/ /\ LenAfter(Len(bytes), o, n) = Len(bytes)
                 /\ Array!Exists(o, n) /\ o + n > UsizeMod - WordBytes
                 /\ reply'.extension_cost = 0 /\ n <= AllocLimit
                 /\ UNCHANGED <<Len(bytes), charged>>
                 /\ Len(bytes) < o + n
<1> DEFINE len == Len(bytes)
           new == LenAfter(len, o, n)
           cost == ExpansionCost(len, o, n)
<1>1. len \in Nat /\ Whole(len) /\ len < UsizeMod /\ len <= AllocLimit
      /\ charged = MemoryCost(len)
  BY AllocatedBelow DEF Sound
<1>2. /\ new \in Nat /\ Whole(new)
      /\ \/ new = CoveredBy(len, o, n) /\ o + n < UsizeMod /\ o + n <= new
         \/ /\ new = len /\ CoveredBy(len, o, n) = UsizeMod
            /\ o + n > UsizeMod - WordBytes /\ len < o + n
  BY <1>1, Coverage
<1>3. ~(new > AllocLimit) /\ ~(n > AllocLimit)
  BY DEF AccessPanics
<1>4. new <= AllocLimit /\ n <= AllocLimit
  BY <1>2, <1>3, AllocatedBelow
<1>5. MemoryCost(len) \in Nat /\ MemoryCost(new) \in Nat
  BY <1>1, <1>2, MemoryCostNat
<1>6. cost = MemoryCost(new) - MemoryCost(len)
  BY DEF ExpansionCost
<1>7. /\ reply'.status = "ok" /\ reply'.result = data /\ reply'.extension_cost = cost
      /\ charged' = charged + cost
  BY DEF Answer, Reply
<1>8. Len(bytes') = new
  OBVIOUS
<1> HIDE DEF cost, new, len
<1>9. charged' = MemoryCost(new)
  BY <1>1, <1>5, <1>6, <1>7
<1>10. Sound'
  BY <1>2, <1>4, <1>8, <1>9 DEF Sound
<1>11. Array!Exists(o, n)
  BY BoundsExist
<1>12. CASE new = CoveredBy(len, o, n) /\ o + n < UsizeMod /\ o + n <= new
  <2>1. Array!Covered(o, n) = new
    BY <1>12, SameCover DEF len
  <2>2. Array!Fits(o, n)
    BY <1>4, <2>1 DEF Array!Fits
  <2>3. charged' - charged = cost
    BY <1>1, <1>5, <1>6, <1>9
  <2>4. Array!Extend(o, n)
    BY <1>7, <1>8, <1>9, <1>11, <2>1, <2>2, <2>3 DEF Array!Extend
  <2> QED
    BY <1>7, <1>10, <1>12, <2>4 DEF new, len
<1>13. CASE new = len /\ o + n > UsizeMod - WordBytes /\ len < o + n
  <2>1. cost = 0 /\ charged' = charged
    BY <1>1, <1>5, <1>6, <1>9, <1>13
  <2> QED
    BY <1>4, <1>7, <1>8, <1>10, <1>11, <1>13, <2>1 DEF new, len
<1> QED
  BY <1>2, <1>12, <1>13

\* A load.
LEMMA LoadIsArray ==
    ASSUME Sound, NEW o \in Nat, NEW n \in Nat, LoadRange(o, n)
    PROVE  Sound' /\ ((Array!Extend(o, n) /\ Array!Load(o, n)) \/ Array!FreeLoad(o, n))
<1>1. InBounds(o, n) /\ ~AccessPanics(Len(bytes), o, n)
  BY DEF LoadRange, LoadStatus
<1>2. Len(bytes) \in Nat /\ Whole(Len(bytes)) /\ Len(bytes) < UsizeMod
  BY AllocatedBelow DEF Sound
<1>3. LenAfter(Len(bytes), o, n) \in Nat /\ Len(bytes) <= LenAfter(Len(bytes), o, n)
  BY <1>1, <1>2, Coverage
<1>4. bytes' = Extended(bytes, o, n) /\ Answer(o, n, Read(bytes, o, n))
      /\ call'.kind = "load"
  BY DEF LoadRange, Called
<1>5. Len(bytes') = LenAfter(Len(bytes), o, n) /\ Len(Read(bytes, o, n)) = n
  BY <1>2, <1>3, <1>4, CallLengths
<1>6. Shown(bytes') = Shown(bytes)
  BY <1>2, <1>3, <1>4, ExtendedShows
<1>7. \A p \in Positions : p \in o .. o + n - 1 =>
          Read(bytes, o, n)[p - o + 1] = Shown(bytes)[p]
  BY <1>2, ReadShows
<1>8. /\ Sound' /\ reply'.status = "ok" /\ reply'.result = Read(bytes, o, n)
      /\ \/ Array!Extend(o, n)
         \/ /\ Array!Exists(o, n) /\ o + n > UsizeMod - WordBytes
            /\ reply'.extension_cost = 0 /\ n <= AllocLimit
            /\ UNCHANGED <<Len(bytes), charged>>
  BY <1>1, <1>4, <1>5, AnswerExtends
<1>9. Array!Load(o, n)
  BY <1>4, <1>5, <1>6, <1>7, <1>8 DEF Array!Load, Shown
<1> QED
  BY <1>8, <1>9 DEF Array!FreeLoad

\* A store.
LEMMA StoreIsArray ==
    ASSUME Sound, NEW o \in Nat, NEW n \in Nat, NEW data, Len(data) \in Nat,
           StoreRange(o, n, data)
    PROVE  Sound' /\ ((Array!Extend(o, n) /\ Array!Store(o, n, data)) \/ Array!FreeStore(o, n))
<1>1. /\ InBounds(o, n) /\ ~AccessPanics(Len(bytes), o, n)
      /\ ~(n > 0 /\ o + n > LenAfter(Len(bytes), o, n))
  BY DEF StoreRange, StoreStatus, WritePanics
<1>2. Len(bytes) \in Nat /\ Whole(Len(bytes)) /\ Len(bytes) < UsizeMod
  BY AllocatedBelow DEF Sound
<1>3. LenAfter(Len(bytes), o, n) \in Nat /\ Len(bytes) <= LenAfter(Len(bytes), o, n)
  BY <1>1, <1>2, Coverage
<1>4. bytes' = Written(bytes, o, n, data) /\ Answer(o, n, NoBytes) /\ call'.kind = "store"
  BY DEF StoreRange, Called
<1>5. Len(bytes') = LenAfter(Len(bytes), o, n)
  BY <1>2, <1>3, <1>4, CallLengths
<1>6. n = 0 \/ o + n <= LenAfter(Len(bytes), o, n)
  <2> DEFINE after == LenAfter(Len(bytes), o, n)
  <2>1. after \in Nat /\ ~(n > 0 /\ o + n > after)
    BY <1>1, <1>3
  <2> HIDE DEF after
  <2>2. n = 0 \/ o + n <= after
    BY <2>1
  <2> QED
    BY <2>2 DEF after
<1>7. Shown(bytes') =
          [p \in Positions |->
              IF p \notin o .. o + n - 1 THEN Shown(bytes)[p]
              ELSE IF p - o < Len(data) THEN data[p - o + 1] ELSE 0]
  BY <1>2, <1>3, <1>4, <1>6, WrittenShows
<1>8. /\ Sound' /\ reply'.status = "ok"
      /\ \/ Array!Extend(o, n)
         \/ /\ LenAfter(Len(bytes), o, n) = Len(bytes)
            /\ Array!Exists(o, n) /\ o + n > UsizeMod - WordBytes
            /\ reply'.extension_cost = 0
            /\ UNCHANGED <<Len(bytes), charged>>
            /\ Len(bytes) < o + n
  BY <1>1, <1>4, <1>5, AnswerExtends
<1>9. Array!Store(o, n, data)
  BY <1>4, <1>7 DEF Array!Store, Shown
<1>10. ASSUME LenAfter(Len(bytes), o, n) = Len(bytes), Len(bytes) < o + n
       PROVE  n = 0 /\ Shown(bytes') = Shown(bytes)
  <2> DEFINE len == Len(bytes)
  <2>1. n = 0
    <3>1. len \in Nat /\ len < o + n /\ (n = 0 \/ o + n <= len)
      BY <1>2, <1>6, <1>10
    <3> HIDE DEF len
    <3> QED
      BY <3>1
  <2>2. \A p \in Positions : p \notin o .. o + n - 1
    BY <2>1
  <2>3. Shown(bytes') = [p \in Positions |-> Shown(bytes)[p]]
    BY <1>7, <2>2
  <2> QED
    BY <2>1, <2>3 DEF Shown
<1>11. Array!Extend(o, n) \/ Array!FreeStore(o, n)
  BY <1>4, <1>8, <1>10, Content DEF Array!FreeStore, Shown
<1> QED
  BY <1>8, <1>9, <1>11

\* Every call is one of the array: it does what it was asked for.
LEMMA LoadCallIsArray ==
    ASSUME Sound, NEW o \in Nat, NEW n \in Nat, LoadRange(o, n) \/ LoadFails(o, n)
    PROVE  Sound' /\ Array!ArrayNext
<1>1. reply.status # "panic" /\ call'.offset = o /\ call'.size = n
  BY DEF LoadRange, LoadFails, Called
<1>2. CASE LoadRange(o, n)
  BY <1>1, <1>2, LoadIsArray DEF Array!ArrayNext, Array!Access
<1>3. CASE LoadFails(o, n)
  <2>1. Sound' /\ (Array!Refuse(o, n) \/ Array!Die(o, n))
    BY <1>3, FailIsArray DEF LoadFails
  <2> QED
    BY <1>1, <2>1 DEF Array!ArrayNext, Array!Access
<1> QED
  BY <1>2, <1>3

\* The same of a store.
LEMMA StoreCallIsArray ==
    ASSUME Sound, NEW o \in Nat, NEW n \in Nat, NEW data, Len(data) \in Nat,
           Store(o, n, data)
    PROVE  Sound' /\ Array!ArrayNext
<1>1. reply.status # "panic" /\ call'.offset = o /\ call'.size = n /\ call'.bytes = data
  BY DEF Store, StoreRange, StoreFails, Called
<1>2. CASE StoreRange(o, n, data)
  <2>1. Sound' /\ ((Array!Extend(o, n) /\ Array!Store(o, n, data)) \/ Array!FreeStore(o, n))
    BY <1>2, StoreIsArray
  <2>2. Array!Store(o, n, data) => Array!Store(call'.offset, call'.size, call'.bytes)
    BY <1>1 DEF Array!Store
  <2> QED
    BY <1>1, <2>1, <2>2 DEF Array!ArrayNext, Array!Access
<1>3. CASE StoreFails(o, n, data)
  <2>1. Sound' /\ (Array!Refuse(o, n) \/ Array!Die(o, n))
    BY <1>3, FailIsArray DEF StoreFails
  <2> QED
    BY <1>1, <2>1 DEF Array!ArrayNext, Array!Access
<1> QED
  BY <1>2, <1>3 DEF Store

\* Every step is one of the array.
LEMMA NextIsArray ==
    ASSUME Sound, MemoryNext
    PROVE  Sound' /\ Array!ArrayNext
<1>1. WordBytes \in Nat /\ 1 \in Nat
  BY WordBytesAssumption
<1>2. PICK o \in Offsets :
          \/ LoadWord(o)
          \/ \E size \in Sizes : Load(o, size)
          \/ \E data \in Data :
                \/ StoreWord(o, data) \/ StoreByte(o, data)
                \/ \E size \in Sizes : Store(o, size, data)
  BY DEF MemoryNext
<1>3. o \in Nat
  BY CallsAssumption
<1>4. CASE LoadWord(o)
  BY <1>1, <1>3, <1>4, LoadCallIsArray DEF LoadWord
<1>5. ASSUME NEW size \in Sizes, Load(o, size)
      PROVE  Sound' /\ Array!ArrayNext
  BY <1>3, <1>5, CallsAssumption, LoadCallIsArray DEF Load
<1>6. ASSUME NEW data \in Data, StoreWord(o, data)
      PROVE  Sound' /\ Array!ArrayNext
  BY <1>1, <1>3, <1>6, CallsAssumption, StoreCallIsArray DEF StoreWord
<1>7. ASSUME NEW data \in Data, StoreByte(o, data)
      PROVE  Sound' /\ Array!ArrayNext
  <2>1. Len(<<data[WordBytes]>>) \in Nat
    OBVIOUS
  <2> QED
    BY <1>1, <1>3, <1>7, <2>1, StoreCallIsArray DEF StoreByte
<1>8. ASSUME NEW data \in Data, NEW size \in Sizes, Store(o, size, data)
      PROVE  Sound' /\ Array!ArrayNext
  BY <1>3, <1>8, CallsAssumption, StoreCallIsArray
<1> QED
  BY <1>2, <1>4, <1>5, <1>6, <1>7, <1>8

\* No memory, nothing to pay.
LEMMA NoMemoryFree == MemoryCost(0) = 0
<1> DEFINE q == Words(0)
<1>1. WordBytes \in Nat \ {0} /\ 0 + WordBytes - 1 \in Nat
  BY WordBytesAssumption
<1>2. q \in Nat /\ WordBytes * q <= WordBytes - 1
  BY <1>1, Division DEF Words
<1> HIDE DEF q
<1>3. q >= 1 => WordBytes * q >= WordBytes
  BY <1>1, <1>2
<1>4. q = 0
  BY <1>1, <1>2, <1>3
<1> QED
  BY <1>4 DEF MemoryCost, q

\* A new memory is an empty array.
LEMMA InitIsArray ==
    ASSUME MemoryInit
    PROVE  Sound /\ Array!ArrayInit
<1>1. bytes = <<>> /\ Len(bytes) = 0 /\ charged = 0 /\ reply.status = "none"
  BY DEF MemoryInit, Reply
<1>2. Whole(0)
  BY WordBytesAssumption DEF Whole
<1>3. Sound
  BY <1>1, <1>2, AllocatedBelow, NoMemoryFree DEF Sound
<1>4. \A p \in Positions : ~(p < 0)
  BY PositionsAssumption, UsizeAssumption DEF Usize
<1>5. [p \in Positions |-> IF p < Len(bytes) THEN bytes[p + 1] ELSE 0]
      = [p \in Positions |-> 0]
  BY <1>1, <1>4
<1> QED
  BY <1>1, <1>3, <1>5 DEF Array!ArrayInit

\* Nothing that stays the same is seen to change.
LEMMA StutterIsArray ==
    ASSUME Sound, UNCHANGED memoryVars
    PROVE  Sound' /\ UNCHANGED Array!array
BY DEF memoryVars, Sound, Array!array

\* Whatever the size of a word, of an address and of what can be allocated, and
\* whatever the calls and their order: Memory is one zero-filled array of whole
\* words.  No load or extension changes a byte that a later load shows, no store
\* reaches beyond its range, a refused call leaves nothing behind, and the charges
\* of all extensions together are the cost of the size that was reached.  The
\* exception is the one of ByteArray: a range that ends in the last word of the
\* address space may extend nothing.
THEOREM MemoryIsAnArray == MemorySpec => IsAnArray
<1>1. MemoryInit => Sound /\ Array!ArrayInit
  BY InitIsArray
<1>2. Sound /\ [MemoryNext]_memoryVars => Sound' /\ [Array!ArrayNext]_(Array!array)
  BY NextIsArray, StutterIsArray
<1> QED
  BY <1>1, <1>2, PTL DEF MemorySpec, IsAnArray, Array!ArraySpec

===============================================================================
