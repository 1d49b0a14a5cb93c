------------------------------ MODULE StackProofs ------------------------------
(***************************************************************************)
(* The Stack implements StackContract, whatever its words and its size.    *)
(***************************************************************************)
EXTENDS Stack, SequenceTheorems, TLAPS

\* Reversing a sequence.
LEMMA ReverseProperties ==
    ASSUME NEW S, NEW s \in Seq(S)
    PROVE  /\ Reverse(s) \in Seq(S)
           /\ Len(Reverse(s)) = Len(s)
           /\ \A i \in 1 .. Len(s) : Reverse(s)[i] = s[Len(s) - i + 1]
BY DEF Reverse

\* A concatenation, word by word.
LEMMA ConcatAt ==
    ASSUME NEW S, NEW p \in Seq(S), NEW r \in Seq(S),
           NEW m \in Nat, NEW n \in Nat, NEW k \in Nat,
           m = Len(p), n = Len(r), k = m + n
    PROVE  /\ p \o r \in Seq(S) /\ Len(p \o r) = k
           /\ \A i \in 1 .. k : (p \o r)[i] = IF i <= m THEN p[i] ELSE r[i - m]
<1>1. /\ p \o r \in Seq(S) /\ Len(p \o r) = Len(p) + Len(r)
      /\ \A i \in 1 .. (Len(p) + Len(r)) :
            (p \o r)[i] = IF i <= Len(p) THEN p[i] ELSE r[i - Len(p)]
  BY ConcatProperties
<1>2. Len(p) + Len(r) = k
  OBVIOUS
<1> QED
  BY <1>1, <1>2

\* What is last comes first.
LEMMA ReverseConcat ==
    ASSUME NEW S, NEW s \in Seq(S), NEW t \in Seq(S)
    PROVE  Reverse(s \o t) = Reverse(t) \o Reverse(s)
<1>1. s \o t \in Seq(S)
  BY ConcatProperties
<1>2. PICK r \in Seq(S) : r = Reverse(s)
  BY ReverseProperties
<1>3. PICK q \in Seq(S) : q = Reverse(t)
  BY ReverseProperties
<1>4. PICK st \in Seq(S) : st = s \o t
  BY <1>1
<1>5. PICK v \in Seq(S) : v = Reverse(st)
  BY <1>4, ReverseProperties
<1>6. PICK u \in Seq(S) : u = q \o r
  BY ConcatProperties
<1>7. PICK m \in Nat, n \in Nat, k \in Nat :
          m = Len(s) /\ n = Len(t) /\ k = m + n
  BY LenProperties
<1>8. Len(r) = m /\ \A i \in 1 .. m : r[i] = s[m - i + 1]
  BY <1>2, <1>7, ReverseProperties
<1>9. Len(q) = n /\ \A i \in 1 .. n : q[i] = t[n - i + 1]
  BY <1>3, <1>7, ReverseProperties
<1>10. /\ Len(st) = k
       /\ \A i \in 1 .. k : st[i] = IF i <= m THEN s[i] ELSE t[i - m]
  BY <1>4, <1>7, ConcatAt
<1>11. Len(v) = k /\ \A i \in 1 .. k : v[i] = st[k - i + 1]
  BY <1>5, <1>10, ReverseProperties
<1>12. /\ Len(u) = k
       /\ \A i \in 1 .. k : u[i] = IF i <= n THEN q[i] ELSE r[i - n]
  <2>1. n = Len(q) /\ m = Len(r) /\ k = n + m
    BY <1>7, <1>8, <1>9
  <2>2. /\ Len(q \o r) = k
        /\ \A i \in 1 .. k : (q \o r)[i] = IF i <= n THEN q[i] ELSE r[i - n]
    BY <2>1, ConcatAt
  <2> QED
    BY <1>6, <2>2
<1>13. ASSUME NEW i \in 1 .. k
       PROVE  v[i] = u[i]
  <2>. PICK j \in 1 .. k : j = k - i + 1
    OBVIOUS
  <2>1. v[i] = st[j]
    BY <1>11
  <2>2. CASE i <= n
    <3>1. u[i] = t[n - i + 1]
      BY <1>9, <1>12, <2>2
    <3>2. j > m /\ j - m = n - i + 1
      BY <1>7, <2>2
    <3> QED
      BY <1>10, <2>1, <3>1, <3>2
  <2>3. CASE i > n
    <3>1. i - n \in 1 .. m
      BY <1>7, <2>3
    <3>. PICK l \in 1 .. m : l = i - n
      BY <3>1
    <3>2. u[i] = s[m - l + 1]
      BY <1>8, <1>12, <2>3
    <3>3. j <= m /\ j = m - l + 1
      BY <1>7
    <3> QED
      BY <1>10, <2>1, <3>2, <3>3
  <2> QED
    BY <2>2, <2>3
<1>14. v = u
  BY <1>11, <1>12, <1>13, SeqEqual
<1> QED
  BY <1>2, <1>3, <1>4, <1>5, <1>6, <1>14

\* Reversing twice changes nothing.
LEMMA ReverseTwice ==
    ASSUME NEW S, NEW s \in Seq(S)
    PROVE  Reverse(Reverse(s)) = s
<1>1. Reverse(s) \in Seq(S) /\ Reverse(Reverse(s)) \in Seq(S)
  BY ReverseProperties
<1>2. Len(Reverse(Reverse(s))) = Len(s)
  BY <1>1, ReverseProperties
<1>3. \A i \in 1 .. Len(s) : Reverse(Reverse(s))[i] = s[i]
  BY <1>1, ReverseProperties
<1> QED
  BY <1>1, <1>2, <1>3, SeqEqual

\* The reversals that are nothing.
LEMMA ReverseOne ==
    /\ Reverse(<<>>) = <<>>
    /\ \A x : Reverse(<<x>>) = <<x>>
BY DEF Reverse

\* A vector that is not empty is its front and its last word.
LEMMA FrontLast ==
    ASSUME NEW S, NEW s \in Seq(S), s # <<>>
    PROVE  /\ Front(s) \in Seq(S) /\ Last(s) \in S
           /\ Len(Front(s)) = Len(s) - 1
           /\ Reverse(s) = <<Last(s)>> \o Reverse(Front(s))
<1>1. Len(s) \in Nat \ {0} /\ Last(s) \in S
  BY EmptySeq DEF Last
<1>2. /\ Front(s) \in Seq(S) /\ Len(Front(s)) = Len(s) - 1
      /\ s = Front(s) \o <<Last(s)>>
  BY <1>1, SubSeqProperties, SubSeqFull, SubSeqRecursiveSecond, ElementOfSeq
     DEF Front, Last
<1>3. <<Last(s)>> \in Seq(S)
  BY <1>1
<1>4. Reverse(Front(s) \o <<Last(s)>>) = Reverse(<<Last(s)>>) \o Reverse(Front(s))
  BY <1>2, <1>3, ReverseConcat
<1> QED
  BY <1>1, <1>2, <1>4, ReverseOne

\* The two parts of a sequence.
LEMMA Halves ==
    ASSUME NEW S, NEW p \in Seq(S), NEW r \in Seq(S)
    PROVE  /\ Len(p) <= Len(p \o r)
           /\ p = SubSeq(p \o r, 1, Len(p))
           /\ r = SubSeq(p \o r, Len(p) + 1, Len(p \o r))
<1>1. PICK m \in Nat, n \in Nat, k \in Nat :
          m = Len(p) /\ n = Len(r) /\ k = m + n
  BY LenProperties
<1>2. PICK b \in Seq(S) : b = p \o r
  BY ConcatProperties
<1>3. /\ Len(b) = k
      /\ \A i \in 1 .. k : b[i] = IF i <= m THEN p[i] ELSE r[i - m]
  BY <1>1, <1>2, ConcatAt
<1>4. PICK y \in Seq(S) : y = SubSeq(b, 1, m)
  BY <1>1, <1>3
<1>5. PICK z \in Seq(S) : z = SubSeq(b, m + 1, k)
  <2>1. \A i \in m + 1 .. k : b[i] \in S
    BY <1>1, <1>3, ElementOfSeq
  <2>2. SubSeq(b, m + 1, k) \in Seq(S)
    BY <2>1, SubSeqProperties
  <2> QED
    BY <2>2
<1>6. Len(y) = m /\ \A i \in 1 .. m : y[i] = b[i]
  BY <1>1, <1>3, <1>4
<1>7. Len(z) = n /\ \A i \in 1 .. n : z[i] = b[m + i]
  BY <1>1, <1>3, <1>5
<1>8. y = p
  BY <1>1, <1>3, <1>6, SeqEqual
<1>9. ASSUME NEW i \in 1 .. n
      PROVE  z[i] = r[i]
  <2>1. m + i \in 1 .. k /\ ~ (m + i <= m) /\ m + i - m = i
    BY <1>1
  <2>2. b[m + i] = r[m + i - m]
    BY <1>3, <2>1
  <2> QED
    BY <1>7, <2>1, <2>2
<1>10. z = r
  BY <1>1, <1>7, <1>9, SeqEqual
<1>11. m <= k /\ k = Len(b)
  BY <1>1, <1>3
<1>12. m <= Len(b) /\ p = SubSeq(b, 1, m) /\ r = SubSeq(b, m + 1, Len(b))
  BY <1>4, <1>5, <1>8, <1>10, <1>11
<1> QED
  BY <1>1, <1>2, <1>12

-------------------------------------------------------------------------------

Types ==
    /\ arr \in Seq(Values) /\ popped \in Seq(Values)
    /\ pending \in Seq(Values) /\ before \in Seq(Values)
    /\ status \in {"ready", "popping", "pushing"} \cup Errors
    /\ shape \in Shapes
    /\ need \in 0 .. MaxArity
    /\ shape \in {"dup", "swap"} => need > 0

\* Where the words are in the middle of an instruction: the strengthening that
\* WorksAtOnce needs.
Travelling ==
    /\ Len(before) <= StackSize
    /\ status = "popping" =>
          /\ Len(popped) <= need
          /\ before = popped \o Reverse(arr)
    /\ status = "pushing" =>
          /\ need <= Len(before)
          /\ \E w \in Values :
                arr \o pending = Reverse(SubSeq(before, need + 1, Len(before)))
                                    \o Results(shape, SubSeq(before, 1, need), w)

Sound == Types /\ TopIsLast /\ Travelling

\* What an instruction pushes are words, and one more than it popped only if its shape
\* says so.
LEMMA ResultsProperties ==
    ASSUME NEW s \in Shapes, NEW args \in Seq(Values), NEW w \in Values,
           s \in {"dup", "swap"} => Len(args) > 0
    PROVE  /\ Results(s, args, w) \in Seq(Values)
           /\ Len(Results(s, args, w)) <= Len(args) + 1
           /\ Len(Results(s, args, w)) = Len(args) + 1
                => s = "dup" \/ (s = "compute" /\ Len(args) = 0)
<1>1. CASE s = "take"
  BY <1>1 DEF Results
<1>2. CASE s = "compute"
  BY <1>2 DEF Results
<1>3. CASE s = "dup"
  <2>1. args[Len(args)] \in Values /\ <<args[Len(args)]>> \in Seq(Values)
    BY <1>3, ElementOfSeq
  <2>2. Results(s, args, w) = Reverse(args) \o <<args[Len(args)]>>
    BY <1>3 DEF Results
  <2>3. Results(s, args, w) \in Seq(Values) /\ Len(Results(s, args, w)) = Len(args) + 1
    BY <2>1, <2>2, ReverseProperties, ConcatProperties
  <2> QED
    BY <1>3, <2>3
<1>4. CASE s = "swap"
  <2>. DEFINE e == [args EXCEPT ![1] = args[Len(args)], ![Len(args)] = args[1]]
  <2>1. e \in Seq(Values) /\ Len(e) = Len(args)
    BY <1>4
  <2>2. Results(s, args, w) = Reverse(e)
    BY <1>4 DEF Results
  <2>. HIDE DEF e
  <2>3. Reverse(e) \in Seq(Values) /\ Len(Reverse(e)) = Len(args)
    BY <2>1, ReverseProperties
  <2> QED
    BY <2>2, <2>3
<1> QED
  BY <1>1, <1>2, <1>3, <1>4 DEF Shapes

-------------------------------------------------------------------------------

\* A new context has a sound stack, which is that of the contract.
LEMMA NewSound ==
    ASSUME New
    PROVE  Sound /\ Contract!ContractInit
<1>1. Reverse(arr) = <<>>
  BY ReverseOne DEF New
<1>2. Len(arr) = 0 /\ Len(before) = 0
  BY DEF New
<1> QED
  BY <1>1, <1>2, StackAssumption
     DEF New, Sound, Types, TopIsLast, Travelling, Shapes, Errors, Contract!ContractInit,
         Contract!None

\* An instruction begins: all its words are still on the stack.
LEMMA BeginSound ==
    ASSUME Sound, NEW s \in Shapes, NEW n \in 0 .. MaxArity, Begin(s, n)
    PROVE  Sound'
<1>. USE DEF Sound, Begin
<1>1. Reverse(arr) \in Seq(Values) /\ Len(Reverse(arr)) = Len(arr)
  BY ReverseProperties DEF Types
<1>2. Types'
  BY <1>1 DEF Types
<1>3. TopIsLast'
  BY DEF TopIsLast
<1>4. Travelling'
  <2>1. before' = popped' \o Reverse(arr')
    BY <1>1, ConcatEmptySeq
  <2>2. Len(popped') <= need'
    BY <1>2 DEF Types
  <2> QED
    BY <1>1, <2>1, <2>2 DEF Travelling, TopIsLast
<1> QED
  BY <1>2, <1>3, <1>4

\* A word moves from the end of the vector to the end of the operands.
LEMMA PopOneSound ==
    ASSUME Sound, PopOne
    PROVE  Sound'
<1>. USE DEF Sound, PopOne
<1>1. /\ Front(arr) \in Seq(Values) /\ Last(arr) \in Values
      /\ Len(Front(arr)) = Len(arr) - 1
      /\ Reverse(arr) = <<Last(arr)>> \o Reverse(Front(arr))
  BY FrontLast DEF Types
<1>2. /\ popped' \in Seq(Values) /\ Len(popped') = Len(popped) + 1
      /\ popped' = popped \o <<Last(arr)>>
  BY <1>1, AppendProperties, AppendIsConcat DEF Types
<1>3. Types'
  BY <1>1, <1>2 DEF Types
<1>4. TopIsLast'
  <2>1. Len(arr) \in Nat
    BY DEF Types
  <2> QED
    BY <1>1, <2>1, StackAssumption DEF TopIsLast
<1>5. Travelling'
  <2>1. <<Last(arr)>> \in Seq(Values) /\ Reverse(Front(arr)) \in Seq(Values)
    BY <1>1, ReverseProperties
  <2>2. before = popped \o (<<Last(arr)>> \o Reverse(Front(arr)))
    BY <1>1 DEF Travelling
  <2>3. (popped \o <<Last(arr)>>) \o Reverse(Front(arr)) =
            popped \o (<<Last(arr)>> \o Reverse(Front(arr)))
    BY <2>1, ConcatAssociative DEF Types
  <2>4. before' = popped' \o Reverse(arr')
    BY <1>2, <2>2, <2>3
  <2>5. Len(popped') <= need'
    BY <1>2 DEF Types
  <2> QED
    BY <2>4, <2>5 DEF Travelling
<1> QED
  BY <1>3, <1>4, <1>5

\* The operands complete: they are the top of the stack as it was.
LEMMA OperandsPopped ==
    ASSUME Sound, status = "popping", Len(popped) = need
    PROVE  /\ need <= Len(before)
           /\ popped = SubSeq(before, 1, need)
           /\ arr = Reverse(SubSeq(before, need + 1, Len(before)))
<1>1. Reverse(arr) \in Seq(Values) /\ Reverse(Reverse(arr)) = arr
  BY ReverseProperties, ReverseTwice DEF Sound, Types
<1>2. before = popped \o Reverse(arr) /\ popped \in Seq(Values)
  BY DEF Sound, Types, Travelling
<1> QED
  BY <1>1, <1>2, Halves

\* The operands become the results that are to be pushed.
LEMMA UseSound ==
    ASSUME Sound, NEW w \in Values, Use(w)
    PROVE  Sound'
<1>. USE DEF Sound, Use
<1>1. pending' \in Seq(Values)
  BY ResultsProperties DEF Types
<1>2. Types'
  BY <1>1 DEF Types
<1>3. TopIsLast'
  BY DEF TopIsLast
<1>4. Travelling'
  BY OperandsPopped DEF Travelling
<1> QED
  BY <1>2, <1>3, <1>4

\* A result moves to the vector, which has room for it.
LEMMA PushOneSound ==
    ASSUME Sound, PushOne
    PROVE  Sound'
<1>. USE DEF Sound, PushOne
<1>1. /\ Head(pending) \in Values /\ Tail(pending) \in Seq(Values)
      /\ pending = <<Head(pending)>> \o Tail(pending)
  BY DEF Types
<1>2. /\ arr' \in Seq(Values) /\ Len(arr') = Len(arr) + 1
      /\ arr' = arr \o <<Head(pending)>>
  BY <1>1, AppendProperties, AppendIsConcat DEF Types
<1>3. Types'
  BY <1>1, <1>2 DEF Types
<1>4. TopIsLast'
  BY <1>2, StackAssumption DEF TopIsLast, Types
<1>5. Travelling'
  <2>1. <<Head(pending)>> \in Seq(Values)
    BY <1>1
  <2>2. (arr \o <<Head(pending)>>) \o Tail(pending) =
            arr \o (<<Head(pending)>> \o Tail(pending))
    BY <1>1, <2>1, ConcatAssociative DEF Types
  <2>3. arr' \o pending' = arr \o pending
    BY <1>1, <1>2, <2>2
  <2> QED
    BY <2>3 DEF Travelling
<1> QED
  BY <1>3, <1>4, <1>5

\* An error, the end of an instruction and the end of a run leave a sound stack.
LEMMA StopSound ==
    ASSUME Sound, PopFails \/ PushFails \/ Done \/ Renew
    PROVE  Sound'
<1>1. CASE PopFails \/ PushFails \/ Done
  BY <1>1 DEF Sound, PopFails, PushFails, Done, Types, TopIsLast, Travelling, Errors
<1>2. CASE Renew
  BY <1>2, StackAssumption DEF Sound, Renew, Types, TopIsLast, Travelling, Shapes, Errors
<1> QED
  BY <1>1, <1>2

\* Every step keeps the strengthened invariant.
LEMMA NextSound ==
    ASSUME Sound, [StackNext]_stackVars
    PROVE  Sound'
<1>1. CASE UNCHANGED stackVars
  BY <1>1 DEF stackVars, Sound, Types, TopIsLast, Travelling
<1>2. CASE StackNext
  BY <1>2, BeginSound, PopOneSound, UseSound, PushOneSound, StopSound
     DEF StackNext, Shapes
<1> QED
  BY <1>1, <1>2

\* Whatever words and however many of them: the count that push tests never leaves
\* the vector's length, and no order of pops and pushes makes it too long.
THEOREM CountIsLength == StackSpec => []TopIsLast
<1>1. New => Sound
  BY NewSound
<1>2. Sound /\ [StackNext]_stackVars => Sound'
  BY NextSound
<1>3. Sound => TopIsLast
  BY DEF Sound
<1> QED
  BY <1>1, <1>2, <1>3, PTL DEF StackSpec

-------------------------------------------------------------------------------

\* A sequence with its first word and its n-th exchanged.
Exchanged(s, n) == [s EXCEPT ![1] = s[n], ![n] = s[1]]

\* It, word by word.
LEMMA ExchangedProperties ==
    ASSUME NEW S, NEW s \in Seq(S), NEW k \in Nat, k = Len(s), NEW n \in 1 .. k
    PROVE  /\ Exchanged(s, n) \in Seq(S) /\ Len(Exchanged(s, n)) = k
           /\ \A i \in 1 .. k : Exchanged(s, n)[i] =
                  IF i = n THEN s[1] ELSE IF i = 1 THEN s[n] ELSE s[i]
<1>. DEFINE u == [s EXCEPT ![1] = s[n]]
            v == [u EXCEPT ![n] = s[1]]
<1>1. 1 \in 1 .. Len(s) /\ n \in 1 .. Len(s) /\ s[1] \in S /\ s[n] \in S
  BY ElementOfSeq
<1>2. /\ u \in Seq(S) /\ Len(u) = Len(s)
      /\ \A i \in 1 .. Len(s) : u[i] = IF i = 1 THEN s[n] ELSE s[i]
  BY <1>1, ExceptSeq
<1>. HIDE DEF u
<1>3. /\ v \in Seq(S) /\ Len(v) = Len(s)
      /\ \A i \in 1 .. Len(s) : v[i] = IF i = n THEN s[1] ELSE u[i]
  BY <1>1, <1>2, ExceptSeq
<1>4. v = Exchanged(s, n)
  BY DEF u, Exchanged
<1>. HIDE DEF v
<1> QED
  BY <1>2, <1>3, <1>4

\* An exchange among the n top words is an exchange in the whole stack.
LEMMA ExchangedOnTop ==
    ASSUME NEW S, NEW args \in Seq(S), NEW rest \in Seq(S), Len(args) # 0
    PROVE  /\ Exchanged(args, Len(args)) \in Seq(S)
           /\ Exchanged(args, Len(args)) \o rest = Exchanged(args \o rest, Len(args))
<1>0. PICK n \in Nat \ {0} : n = Len(args)
  BY LenProperties
<1>1. PICK m \in Nat : m = Len(rest)
  BY LenProperties
<1>2. PICK k \in Nat : k = n + m
  OBVIOUS
<1>3. PICK s \in Seq(S) : s = args \o rest
  BY ConcatProperties
<1>4. Len(s) = k /\ \A i \in 1 .. k : s[i] = IF i <= n THEN args[i] ELSE rest[i - n]
  BY <1>0, <1>1, <1>2, <1>3, ConcatAt
<1>5. 1 \in 1 .. n /\ n \in 1 .. n /\ 1 \in 1 .. k /\ n \in 1 .. k
  BY <1>2
<1>6. PICK e \in Seq(S) : e = Exchanged(args, n)
  BY <1>0, <1>5, ExchangedProperties
<1>7. /\ Len(e) = n
      /\ \A i \in 1 .. n : e[i] = IF i = n THEN args[1] ELSE IF i = 1 THEN args[n] ELSE args[i]
  BY <1>0, <1>5, <1>6, ExchangedProperties
<1>8. PICK v \in Seq(S) : v = Exchanged(s, n)
  BY <1>4, <1>5, ExchangedProperties
<1>9. /\ Len(v) = k
      /\ \A i \in 1 .. k : v[i] = IF i = n THEN s[1] ELSE IF i = 1 THEN s[n] ELSE s[i]
  <2>1. k = Len(s)
    BY <1>4
  <2> QED
    BY <2>1, <1>5, <1>8, ExchangedProperties
<1>10. PICK u \in Seq(S) : u = e \o rest
  BY ConcatProperties
<1>11. Len(u) = k /\ \A i \in 1 .. k : u[i] = IF i <= n THEN e[i] ELSE rest[i - n]
  <2>1. n = Len(e)
    BY <1>7
  <2> QED
    BY <1>1, <1>2, <1>10, <2>1, ConcatAt
<1>12. ASSUME NEW i \in 1 .. k
       PROVE  u[i] = v[i]
  <2>1. CASE i <= n
    <3>1. i \in 1 .. n
      BY <2>1
    <3>2. u[i] = e[i]
      BY <2>1, <1>11
    <3>3. s[1] = args[1] /\ s[n] = args[n] /\ s[i] = args[i]
      BY <2>1, <1>4, <1>5
    <3> QED
      BY <3>1, <3>2, <3>3, <1>7, <1>9
  <2>2. CASE ~ (i <= n)
    <3>1. i # n /\ i # 1
      BY <2>2
    <3> QED
      BY <3>1, <2>2, <1>4, <1>9, <1>11
  <2> QED
    BY <2>1, <2>2
<1>13. u = v
  BY <1>9, <1>11, <1>12, SeqEqual
<1> QED
  BY <1>0, <1>3, <1>6, <1>8, <1>10, <1>13

\* An instruction ends: what it took and left in steps, it has at once.
LEMMA DoneSimulates ==
    ASSUME Sound, Done
    PROVE  Contract!ContractNext
<1>. DEFINE args == SubSeq(before, 1, need)
            rest == SubSeq(before, need + 1, Len(before))
<1>1. /\ need \in Nat /\ need <= MaxArity /\ need <= Len(before)
      /\ before \in Seq(Values) /\ Len(before) <= StackSize
  BY StackAssumption DEF Sound, Types, Travelling, Done
<1>2. /\ args \in Seq(Values) /\ Len(args) = need
      /\ rest \in Seq(Values) /\ Len(rest) = Len(before) - need
      /\ args \o rest = before
      /\ \A i \in 1 .. need : args[i] = before[i]
  <2>1. before = SubSeq(before, 1, Len(before))
    BY <1>1, SubSeqFull
  <2>2. args \o rest = SubSeq(before, 1, Len(before))
    <3>. PICK k \in Nat : k = Len(before)
      BY <1>1
    <3>1. 1 \in 1 .. k + 1 /\ need \in 1 - 1 .. k /\ k \in need .. k
      BY <1>1
    <3> QED
      BY <1>1, <3>1, ConcatAdjacentSubSeq
  <2>3. args \in Seq(Values) /\ Len(args) = need /\ \A i \in 1 .. need : args[i] = before[i]
    BY <1>1
  <2>4. \A i \in need + 1 .. Len(before) : before[i] \in Values
    BY <1>1, ElementOfSeq
  <2>5. rest \in Seq(Values) /\ Len(rest) = Len(before) - need
    BY <1>1, <2>4, SubSeqProperties
  <2> QED
    BY <2>1, <2>2, <2>3, <2>5
<1>3. PICK w \in Values : arr = Reverse(rest) \o Results(shape, args, w)
  <2>1. arr \o pending = arr
    BY ConcatEmptySeq DEF Done, Sound, Types
  <2> QED
    BY <2>1 DEF Sound, Travelling, Done
<1>4. shape \in Shapes /\ (shape \in {"dup", "swap"} => need > 0)
  BY DEF Sound, Types
<1>. HIDE DEF args, rest
<1>5. Results(shape, args, w) \in Seq(Values)
  BY <1>2, <1>4, ResultsProperties
<1>6. Reverse(arr) = Reverse(Results(shape, args, w)) \o rest
  <2>1. Reverse(rest) \in Seq(Values) /\ Reverse(Reverse(rest)) = rest
    BY <1>2, ReverseProperties, ReverseTwice
  <2> QED
    BY <1>3, <1>5, <2>1, ReverseConcat
<1>7. Len(arr) <= StackSize /\ arr \in Seq(Values)
  BY DEF Sound, TopIsLast, Types
<1>8. Len(arr) = Len(rest) + Len(Results(shape, args, w))
  <2>1. Reverse(rest) \in Seq(Values) /\ Len(Reverse(rest)) = Len(rest)
    BY <1>2, ReverseProperties
  <2>. PICK p \in Seq(Values), r \in Seq(Values) :
          p = Reverse(rest) /\ r = Results(shape, args, w)
    BY <1>5, <2>1
  <2>2. Len(p \o r) = Len(p) + Len(r)
    BY ConcatProperties
  <2> QED
    BY <1>3, <2>1, <2>2
<1>9. Contract!Rest = rest
  BY DEF Done, Contract!Rest, Errors, rest
<1>10. ASSUME Contract!Take \/ Contract!Compute \/ Contract!Dup \/ Contract!Swap
       PROVE  Contract!ContractNext
  <2>1. Contract!Succeeds
    BY <1>1, <1>10 DEF Done, Errors, Contract!Succeeds, Contract!None
  <2>2. [shape |-> shape, arity |-> need] # Contract!None
    BY <1>4 DEF Contract!None, Shapes
  <2> QED
    BY <2>1, <2>2 DEF Done, Errors, Contract!ContractNext
<1>11. CASE shape = "take"
  <2>1. Reverse(arr) = rest
    BY <1>2, <1>6, <1>11, ReverseOne, ConcatEmptySeq DEF Results
  <2>2. Contract!Take
    BY <1>1, <1>9, <1>11, <2>1 DEF Done, Errors, Contract!Take
  <2> QED
    BY <1>10, <2>2
<1>12. CASE shape = "compute"
  <2>1. Reverse(arr) = <<w>> \o rest /\ Len(Results(shape, args, w)) = 1
    BY <1>6, <1>12, ReverseOne DEF Results
  <2>2. Reverse(arr) # <<>> /\ Reverse(arr)[1] = w /\ Tail(Reverse(arr)) = rest
    BY <1>2, <2>1
  <2>3. Len(before) - need < StackSize
    BY <1>1, <1>2, <1>7, <1>8, <2>1, StackAssumption
  <2>4. Contract!Compute
    BY <1>1, <1>9, <1>12, <2>2, <2>3 DEF Done, Errors, Contract!Compute
  <2> QED
    BY <1>10, <2>4
<1>13. CASE shape = "dup"
  <2>1. need \in 1 .. Len(before) /\ need \in 1 .. MaxArity
    BY <1>1, <1>4, <1>13
  <2>. PICK x \in Values : x = args[need] /\ x = before[need]
    BY <1>1, <1>2, <2>1, ElementOfSeq
  <2>2. Results(shape, args, w) = Reverse(args) \o <<x>>
    BY <1>2, <1>13 DEF Results
  <2>3. Reverse(args) \in Seq(Values) /\ Len(Reverse(args)) = need
        /\ Reverse(Reverse(args)) = args
    BY <1>2, ReverseProperties, ReverseTwice
  <2>4. Reverse(Results(shape, args, w)) = <<x>> \o args
    <3>1. <<x>> \in Seq(Values)
      OBVIOUS
    <3>2. Reverse(Reverse(args) \o <<x>>) = Reverse(<<x>>) \o Reverse(Reverse(args))
      BY <2>3, <3>1, ReverseConcat
    <3> QED
      BY <2>2, <2>3, <3>2, ReverseOne
  <2>5. (<<x>> \o args) \o rest = <<x>> \o (args \o rest)
    BY <1>2, ConcatAssociative
  <2>6. Reverse(arr) = <<before[need]>> \o before
    BY <1>2, <1>6, <2>4, <2>5
  <2>7. Len(before) < StackSize
    <3>1. Len(Reverse(args) \o <<x>>) = need + 1
      BY <2>3
    <3> QED
      BY <1>1, <1>2, <1>7, <1>8, <2>2, <3>1, StackAssumption
  <2>8. Contract!Dup
    BY <1>1, <1>13, <2>6, <2>7 DEF Done, Errors, Contract!Dup
  <2> QED
    BY <1>10, <2>8
<1>14. CASE shape = "swap"
  <2>1. need \in 1 .. MaxArity /\ need \in Nat \ {0} /\ need = Len(args)
    BY <1>1, <1>2, <1>4, <1>14
  <2>2. Results(shape, args, w) = Reverse(Exchanged(args, need))
    BY <2>1, <1>14 DEF Results, Exchanged
  <2>3. /\ Exchanged(args, need) \in Seq(Values)
        /\ Exchanged(args, need) \o rest = Exchanged(before, need)
    <3>1. args \in Seq(Values) /\ rest \in Seq(Values) /\ Len(args) # 0
      BY <1>2, <2>1
    <3>2. /\ Exchanged(args, Len(args)) \in Seq(Values)
          /\ Exchanged(args, Len(args)) \o rest = Exchanged(args \o rest, Len(args))
      BY <3>1, ExchangedOnTop, Zenon
    <3> QED
      BY <1>2, <2>1, <3>2
  <2>4. Reverse(arr) = Exchanged(before, need)
    BY <1>2, <1>6, <2>2, <2>3, ReverseTwice
  <2>5. Contract!Swap
    BY <1>1, <1>14, <2>4 DEF Done, Errors, Contract!Swap, Exchanged
  <2> QED
    BY <1>10, <2>5
<1> QED
  BY <1>4, <1>11, <1>12, <1>13, <1>14 DEF Shapes

\* An operand is missing: there were fewer words than the instruction takes.
LEMMA PopFailsSimulates ==
    ASSUME Sound, PopFails
    PROVE  Contract!ContractNext
<1>1. before = popped
  <2>1. Reverse(arr) = <<>>
    BY ReverseOne DEF PopFails
  <2> QED
    BY <2>1, ConcatEmptySeq DEF Sound, Types, Travelling, PopFails
<1>2. Len(before) < need
  BY <1>1 DEF PopFails
<1>3. [shape |-> shape, arity |-> need] # Contract!None
  BY DEF Contract!None, Sound, Types, Shapes
<1> QED
  BY <1>2, <1>3 DEF PopFails, Errors, Contract!ContractNext, Contract!EmptyStack,
                    Contract!Fails, Contract!None

\* A result has no room: the stack was full when the instruction began, and the
\* instruction is one that leaves more words than it takes.
LEMMA PushFailsSimulates ==
    ASSUME Sound, PushFails
    PROVE  Contract!ContractNext
<1>. DEFINE args == SubSeq(before, 1, need)
            rest == SubSeq(before, need + 1, Len(before))
<1>1. PICK w \in Values : arr \o pending = Reverse(rest) \o Results(shape, args, w)
  BY DEF Sound, Travelling, PushFails
<1>2. /\ need \in Nat /\ need <= Len(before)
      /\ before \in Seq(Values) /\ Len(before) <= StackSize
  BY StackAssumption DEF Sound, Types, Travelling, PushFails
<1>3. args \in Seq(Values) /\ Len(args) = need
  BY <1>2
<1>4. rest \in Seq(Values) /\ Len(rest) = Len(before) - need
  <2>1. \A i \in need + 1 .. Len(before) : before[i] \in Values
    BY <1>2, ElementOfSeq
  <2> QED
    BY <1>2, <2>1, SubSeqProperties
<1>. HIDE DEF args, rest
<1>5. /\ Results(shape, args, w) \in Seq(Values)
      /\ Len(Results(shape, args, w)) \in Nat
      /\ Len(Results(shape, args, w)) <= need + 1
      /\ Len(Results(shape, args, w)) = need + 1
            => shape = "dup" \/ (shape = "compute" /\ need = 0)
  <2>1. shape \in Shapes /\ (shape \in {"dup", "swap"} => Len(args) > 0)
    BY <1>3 DEF Sound, Types
  <2> PICK r : r = Results(shape, args, w)
    OBVIOUS
  <2>2. /\ r \in Seq(Values)
        /\ Len(r) <= Len(args) + 1
        /\ Len(r) = Len(args) + 1 => shape = "dup" \/ (shape = "compute" /\ Len(args) = 0)
    BY <1>3, <2>1, ResultsProperties
  <2> QED
    BY <1>3, <2>2
<1>6. Reverse(rest) \in Seq(Values) /\ Len(Reverse(rest)) = Len(rest)
  BY <1>4, ReverseProperties
<1>7. Len(arr \o pending) = Len(before) - need + Len(Results(shape, args, w))
  <2>. PICK p \in Seq(Values), r \in Seq(Values) :
          p = Reverse(rest) /\ r = Results(shape, args, w)
    BY <1>5, <1>6
  <2>1. Len(p \o r) = Len(p) + Len(r)
    BY ConcatProperties
  <2> QED
    BY <1>1, <1>2, <1>4, <1>5, <1>6, <2>1
<1>8. Len(arr \o pending) = Len(arr) + Len(pending) /\ Len(pending) > 0
      /\ Len(arr) = StackSize
  BY StackAssumption DEF Sound, Types, TopIsLast, PushFails
<1>9. Len(before) = StackSize /\ Len(Results(shape, args, w)) = need + 1
  BY <1>2, <1>5, <1>7, <1>8, StackAssumption DEF Sound, Types
<1>10. [shape |-> shape, arity |-> need] # Contract!None
  BY DEF Contract!None, Sound, Types, Shapes
<1> QED
  BY <1>2, <1>5, <1>9, <1>10
     DEF PushFails, Errors, Contract!ContractNext, Contract!StackOverflow, Contract!Grows,
         Contract!Fails, Contract!None

\* Every step is one of the contract, or is not seen from the instructions.
LEMMA NextSimulates ==
    ASSUME Sound, [StackNext]_stackVars
    PROVE  [Contract!ContractNext]_(Contract!contract)
<1>. USE DEF Contract!contract
<1>1. CASE UNCHANGED stackVars
  BY <1>1 DEF stackVars
<1>2. ASSUME NEW s \in Shapes, NEW n \in 0 .. MaxArity, Begin(s, n)
      PROVE  Contract!ContractNext
  <2>1. [shape |-> s, arity |-> n] \in [shape : Shapes, arity : 0 .. MaxArity]
    OBVIOUS
  <2> QED
    BY <1>2, <2>1 DEF Begin, Errors, Contract!ContractNext, Contract!Begin, Contract!None
<1>3. CASE PopOne
  BY <1>3 DEF PopOne, Errors
<1>4. ASSUME NEW w \in Values, Use(w)
      PROVE  UNCHANGED Contract!contract
  BY <1>4 DEF Use, Errors
<1>5. CASE PushOne
  BY <1>5 DEF PushOne, Errors
<1>6. CASE Renew
  BY <1>6, ReverseOne
     DEF Renew, Errors, Contract!ContractNext, Contract!Renew, Contract!Fails, Contract!None
<1> QED
  BY <1>1, <1>2, <1>3, <1>4, <1>5, <1>6,
     DoneSimulates, PopFailsSimulates, PushFailsSimulates DEF StackNext, Shapes

\* Whatever words and however many of them: seen from the instructions, popping and
\* pushing one word at a time is taking operands and leaving results at once, and an
\* instruction fails only when its own operands are missing, or when it would leave a
\* word more than there is room for.
THEOREM StackKeepsItsContract == StackSpec => WorksAtOnce
<1>1. New => Sound /\ Contract!ContractInit
  BY NewSound
<1>2. Sound /\ [StackNext]_stackVars => Sound' /\ [Contract!ContractNext]_(Contract!contract)
  BY NextSound, NextSimulates
<1> QED
  BY <1>1, <1>2, PTL DEF StackSpec, WorksAtOnce, Contract!ContractSpec

===============================================================================
