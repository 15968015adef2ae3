---------------------------- MODULE IndicesProofs ----------------------------
(***************************************************************************)
(* Proofs about Indices, for all entropies and digests of any callers.     *)
(***************************************************************************)
EXTENDS Indices, WellFoundedInduction, SequenceTheorems, TLAPS

\* A bit is 0 or 1.
LEMMA BitRange ==
  ASSUME NEW bytes, NEW p \in Nat, bytes[(p \div 8) + 1] \in Byte
  PROVE  read_bit(bytes, p) \in {0, 1}
<1> DEFINE byte  == bytes[(p \div 8) + 1]
           shift == Shift(7 - (p % 8))
<1>1. p % 8 \in 0..7
  OBVIOUS
<1>2. shift \in {1, 2, 4, 8, 16, 32, 64, 128}
  BY <1>1 DEF Shift, PowerOfTwo
<1>3. byte \in Int
  BY DEF Byte
<1>4. read_bit(bytes, p) = (byte \div shift) % 2
  BY DEF read_bit
<1> HIDE DEF byte, shift
<1>5. byte \div shift \in Int
  BY <1>2, <1>3
<1>6. QED
  BY <1>4, <1>5

\* A word count and the entropy that belongs to it make whole groups of bits.
LEMMA Sizes ==
  ASSUME word_count \in SupportedWordCounts,
         Len(entropy) = entropy_bytes_for_word_count(word_count)
  PROVE  /\ entropy_bit_count \in Nat
         /\ checksum_bit_count \in 4..8
         /\ entropy_bit_count = 8 * Len(entropy)
         /\ combined_bit_count = word_count * bits_per_word
<1>1. CASE word_count = 12
  BY <1>1 DEF entropy_bytes_for_word_count, entropy_bit_count,
              checksum_bit_count, combined_bit_count, bits_per_word
<1>2. CASE word_count = 15
  BY <1>2 DEF entropy_bytes_for_word_count, entropy_bit_count,
              checksum_bit_count, combined_bit_count, bits_per_word
<1>3. CASE word_count = 18
  BY <1>3 DEF entropy_bytes_for_word_count, entropy_bit_count,
              checksum_bit_count, combined_bit_count, bits_per_word
<1>4. CASE word_count = 21
  BY <1>4 DEF entropy_bytes_for_word_count, entropy_bit_count,
              checksum_bit_count, combined_bit_count, bits_per_word
<1>5. CASE word_count = 24
  BY <1>5 DEF entropy_bytes_for_word_count, entropy_bit_count,
              checksum_bit_count, combined_bit_count, bits_per_word
<1>6. QED
  BY <1>1, <1>2, <1>3, <1>4, <1>5 DEF SupportedWordCounts

\* While a word is packed its first `bit' bits make a number of that many
\* bits: the 16-bit index never wraps, and eleven bits stay below 2048.
PackingInv ==
  /\ pc = "checking" => word_number = 0 /\ bit = 0 /\ index = 0
  /\ pc = "packing" =>
       /\ word_count \in SupportedWordCounts
       /\ Len(entropy) = entropy_bytes_for_word_count(word_count)
       /\ word_number < word_count
       /\ index < Shift(bit)

IInv == TypeOK /\ PackingInv /\ NoInternalError

\* The bits read while packing lie within the entropy and the checksum.
LEMMA PositionInRange ==
  ASSUME IInv, pc = "packing", bit < bits_per_word
  PROVE  /\ combined_position \in Nat
         /\ combined_position < combined_bit_count
<1>1. /\ word_number \in 0..24 /\ bit \in 0..11 /\ word_number < word_count
      /\ bit < 11 /\ word_count \in {12, 15, 18, 21, 24}
  <2>1. word_number \in 0..24 /\ bit \in 0..11
    BY DEF IInv, TypeOK, bits_per_word
  <2>2. word_number < word_count /\ word_count \in {12, 15, 18, 21, 24}
    BY DEF IInv, PackingInv, SupportedWordCounts
  <2>3. QED
    BY <2>1, <2>2 DEF bits_per_word
<1>2. combined_bit_count = word_count * 11
  BY Sizes DEF IInv, PackingInv, bits_per_word
<1>3. combined_position = word_number * 11 + bit
  BY DEF combined_position, bits_per_word
<1>4. QED
  BY <1>1, <1>2, <1>3

\* The bit that make_indices reads next is 0 or 1.
LEMMA ValueRange ==
  ASSUME IInv, pc = "packing", bit < bits_per_word
  PROVE  value \in {0, 1}
<1>1. /\ combined_position \in Nat
      /\ combined_position < combined_bit_count
  BY PositionInRange
<1>2. /\ entropy_bit_count \in Nat
      /\ checksum_bit_count \in 4..8
      /\ entropy_bit_count = 8 * Len(entropy)
  BY Sizes DEF IInv, PackingInv
<1>3. entropy \in Seq(Byte) /\ digest \in [1..sha256_size -> Byte]
  <2>1. entropy \in Entropies /\ digest \in Digests
    BY DEF IInv, TypeOK
  <2>2. QED
    BY <2>1, IndicesAssumption
<1>4. CASE combined_position < entropy_bit_count
  <2> DEFINE p == combined_position
  <2>1. Len(entropy) \in Nat /\ \A i \in 1..Len(entropy) : entropy[i] \in Byte
    BY <1>3, LenProperties, ElementOfSeq
  <2>2. value = read_bit(entropy, p)
    BY <1>4 DEF value
  <2>3. p \in Nat /\ p < 8 * Len(entropy)
    BY <1>1, <1>2, <1>4
  <2> HIDE DEF p
  <2>4. (p \div 8) + 1 \in 1..Len(entropy)
    BY <2>1, <2>3
  <2>5. QED
    BY <2>1, <2>2, <2>3, <2>4, BitRange
<1>5. CASE ~ (combined_position < entropy_bit_count)
  <2> DEFINE p == combined_position - entropy_bit_count
  <2>1. value = read_bit(digest, p)
    BY <1>5 DEF value
  <2>2. p \in 0..7
    BY <1>1, <1>2, <1>5 DEF combined_bit_count
  <2> HIDE DEF p
  <2>3. (p \div 8) + 1 = 1
    BY <2>2
  <2>4. digest[1] \in Byte
    BY <1>3 DEF sha256_size
  <2>5. QED
    BY <2>1, <2>2, <2>3, <2>4, BitRange
<1>6. QED
  BY <1>4, <1>5

\* Doubling the bound of an index.
LEMMA ShiftDoubles ==
  ASSUME NEW b \in 0..10
  PROVE  /\ Shift(b + 1) = 2 * Shift(b)
         /\ Shift(b) \in 1..1024
<1>1. b \in {0, 1, 2, 3, 4, 5, 6, 7, 8, 9, 10}
  OBVIOUS
<1>2. QED
  BY <1>1 DEF Shift, PowerOfTwo

\* No step of make_indices, nor stuttering, falsifies the inductive invariant.
LEMMA IInvStep ==
  ASSUME IInv, [Next]_vars
  PROVE  IInv'
<1>0. TypeOK /\ PackingInv /\ NoInternalError
  BY DEF IInv
<1>1. CASE UNCHANGED vars
  <2>1. TypeOK' /\ NoInternalError'
    BY <1>0, <1>1, Zenon DEF vars, inputVars, TypeOK, NoInternalError
  <2>2. PackingInv'
    BY <1>0, <1>1 DEF vars, inputVars, PackingInv,
                      entropy_bytes_for_word_count
  <2>3. QED
    BY <2>1, <2>2 DEF IInv
<1>2. CASE Check
  <2>1. UNCHANGED <<word_count, entropy, digest, word_number, bit, index,
                    indices>>
    BY <1>2 DEF Check, inputVars
  <2>2. pc = "checking" /\ pc' \in {"packing", "threw"}
    BY <1>2 DEF Check, Throw
  <2>3. error' \in {"WordCount", "EntropySize"} \/ error' = error
    <3>1. word_count \in SupportedWordCounts
          /\ Len(entropy) = entropy_bytes_for_word_count(word_count)
          => combined_bit_count = word_count * bits_per_word
      BY Sizes
    <3>2. QED
      BY <1>2, <3>1 DEF Check, Throw
  <2>4. TypeOK' /\ NoInternalError'
    BY <1>0, <2>1, <2>2, <2>3 DEF TypeOK, NoInternalError, Errors
  <2>5. pc' = "packing" =>
          /\ word_count \in SupportedWordCounts
          /\ Len(entropy) = entropy_bytes_for_word_count(word_count)
    BY <1>2 DEF Check, Throw
  <2>6. word_number = 0 /\ bit = 0 /\ index = 0
    BY <1>0, <2>2 DEF PackingInv
  <2>7. 0 < Shift(0)
    BY DEF Shift, PowerOfTwo
  <2>8. word_count \in SupportedWordCounts => 0 < word_count
    BY DEF SupportedWordCounts
  <2>9. PackingInv'
    BY <2>1, <2>2, <2>5, <2>6, <2>7, <2>8
       DEF PackingInv, entropy_bytes_for_word_count
  <2>10. QED
    BY <2>4, <2>9 DEF IInv
<1>3. CASE PackBit
  <2>1. /\ UNCHANGED <<pc, word_count, entropy, digest, word_number, indices,
                       error>>
        /\ pc = "packing" /\ bit < bits_per_word
        /\ index' = (index * 2 + value) % 65536
        /\ bit' = bit + 1
    BY <1>3 DEF PackBit, inputVars, MoreBits
  <2>2. bit \in 0..10 /\ index \in Nat /\ index < Shift(bit)
    BY <1>0, <2>1 DEF TypeOK, Word16, PackingInv, bits_per_word
  <2>3. value \in {0, 1}
    BY <2>1, ValueRange
  <2>4. Shift(bit + 1) = 2 * Shift(bit) /\ Shift(bit) \in 1..1024
    BY <2>2, ShiftDoubles
  <2>5. /\ index * 2 + value \in Nat
        /\ index * 2 + value < 2048
        /\ index * 2 + value < Shift(bit + 1)
    BY <2>2, <2>3, <2>4
  <2>6. index' = index * 2 + value
    BY <2>1, <2>5
  <2>7. TypeOK'
    <3>1. index' \in Word16 /\ bit' \in 0..bits_per_word
      BY <2>1, <2>2, <2>5, <2>6 DEF Word16, bits_per_word
    <3>2. QED
      BY <1>0, <2>1, <3>1 DEF TypeOK
  <2>8. PackingInv'
    <3>1. pc' # "checking" /\ index' < Shift(bit')
      BY <2>1, <2>5, <2>6
    <3>2. word_count' \in SupportedWordCounts /\ word_number' < word_count'
          /\ Len(entropy') = entropy_bytes_for_word_count(word_count')
      BY <1>0, <2>1 DEF PackingInv
    <3>3. QED
      BY <3>1, <3>2, Zenon DEF PackingInv, entropy_bytes_for_word_count
  <2>9. NoInternalError'
    BY <1>0, <2>1 DEF NoInternalError
  <2>10. QED
    BY <2>7, <2>8, <2>9 DEF IInv
<1>4. CASE PushIndex
  <2>1. /\ UNCHANGED <<word_count, entropy, digest>>
        /\ pc = "packing" /\ bit = bits_per_word
    <3>1. bit \in 0..bits_per_word
      BY <1>0 DEF TypeOK
    <3>2. QED
      BY <1>4, <3>1 DEF PushIndex, inputVars, MoreBits, bits_per_word
  <2>2. index \in WordIndex
    <3>1. Shift(bit) = 2048 /\ index < Shift(bit) /\ index \in Nat
      BY <1>0, <2>1 DEF PackingInv, TypeOK, Word16, Shift, PowerOfTwo,
                           bits_per_word
    <3>2. QED
      BY <3>1 DEF WordIndex, wordlist_size
  <2>3. /\ indices' = Append(indices, index)
        /\ word_number' = word_number + 1
        /\ bit' = 0 /\ index' = 0
        /\ pc' = IF word_number + 1 = word_count THEN "returned" ELSE "packing"
        /\ UNCHANGED error
    BY <1>4, <2>2 DEF PushIndex, WordIndex, wordlist_size, LastWord
  <2>4. /\ word_count \in {12, 15, 18, 21, 24}
        /\ word_number \in 0..24 /\ word_number < word_count
    BY <1>0, <2>1 DEF PackingInv, TypeOK, SupportedWordCounts
  <2>5. TypeOK'
    <3>1. indices' \in Seq(WordIndex)
      BY <1>0, <2>2, <2>3, AppendProperties DEF TypeOK
    <3>2. word_number' \in 0..24
      BY <2>3, <2>4
    <3>3. bit' \in 0..bits_per_word /\ index' \in Word16
      BY <2>3 DEF bits_per_word, Word16
    <3>4. QED
      BY <1>0, <2>1, <2>3, <3>1, <3>2, <3>3 DEF TypeOK
  <2>6. PackingInv'
    <3>1. pc' = "packing" => word_number' < word_count
      BY <2>3, <2>4
    <3>2. index' < Shift(bit')
      BY <2>3 DEF Shift, PowerOfTwo
    <3>3. QED
      BY <1>0, <2>1, <2>3, <3>1, <3>2
         DEF PackingInv, entropy_bytes_for_word_count
  <2>7. NoInternalError'
    BY <1>0, <2>3 DEF NoInternalError
  <2>8. QED
    BY <2>5, <2>6, <2>7 DEF IInv
<1>5. QED
  BY <1>1, <1>2, <1>3, <1>4 DEF Next, Terminated

\* Hence the inductive invariant always holds.
LEMMA IInvariant == Spec => []IInv
<1>1. Init => IInv
  <2> SUFFICES ASSUME Init PROVE IInv
    OBVIOUS
  <2>1. TypeOK
    BY EmptySeq DEF Init, TypeOK, Word16, bits_per_word
  <2>2. PackingInv /\ NoInternalError
    BY DEF Init, PackingInv, NoInternalError
  <2>3. QED
    BY <2>1, <2>2 DEF IInv
<1>2. IInv /\ [Next]_vars => IInv'
  BY IInvStep
<1>3. QED
  BY <1>1, <1>2, PTL DEF Spec

\* The two logic errors of make_indices are unreachable, for every entropy and
\* every digest.
THEOREM InternalErrorsUnreachable == Spec => []NoInternalError
<1>1. IInv => NoInternalError
  BY DEF IInv
<1>2. QED
  BY <1>1, IInvariant, PTL

\* Only the entropy and the checksum bits of the digest are read.
THEOREM ChecksumOnly == Spec => []ReadsOnlyChecksum
<1>1. IInv => ReadsOnlyChecksum
  BY PositionInRange DEF ReadsOnlyChecksum, combined_bit_count
<1>2. QED
  BY <1>1, IInvariant, PTL

\* Every variable keeps its type: what is packed are at most 24 words of eleven
\* bits, each an index of the wordlist.
THEOREM IndicesTypeCorrect == Spec => []TypeOK
<1>1. IInv => TypeOK
  BY DEF IInv
<1>2. QED
  BY <1>1, IInvariant, PTL

-------------------------------------------------------------------------------
(* Lemmas about flattening rows of equal length.                           *)

\* Every non-empty set of natural numbers has a least element.
LEMMA LeastExists ==
  ASSUME NEW D \in SUBSET Nat, D # {}
  PROVE  \E i \in D : \A j \in D : i <= j
<1>1. IsWellFoundedOn(OpToRel(<, Nat), Nat)
  BY NatLessThanWellFounded
<1>2. PICK x \in D : \A y \in D : ~ (<<y, x>> \in OpToRel(<, Nat))
  BY <1>1, WFMin
<1>3. \A y \in D : ~ (y < x)
  BY <1>2 DEF OpToRel
<1>4. x \in Nat /\ \A y \in D : y \in Nat
  OBVIOUS
<1> HIDE <1>2
<1>5. QED
  BY <1>3, <1>4

\* The recursion that FlattenSeq solves, up to the m-th row.
FlattensTo(rows, m, f) ==
  f = [i \in 1..m |-> IF i = 1 THEN rows[i] ELSE f[i - 1] \o rows[i]]

\* A solution up to one row is a solution up to the next.
LEMMA FlattensNext ==
  ASSUME NEW rows, NEW m \in Nat, m # 0, NEW g, FlattensTo(rows, m - 1, g)
  PROVE  \E f : FlattensTo(rows, m, f)
<1> DEFINE next == IF m = 1 THEN rows[m] ELSE g[m - 1] \o rows[m]
           f == [i \in 1..m |-> IF i = m THEN next ELSE g[i]]
<1>1. \A i \in 1..m : i = m \/ (i \in 1..m - 1 /\ i # m)
  OBVIOUS
<1>2. \A i \in 1..m : i # 1 => i - 1 \in 1..m - 1 /\ i - 1 \in 1..m
                               /\ i - 1 # m
  OBVIOUS
<1>3. \A i \in 1..m - 1 :
        g[i] = IF i = 1 THEN rows[i] ELSE g[i - 1] \o rows[i]
  BY DEF FlattensTo
<1>4. \A i \in 1..m - 1 : f[i] = g[i]
  OBVIOUS
<1>5. m \in 1..m /\ f[m] = next
  OBVIOUS
<1>6. ASSUME NEW i \in 1..m
      PROVE  f[i] = IF i = 1 THEN rows[i] ELSE f[i - 1] \o rows[i]
  <2> HIDE DEF f
  <2>1. CASE i = m
    BY <1>2, <1>4, <1>5, <2>1
  <2>2. CASE i \in 1..m - 1
    <3>1. i # 1 => f[i - 1] = g[i - 1]
      BY <1>2, <1>4
    <3>2. QED
      BY <1>3, <1>4, <2>2, <3>1
  <2>3. QED
    BY <1>1, <2>1, <2>2
<1>7. f = [i \in 1..m |-> f[i]]
  OBVIOUS
<1>8. FlattensTo(rows, m, f)
  <2> HIDE DEF f
  <2>1. QED
    BY <1>6, <1>7 DEF FlattensTo
<1>9. QED
  BY <1>8

\* There is a solution for every number of rows: a least number without one
\* would have one for the number before it.
LEMMA FlattensExists ==
  ASSUME NEW rows
  PROVE  \A m \in Nat : \E f : FlattensTo(rows, m, f)
<1> DEFINE Wrong == {m \in Nat : ~ \E f : FlattensTo(rows, m, f)}
<1>1. Wrong = {}
  <2> SUFFICES ASSUME Wrong # {} PROVE FALSE
    OBVIOUS
  <2>1. PICK m \in Wrong : \A j \in Wrong : m <= j
    <3>1. Wrong \in SUBSET Nat
      OBVIOUS
    <3> HIDE DEF Wrong
    <3>2. QED
      BY <3>1, LeastExists
  <2>2. m \in Nat /\ ~ \E f : FlattensTo(rows, m, f)
    BY <2>1
  <2>3. m # 0
    <3>1. FlattensTo(rows, 0, [i \in 1..0 |-> <<>>])
      <4>1. \A i \in 1..0 : FALSE
        OBVIOUS
      <4>2. QED
        BY <4>1 DEF FlattensTo
    <3>2. QED
      BY <2>2, <3>1
  <2>4. m - 1 \in Nat /\ ~ (m <= m - 1)
    BY <2>2, <2>3
  <2>5. m - 1 \notin Wrong
    BY <2>1, <2>4
  <2>6. \E g : FlattensTo(rows, m - 1, g)
    BY <2>4, <2>5
  <2>7. QED
    BY <2>2, <2>3, <2>6, FlattensNext
<1>2. QED
  BY <1>1

\* The places of the elements in rows of n elements: those of earlier rows come
\* before those of the j-th.
LEMMA RowPlaces ==
  ASSUME NEW n \in Nat, n = 8 \/ n = 11, NEW j \in Nat, j # 0
  PROVE  /\ n * (j - 1) \in Nat /\ n * (j - 1) + n = n * j
         /\ \A i \in 1..j - 1 : \A k \in 1..n :
              n * (i - 1) + k \in 1..n * (j - 1)
<1>1. CASE n = 8
  BY <1>1
<1>2. CASE n = 11
  BY <1>2
<1>3. QED
  BY <1>1, <1>2

\* Rows of n elements flatten to one sequence in which the k-th element of the
\* i-th row has place n * (i - 1) + k.
LEMMA FlattenRows ==
  ASSUME NEW S, NEW rows \in Seq(Seq(S)), Len(rows) # 0,
         NEW n \in Nat, n = 8 \/ n = 11,
         \A i \in 1..Len(rows) : Len(rows[i]) = n
  PROVE  /\ FlattenSeq(rows) \in Seq(S)
         /\ Len(FlattenSeq(rows)) = n * Len(rows)
         /\ \A i \in 1..Len(rows) : \A k \in 1..n :
              FlattenSeq(rows)[n * (i - 1) + k] = rows[i][k]
<1> DEFINE l == Len(rows)
<1>1. l \in Nat /\ l \in 1..l /\ \A i \in 1..l : rows[i] \in Seq(S)
  BY LenProperties, ElementOfSeq
<1> HIDE DEF l
<1>2. PICK g : FlattensTo(rows, l, g)
  BY <1>1, FlattensExists
<1> DEFINE f == CHOOSE f : FlattensTo(rows, l, f)
<1>3. FlattensTo(rows, l, f)
  BY <1>2
<1>4. FlattenSeq(rows) = f[l]
  BY <1>1 DEF FlattenSeq, FlattensTo, l
<1> HIDE DEF f
<1>5. \A i \in 1..l : f[i] = IF i = 1 THEN rows[i] ELSE f[i - 1] \o rows[i]
  BY <1>3 DEF FlattensTo
<1> DEFINE Right(j) ==
             /\ f[j] \in Seq(S) /\ Len(f[j]) = n * j
             /\ \A i \in 1..j : \A k \in 1..n :
                  f[j][n * (i - 1) + k] = rows[i][k]
           Wrong == {j \in 1..l : ~ Right(j)}
<1>6. Wrong = {}
  <2> SUFFICES ASSUME Wrong # {} PROVE FALSE
    OBVIOUS
  <2>1. PICK j \in Wrong : \A i \in Wrong : j <= i
    <3>1. \A i \in 1..l : i \in Nat
      BY <1>1
    <3>2. Wrong \in SUBSET Nat
      BY <3>1, Zenon
    <3> HIDE DEF Wrong
    <3>3. QED
      BY <3>2, LeastExists
  <2>2. j \in 1..l /\ ~ Right(j)
    BY <2>1
  <2>3. /\ rows[j] \in Seq(S) /\ Len(rows[j]) = n
        /\ n * 1 = n /\ n * (1 - 1) = 0
    BY <1>1, <2>2 DEF l
  <2>4. j # 1
    <3> SUFFICES ASSUME j = 1 PROVE FALSE
      OBVIOUS
    <3>1. f[1] = rows[1]
      BY <1>5, <2>2
    <3>2. f[1] \in Seq(S) /\ Len(f[1]) = n * 1
      BY <2>3, <3>1
    <3>3. ASSUME NEW i \in 1..1, NEW k \in 1..n
          PROVE  f[1][n * (i - 1) + k] = rows[i][k]
      <4>1. i = 1 /\ n * (i - 1) + k = k
        OBVIOUS
      <4>2. QED
        BY <3>1, <4>1
    <3>4. QED
      BY <2>2, <3>2, <3>3
  <2>5. j - 1 \in 1..l /\ ~ (j <= j - 1) /\ j \in Nat
    BY <1>1, <2>2, <2>4
  <2>6. Right(j - 1)
    BY <2>1, <2>5
  <2>7. f[j] = f[j - 1] \o rows[j]
    BY <1>5, <2>2, <2>4
  <2> DEFINE a == f[j - 1]
             b == f[j]
             r == rows[j]
  <2>8. /\ a \in Seq(S) /\ Len(a) = n * (j - 1)
        /\ \A i \in 1..j - 1 : \A k \in 1..n :
             a[n * (i - 1) + k] = rows[i][k]
    BY <2>6
  <2>9. r \in Seq(S) /\ Len(r) = n
    BY <2>3
  <2>10. b = a \o r
    BY <2>7
  <2> HIDE DEF a, b, r
  <2>11. /\ b \in Seq(S) /\ Len(b) = Len(a) + Len(r)
         /\ \A i \in 1..Len(a) + Len(r) :
              b[i] = IF i <= Len(a) THEN a[i] ELSE r[i - Len(a)]
    <3>1. a \in Seq(S) /\ r \in Seq(S)
      BY <2>8, <2>9
    <3>2. QED
      BY <2>10, <3>1, ConcatProperties
  <2>12. /\ n * (j - 1) \in Nat /\ n * (j - 1) + n = n * j
         /\ \A i \in 1..j - 1 : \A k \in 1..n :
              n * (i - 1) + k \in 1..n * (j - 1)
    <3>1. j # 0
      BY <1>1, <2>2
    <3>2. QED
      BY <2>5, <3>1, RowPlaces
  <2>13. Len(b) = n * j
    BY <2>8, <2>9, <2>11, <2>12
  <2>14. ASSUME NEW i \in 1..j, NEW k \in 1..n
         PROVE  b[n * (i - 1) + k] = rows[i][k]
    <3>1. CASE i = j
      <4> DEFINE m == n * (j - 1)
      <4>1. m \in Nat /\ Len(a) = m
        BY <2>8, <2>12
      <4> HIDE DEF m
      <4>2. m + k \in 1..Len(a) + Len(r) /\ ~ (m + k <= Len(a))
            /\ (m + k) - Len(a) = k
        BY <2>9, <4>1
      <4>3. b[m + k] = r[k]
        BY <2>11, <4>2
      <4>4. QED
        BY <3>1, <4>3 DEF m, r
    <3>2. CASE i # j
      <4> DEFINE p == n * (i - 1) + k
      <4>1. i \in 1..j - 1
        BY <2>5, <3>2
      <4>2. p \in 1..Len(a) /\ a[p] = rows[i][k]
        BY <2>8, <2>12, <4>1
      <4> HIDE DEF p
      <4>3. Len(a) \in Nat /\ Len(r) \in Nat
        BY <2>8, <2>9, <2>12
      <4>4. p \in 1..Len(a) + Len(r) /\ p <= Len(a)
        BY <4>2, <4>3
      <4>5. b[p] = a[p]
        BY <2>11, <4>4
      <4>6. QED
        BY <4>2, <4>5 DEF p
    <3>3. QED
      BY <3>1, <3>2
  <2>15. Right(j)
    BY <2>11, <2>13, <2>14 DEF b
  <2>16. QED
    BY <2>2, <2>15
<1>7. Right(l)
  BY <1>1, <1>6
<1>8. QED
  BY <1>4, <1>7 DEF l

-------------------------------------------------------------------------------
(* The binary digits of a byte are the bits that read_bit takes from it.   *)

\* The weighted sum of the digits that shifting and masking yield.
LEMMA DigitsSum ==
  ASSUME NEW x \in 0..255
  PROVE  x = ((x \div 128) % 2) * 128 + ((x \div 64) % 2) * 64
               + ((x \div 32) % 2) * 32 + ((x \div 16) % 2) * 16
               + ((x \div 8) % 2) * 8 + ((x \div 4) % 2) * 4
               + ((x \div 2) % 2) * 2 + ((x \div 1) % 2)
<1>1. /\ x \div 1 = x
      /\ x \div 2 = 2 * (x \div 4) + ((x \div 2) % 2)
      /\ x \div 4 = 2 * (x \div 8) + ((x \div 4) % 2)
      /\ x \div 8 = 2 * (x \div 16) + ((x \div 8) % 2)
      /\ x = 2 * (x \div 2) + (x % 2)
  OBVIOUS
<1>2. /\ x \div 16 = 2 * (x \div 32) + ((x \div 16) % 2)
      /\ x \div 32 = 2 * (x \div 64) + ((x \div 32) % 2)
      /\ x \div 64 = 2 * (x \div 128) + ((x \div 64) % 2)
      /\ x \div 128 = (x \div 128) % 2
  OBVIOUS
<1>3. QED
  BY <1>1, <1>2

\* Eight digits are a sequence.
LEMMA DigitsAreSeq ==
  ASSUME NEW f \in [1..8 -> {0, 1}]
  PROVE  f \in Seq({0, 1}) /\ Len(f) = 8
<1>1. 8 \in Nat /\ \A i \in 1..8 : f[i] \in {0, 1}
  OBVIOUS
<1>2. f = [i \in 1..8 |-> f[i]]
  OBVIOUS
<1>3. [i \in 1..8 |-> f[i]] \in Seq({0, 1})
  BY <1>1, IsASeq
<1>4. f \in Seq({0, 1}) /\ DOMAIN f = 1..8
  BY <1>2, <1>3
<1>5. QED
  BY <1>4, LenProperties

\* The digits of a byte, the highest first, are its bits.
LEMMA DigitsAreBits ==
  ASSUME NEW x \in Byte
  PROVE  /\ BinaryDigits[x] \in [1..8 -> {0, 1}]
         /\ \A b \in 1..8 : BinaryDigits[x][b] = (x \div Shift(8 - b)) % 2
<1> DEFINE Sum(d) == d[1] * 128 + d[2] * 64 + d[3] * 32 + d[4] * 16
                       + d[5] * 8 + d[6] * 4 + d[7] * 2 + d[8]
           e == [b \in 1..8 |-> (x \div Shift(8 - b)) % 2]
           d == BinaryDigits[x]
<1>1. x \in 0..255
  BY DEF Byte
<1>2. /\ e[1] = (x \div 128) % 2 /\ e[2] = (x \div 64) % 2
      /\ e[3] = (x \div 32) % 2 /\ e[4] = (x \div 16) % 2
      /\ e[5] = (x \div 8) % 2 /\ e[6] = (x \div 4) % 2
      /\ e[7] = (x \div 2) % 2 /\ e[8] = (x \div 1) % 2
  BY DEF Shift, PowerOfTwo
<1>3. e \in [1..8 -> {0, 1}]
  <2>1. \A b \in 1..8 : e[b] \in {0, 1}
    <3>1. \A b \in 1..8 : b \in {1, 2, 3, 4, 5, 6, 7, 8}
      OBVIOUS
    <3> HIDE DEF e
    <3>2. /\ e[1] \in {0, 1} /\ e[2] \in {0, 1} /\ e[3] \in {0, 1}
          /\ e[4] \in {0, 1} /\ e[5] \in {0, 1} /\ e[6] \in {0, 1}
          /\ e[7] \in {0, 1} /\ e[8] \in {0, 1}
      BY <1>1, <1>2
    <3>3. QED
      BY <3>1, <3>2
  <2>2. QED
    BY <2>1
<1> HIDE DEF e
<1>4. x = Sum(e)
  BY <1>1, <1>2, DigitsSum
<1>5. d = CHOOSE c \in [1..8 -> {0, 1}] : x = Sum(c)
  BY DEF BinaryDigits
<1>6. d \in [1..8 -> {0, 1}] /\ x = Sum(d)
  <2> HIDE DEF Sum, d
  <2>1. QED
    BY <1>3, <1>4, <1>5
<1> HIDE DEF d
<1>7. \A b \in 1..8 : b \in {1, 2, 3, 4, 5, 6, 7, 8}
  OBVIOUS
<1>8. /\ d[1] = e[1] /\ d[2] = e[2] /\ d[3] = e[3] /\ d[4] = e[4]
      /\ d[5] = e[5] /\ d[6] = e[6] /\ d[7] = e[7] /\ d[8] = e[8]
  <2> DEFINE d1 == d[1]  d2 == d[2]  d3 == d[3]  d4 == d[4]
             d5 == d[5]  d6 == d[6]  d7 == d[7]  d8 == d[8]
             e1 == e[1]  e2 == e[2]  e3 == e[3]  e4 == e[4]
             e5 == e[5]  e6 == e[6]  e7 == e[7]  e8 == e[8]
  <2>1. /\ d1 \in {0, 1} /\ d2 \in {0, 1} /\ d3 \in {0, 1} /\ d4 \in {0, 1}
        /\ d5 \in {0, 1} /\ d6 \in {0, 1} /\ d7 \in {0, 1} /\ d8 \in {0, 1}
    BY <1>6
  <2>2. /\ e1 \in {0, 1} /\ e2 \in {0, 1} /\ e3 \in {0, 1} /\ e4 \in {0, 1}
        /\ e5 \in {0, 1} /\ e6 \in {0, 1} /\ e7 \in {0, 1} /\ e8 \in {0, 1}
    BY <1>3
  <2>3. d1 * 128 + d2 * 64 + d3 * 32 + d4 * 16 + d5 * 8 + d6 * 4 + d7 * 2 + d8
          = e1 * 128 + e2 * 64 + e3 * 32 + e4 * 16 + e5 * 8 + e6 * 4 + e7 * 2
              + e8
    BY <1>4, <1>6
  <2> HIDE DEF d1, d2, d3, d4, d5, d6, d7, d8, e1, e2, e3, e4, e5, e6, e7, e8
  <2>4. d1 = e1
    BY <2>1, <2>2, <2>3
  <2>5. d2 = e2
    BY <2>1, <2>2, <2>3, <2>4
  <2>6. d3 = e3
    BY <2>1, <2>2, <2>3, <2>4, <2>5
  <2>7. d4 = e4
    BY <2>1, <2>2, <2>3, <2>4, <2>5, <2>6
  <2>8. d5 = e5
    BY <2>1, <2>2, <2>3, <2>4, <2>5, <2>6, <2>7
  <2>9. d6 = e6
    BY <2>1, <2>2, <2>3, <2>4, <2>5, <2>6, <2>7, <2>8
  <2>10. d7 = e7
    BY <2>1, <2>2, <2>3, <2>4, <2>5, <2>6, <2>7, <2>8, <2>9
  <2>11. d8 = e8
    BY <2>1, <2>2, <2>3, <2>4, <2>5, <2>6, <2>7, <2>8, <2>9, <2>10
  <2>12. QED
    BY <2>4, <2>5, <2>6, <2>7, <2>8, <2>9, <2>10, <2>11
       DEF d1, d2, d3, d4, d5, d6, d7, d8, e1, e2, e3, e4, e5, e6, e7, e8
<1>9. \A b \in 1..8 : d[b] = e[b]
  BY <1>7, <1>8
<1>10. \A b \in 1..8 : e[b] = (x \div Shift(8 - b)) % 2
  BY DEF e
<1>11. QED
  BY <1>6, <1>9, <1>10 DEF d

\* The bits of a string of bytes are those that read_bit finds at each place.
LEMMA BitsAreRead ==
  ASSUME NEW bytes \in Seq(Byte), Len(bytes) # 0
  PROVE  /\ Bits(bytes) \in Seq({0, 1})
         /\ Len(Bits(bytes)) = 8 * Len(bytes)
         /\ \A b \in 1..8 * Len(bytes) :
              Bits(bytes)[b] = read_bit(bytes, b - 1)
<1> DEFINE l    == Len(bytes)
           rows == [i \in 1..l |-> BinaryDigits[bytes[i]]]
<1>1. l \in Nat /\ \A i \in 1..l : bytes[i] \in Byte
  BY LenProperties, ElementOfSeq
<1> HIDE DEF l
<1>2. ASSUME NEW i \in 1..l
      PROVE  /\ rows[i] \in Seq({0, 1}) /\ Len(rows[i]) = 8
             /\ \A b \in 1..8 : rows[i][b] = (bytes[i] \div Shift(8 - b)) % 2
  <2>1. /\ BinaryDigits[bytes[i]] \in [1..8 -> {0, 1}]
        /\ \A b \in 1..8 :
             BinaryDigits[bytes[i]][b] = (bytes[i] \div Shift(8 - b)) % 2
    BY <1>1, DigitsAreBits
  <2>2. rows[i] = BinaryDigits[bytes[i]]
    OBVIOUS
  <2> HIDE DEF rows
  <2>3. rows[i] \in Seq({0, 1}) /\ Len(rows[i]) = 8
    <3>1. rows[i] \in [1..8 -> {0, 1}]
      BY <2>1, <2>2, Zenon
    <3>2. QED
      BY <3>1, DigitsAreSeq
  <2>4. QED
    BY <2>1, <2>2, <2>3
<1>3. rows \in Seq(Seq({0, 1})) /\ Len(rows) = l
  BY <1>1, <1>2, IsASeq, LenProperties
<1>4. Bits(bytes) = FlattenSeq(rows)
  BY DEF Bits, l
<1> HIDE DEF rows
<1>5. /\ FlattenSeq(rows) \in Seq({0, 1}) /\ Len(FlattenSeq(rows)) = 8 * l
      /\ \A i \in 1..l : \A b \in 1..8 :
           FlattenSeq(rows)[8 * (i - 1) + b] = rows[i][b]
  <2>1. l # 0 /\ \A i \in 1..l : Len(rows[i]) = 8
    BY <1>2 DEF l
  <2>2. \A i \in 1..Len(rows) : Len(rows[i]) = 8
    BY <1>3, <2>1
  <2> DEFINE n == 8
  <2>3. n \in Nat /\ (n = 8 \/ n = 11) /\ Len(rows) # 0
        /\ \A i \in 1..Len(rows) : Len(rows[i]) = n
    BY <1>3, <2>1, <2>2
  <2> HIDE DEF n
  <2>4. /\ FlattenSeq(rows) \in Seq({0, 1})
        /\ Len(FlattenSeq(rows)) = n * Len(rows)
        /\ \A i \in 1..Len(rows) : \A k \in 1..n :
             FlattenSeq(rows)[n * (i - 1) + k] = rows[i][k]
    BY <1>3, <2>3, FlattenRows
  <2>5. QED
    BY <1>3, <2>4 DEF n
<1>6. ASSUME NEW c \in 1..8 * l
      PROVE  Bits(bytes)[c] = read_bit(bytes, c - 1)
  <2> DEFINE p == c - 1
             i == (p \div 8) + 1
             b == (p % 8) + 1
  <2>1. /\ i \in 1..l /\ b \in 1..8 /\ 8 * (i - 1) + b = c
        /\ 8 - b = 7 - (p % 8)
    BY <1>1
  <2>2. read_bit(bytes, p) = (bytes[i] \div Shift(8 - b)) % 2
    <3> HIDE DEF p
    <3>1. 8 - b = 7 - (p % 8)
      BY <2>1
    <3>2. QED
      BY <3>1 DEF read_bit
  <2>3. Bits(bytes)[8 * (i - 1) + b] = rows[i][b]
    <3> HIDE DEF i, b
    <3>1. QED
      BY <1>4, <1>5, <2>1
  <2> HIDE DEF i, b
  <2>4. QED
    BY <1>2, <2>1, <2>2, <2>3
<1>7. QED
  BY <1>4, <1>5, <1>6 DEF l

-------------------------------------------------------------------------------
(* The packed indices hold the bits of the entropy and of the checksum.    *)

\* The bit of the entropy and the checksum behind it at place p.
BitAt(e, d, p) ==
  IF p < Len(e) * 8 THEN read_bit(e, p) ELSE read_bit(d, p - Len(e) * 8)

\* The digits of each index are the eleven bits from its place on, those of the
\* number packed so far the bits read of the next word.
PackedInv ==
  /\ Len(indices) = word_number
  /\ \A w \in 1..word_number : \A b \in 1..11 :
       (indices[w] \div Shift(11 - b)) % 2
         = BitAt(entropy, digest, (w - 1) * 11 + (b - 1))
  /\ pc = "packing" =>
       \A b \in 1..bit :
         (index \div Shift(bit - b)) % 2
           = BitAt(entropy, digest, word_number * 11 + (b - 1))
  /\ pc = "returned" =>
       /\ word_number = word_count
       /\ word_count \in SupportedWordCounts
       /\ Len(entropy) = entropy_bytes_for_word_count(word_count)

\* A bit shifted in becomes the lowest digit and moves the others up.
LEMMA ShiftIn ==
  ASSUME NEW i \in Nat, NEW v \in {0, 1}
  PROVE  /\ ((i * 2 + v) \div Shift(0)) % 2 = v
         /\ \A n \in 0..10 : (i * 2 + v) \div Shift(n + 1) = i \div Shift(n)
<1>1. ((i * 2 + v) \div Shift(0)) % 2 = v
  BY DEF Shift, PowerOfTwo
<1>2. ASSUME NEW n \in 0..10
      PROVE  (i * 2 + v) \div Shift(n + 1) = i \div Shift(n)
  <2>1. CASE n = 0
    BY <2>1 DEF Shift, PowerOfTwo
  <2>2. CASE n = 1
    BY <2>2 DEF Shift, PowerOfTwo
  <2>3. CASE n = 2
    BY <2>3 DEF Shift, PowerOfTwo
  <2>4. CASE n = 3
    BY <2>4 DEF Shift, PowerOfTwo
  <2>5. CASE n = 4
    BY <2>5 DEF Shift, PowerOfTwo
  <2>6. CASE n = 5
    BY <2>6 DEF Shift, PowerOfTwo
  <2>7. CASE n = 6
    BY <2>7 DEF Shift, PowerOfTwo
  <2>8. CASE n = 7
    BY <2>8 DEF Shift, PowerOfTwo
  <2>9. CASE n = 8
    BY <2>9 DEF Shift, PowerOfTwo
  <2>10. CASE n = 9
    BY <2>10 DEF Shift, PowerOfTwo
  <2>11. CASE n = 10
    BY <2>11 DEF Shift, PowerOfTwo
  <2>12. QED
    BY <2>1, <2>2, <2>3, <2>4, <2>5, <2>6, <2>7, <2>8, <2>9, <2>10, <2>11
<1>3. QED
  BY <1>1, <1>2

\* No step of make_indices puts a wrong bit into an index.
LEMMA PackedStep ==
  ASSUME IInv, PackedInv, [Next]_vars
  PROVE  PackedInv'
<1>1. /\ indices \in Seq(WordIndex) /\ index \in Nat
      /\ word_number \in 0..24 /\ bit \in 0..11
  BY DEF IInv, TypeOK, Word16, bits_per_word
<1>2. /\ Len(indices) = word_number
      /\ \A w \in 1..word_number : \A b \in 1..11 :
           (indices[w] \div Shift(11 - b)) % 2
             = BitAt(entropy, digest, (w - 1) * 11 + (b - 1))
  BY DEF PackedInv
<1>3. CASE UNCHANGED vars
  <2>1. UNCHANGED <<pc, word_count, entropy, digest, word_number, bit, index,
                    indices>>
    BY <1>3 DEF vars, inputVars
  <2>2. QED
    BY <2>1 DEF PackedInv, entropy_bytes_for_word_count
<1>4. CASE Check
  <2>1. /\ UNCHANGED <<word_count, entropy, digest, word_number, bit, index,
                       indices>>
        /\ pc = "checking" /\ pc' \in {"packing", "threw"}
    BY <1>4 DEF Check, inputVars, Throw
  <2>2. bit' = 0 /\ \A b \in 1..0 : FALSE
    BY <2>1 DEF IInv, PackingInv
  <2>3. QED
    BY <1>2, <2>1, <2>2 DEF PackedInv
<1>5. CASE PackBit
  <2>1. /\ UNCHANGED <<pc, word_count, entropy, digest, word_number, indices>>
        /\ pc = "packing" /\ bit < bits_per_word
        /\ index' = (index * 2 + value) % 65536
        /\ bit' = bit + 1
    BY <1>5 DEF PackBit, inputVars, MoreBits
  <2>2. bit \in 0..10 /\ index < Shift(bit) /\ value \in {0, 1}
    BY <1>1, <2>1, ValueRange DEF IInv, PackingInv, bits_per_word
  <2>3. index' = index * 2 + value
    <3>1. Shift(bit) \in 1..1024 /\ index \in Nat
      BY <1>1, <2>2, ShiftDoubles
    <3>2. index < 1024
      BY <2>2, <3>1
    <3> DEFINE v == value
               t == index * 2 + v
    <3>3. v \in {0, 1} /\ index' = t % 65536
      BY <2>1, <2>2
    <3> HIDE DEF v
    <3>4. t \in Nat /\ t < 65536
      BY <3>1, <3>2, <3>3
    <3> HIDE DEF t
    <3>5. index' = t
      BY <3>3, <3>4
    <3>6. QED
      BY <3>5 DEF t, v
  <2>4. value = BitAt(entropy, digest, word_number * 11 + bit)
    BY DEF value, BitAt, combined_position, entropy_bit_count, bits_per_word
  <2>5. ASSUME NEW b \in 1..bit + 1
        PROVE  (index' \div Shift((bit + 1) - b)) % 2
                 = BitAt(entropy, digest, word_number * 11 + (b - 1))
    <3>1. CASE b = bit + 1
      <4>1. (bit + 1) - b = 0 /\ b - 1 = bit
        BY <2>2, <3>1
      <4>2. QED
        BY <1>1, <2>2, <2>3, <2>4, <4>1, ShiftIn
    <3>2. CASE b # bit + 1
      <4> DEFINE n == bit - b
      <4>1. b \in 1..bit /\ n \in 0..10 /\ (bit + 1) - b = n + 1
        BY <2>2, <3>2
      <4>2. (index \div Shift(n)) % 2
              = BitAt(entropy, digest, word_number * 11 + (b - 1))
        BY <2>1, <4>1 DEF PackedInv
      <4> HIDE DEF n
      <4>3. index' \div Shift(n + 1) = index \div Shift(n)
        BY <1>1, <2>2, <2>3, <4>1, ShiftIn
      <4>4. QED
        BY <4>1, <4>2, <4>3
    <3>3. QED
      BY <3>1, <3>2
  <2>6. QED
    BY <1>2, <2>1, <2>5 DEF PackedInv
<1>6. CASE PushIndex
  <2>1. /\ UNCHANGED <<word_count, entropy, digest>>
        /\ pc = "packing" /\ bit = 11
    <3>1. bit \in 0..11
      BY DEF IInv, TypeOK, bits_per_word
    <3>2. QED
      BY <1>6, <3>1 DEF PushIndex, inputVars, MoreBits, bits_per_word
  <2>2. index < 2048
    BY <2>1 DEF IInv, PackingInv, Shift, PowerOfTwo
  <2>3. /\ indices' = Append(indices, index)
        /\ word_number' = word_number + 1
        /\ bit' = 0 /\ index' = 0
        /\ pc' = IF word_number + 1 = word_count THEN "returned" ELSE "packing"
    BY <1>1, <1>6, <2>2 DEF PushIndex, wordlist_size, LastWord
  <2>4. /\ Len(indices') = word_number + 1
        /\ \A w \in 1..word_number : indices'[w] = indices[w]
        /\ indices'[word_number + 1] = index
    <3>1. index \in WordIndex
      BY <1>1, <2>2 DEF WordIndex, wordlist_size
    <3>2. QED
      BY <1>1, <1>2, <2>3, <3>1, AppendProperties
  <2>5. ASSUME NEW w \in 1..word_number + 1, NEW b \in 1..11
        PROVE  (indices'[w] \div Shift(11 - b)) % 2
                 = BitAt(entropy, digest, (w - 1) * 11 + (b - 1))
    <3>1. CASE w = word_number + 1
      <4>1. w - 1 = word_number /\ b \in 1..bit
        BY <1>1, <2>1, <3>1
      <4>2. (index \div Shift(11 - b)) % 2
              = BitAt(entropy, digest, word_number * 11 + (b - 1))
        BY <2>1, <4>1 DEF PackedInv
      <4>3. QED
        BY <2>4, <3>1, <4>1, <4>2
    <3>2. CASE w # word_number + 1
      <4>1. w \in 1..word_number
        BY <1>1, <3>2
      <4>2. QED
        BY <1>2, <2>4, <4>1
    <3>3. QED
      BY <3>1, <3>2
  <2>6. /\ word_count \in SupportedWordCounts
        /\ Len(entropy) = entropy_bytes_for_word_count(word_count)
    BY <2>1 DEF IInv, PackingInv
  <2>7. \A b \in 1..0 : FALSE
    OBVIOUS
  <2>8. QED
    BY <2>1, <2>3, <2>4, <2>5, <2>6, <2>7
       DEF PackedInv, entropy_bytes_for_word_count
<1>7. QED
  BY <1>3, <1>4, <1>5, <1>6 DEF Next, Terminated

\* A row of the Tiny Seed is the digits of its index.
LEMMA RowDigits ==
  ASSUME NEW x \in WordIndex
  PROVE  /\ TinySeed(x) \in Seq({0, 1}) /\ Len(TinySeed(x)) = 11
         /\ \A b \in 1..11 : TinySeed(x)[b] = (x \div Shift(11 - b)) % 2
<1> DEFINE d(b) == (x \div Shift(11 - b)) % 2
<1>1. TinySeed(x) = [b \in 1..11 |-> d(b)]
  BY DEF TinySeed, bits_per_word
<1>2. ASSUME NEW b \in 1..11
      PROVE  d(b) \in {0, 1}
  <2> DEFINE s == Shift(11 - b)
             q == x \div s
  <2>1. b \in {1, 2, 3, 4, 5, 6, 7, 8, 9, 10, 11}
    OBVIOUS
  <2>2. s \in {1, 2, 4, 8, 16, 32, 64, 128, 256, 512, 1024}
    BY <2>1 DEF Shift, PowerOfTwo
  <2>3. x \in Int
    BY DEF WordIndex, wordlist_size
  <2> HIDE DEF s
  <2>4. q \in Int
    BY <2>2, <2>3
  <2> HIDE DEF q
  <2>5. q % 2 \in {0, 1}
    BY <2>4
  <2>6. QED
    BY <2>5 DEF q, s
<1> HIDE DEF d
<1>3. TinySeed(x) \in Seq({0, 1})
  BY <1>1, <1>2, IsASeq
<1>4. DOMAIN TinySeed(x) = 1..11 /\ \A b \in 1..11 : TinySeed(x)[b] = d(b)
  BY <1>1
<1>5. Len(TinySeed(x)) = 11
  BY <1>3, <1>4, LenProperties
<1>6. QED
  BY <1>3, <1>4, <1>5 DEF d

\* The length of a sequence of which the domain is known.
LEMMA LenIs ==
  ASSUME NEW S, NEW s \in Seq(S), NEW n \in Nat, DOMAIN s = 1..n
  PROVE  Len(s) = n
  BY LenProperties

\* A shorter sequence with the same elements is a prefix.
LEMMA PrefixIs ==
  ASSUME NEW S, NEW s \in Seq(S), NEW t \in Seq(S), Len(s) <= Len(t),
         \A i \in 1..Len(s) : s[i] = t[i]
  PROVE  IsPrefix(s, t)
<1> DEFINE n == Len(s)
           u == SubSeq(s, 1, n)
           v == SubSeq(t, 1, n)
<1>1. /\ n \in Nat /\ Len(t) \in Nat
      /\ \A i \in 1..n : s[i] \in S /\ t[i] \in S
  BY LenProperties, ElementOfSeq
<1> HIDE DEF n
<1>2. u \in Seq(S) /\ Len(u) = n /\ \A i \in 1..n : u[i] = s[i]
  BY <1>1, SubSeqProperties
<1>3. v \in Seq(S) /\ Len(v) = n /\ \A i \in 1..n : v[i] = t[i]
  BY <1>1, SubSeqProperties
<1> HIDE DEF u, v
<1>4. \A i \in 1..n : u[i] = v[i]
  BY <1>2, <1>3 DEF n
<1>5. u = v
  BY <1>2, <1>3, <1>4, SeqEqual
<1>6. QED
  BY <1>5 DEF IsPrefix, u, v, n

\* The first elements of a sequence are a prefix of it.
LEMMA FirstElements ==
  ASSUME NEW S, NEW t \in Seq(S), NEW c \in 0..Len(t)
  PROVE  LET s == [b \in 1..c |-> t[b]] IN
         s \in Seq(S) /\ Len(s) = c /\ IsPrefix(s, t)
<1> DEFINE s == [b \in 1..c |-> t[b]]
<1>1. Len(t) \in Nat /\ c \in Nat /\ \A b \in 1..c : t[b] \in S
  BY LenProperties, ElementOfSeq
<1>2. s \in Seq(S)
  BY <1>1, IsASeq
<1>3. DOMAIN s = 1..c /\ \A b \in 1..c : s[b] = t[b]
  OBVIOUS
<1> HIDE DEF s
<1>4. Len(s) = c
  BY <1>1, <1>2, <1>3, LenIs
<1>5. Len(s) <= Len(t) /\ \A b \in 1..Len(s) : s[b] = t[b]
  BY <1>1, <1>3, <1>4
<1>6. IsPrefix(s, t)
  BY <1>2, <1>5, PrefixIs
<1>7. QED
  BY <1>2, <1>4, <1>6 DEF s

\* The bits of a digest are those that read_bit finds.
LEMMA DigestBits ==
  ASSUME NEW d \in [1..sha256_size -> Byte]
  PROVE  /\ Bits(d) \in Seq({0, 1}) /\ Len(Bits(d)) = 8 * sha256_size
         /\ \A b \in 1..8 * sha256_size : Bits(d)[b] = read_bit(d, b - 1)
<1>1. d \in Seq(Byte) /\ Len(d) = sha256_size
  <2>1. /\ d = [i \in 1..sha256_size |-> d[i]]
        /\ \A i \in 1..sha256_size : d[i] \in Byte
    OBVIOUS
  <2>2. sha256_size \in Nat
    BY DEF sha256_size
  <2>3. d \in Seq(Byte)
    BY <2>1, <2>2, IsASeq
  <2>4. DOMAIN d = 1..sha256_size
    OBVIOUS
  <2>5. QED
    BY <2>2, <2>3, <2>4, LenIs
<1>2. Len(d) # 0
  BY <1>1 DEF sha256_size
<1>3. /\ Bits(d) \in Seq({0, 1}) /\ Len(Bits(d)) = 8 * Len(d)
      /\ \A b \in 1..8 * Len(d) : Bits(d)[b] = read_bit(d, b - 1)
  BY <1>1, <1>2, BitsAreRead
<1>4. QED
  BY <1>1, <1>3, Zenon

\* The checksum bits that are printed are the first bits of the digest.
LEMMA ChecksumBits ==
  ASSUME digest \in [1..sha256_size -> Byte], checksum_bit_count \in 4..8
  PROVE  /\ PrintedChecksum \in Seq({0, 1})
         /\ Len(PrintedChecksum) = checksum_bit_count
         /\ \A b \in 1..checksum_bit_count :
              PrintedChecksum[b] = read_bit(digest, b - 1)
         /\ IsPrefix(PrintedChecksum, Bits(digest))
<1> DEFINE c == checksum_bit_count
           t == Bits(digest)
           s == [b \in 1..c |-> t[b]]
<1>1. /\ t \in Seq({0, 1}) /\ Len(t) = 8 * sha256_size
      /\ \A b \in 1..8 * sha256_size : t[b] = read_bit(digest, b - 1)
  BY DigestBits
<1>2. \A b \in 1..c : b \in 1..8 * sha256_size
  BY DEF sha256_size
<1>3. \A b \in 1..c : t[b] = read_bit(digest, b - 1)
  BY <1>1, <1>2, Zenon
<1>4. PrintedChecksum = [b \in 1..c |-> read_bit(digest, b - 1)]
  BY DEF PrintedChecksum
<1>5. PrintedChecksum = s
  <2> HIDE DEF c, t
  <2>1. [b \in 1..c |-> read_bit(digest, b - 1)] = [b \in 1..c |-> t[b]]
    BY <1>3, Zenon
  <2>2. QED
    BY <1>4, <2>1
<1>6. \A b \in 1..c : PrintedChecksum[b] = read_bit(digest, b - 1)
  BY <1>4
<1>7. s \in Seq({0, 1}) /\ Len(s) = c /\ IsPrefix(s, t)
  <2>1. c \in 0..Len(t) /\ t \in Seq({0, 1})
    <3>1. c \in 0..8 * sha256_size
      BY DEF sha256_size
    <3>2. QED
      BY <1>1, <3>1, Zenon
  <2> HIDE DEF c, t
  <2>2. QED
    BY <2>1, FirstElements
<1>8. QED
  BY <1>5, <1>6, <1>7, Zenon

\* The bits of the entropy and then the checksum bits, each at its place.
LEMMA SecretBits ==
  ASSUME entropy \in Seq(Byte), Len(entropy) # 0,
         digest \in [1..sha256_size -> Byte], checksum_bit_count \in 4..8
  PROVE  LET secret == Bits(entropy) \o PrintedChecksum IN
         /\ secret \in Seq({0, 1})
         /\ Len(secret) = Len(entropy) * 8 + checksum_bit_count
         /\ \A p \in 1..Len(secret) :
              secret[p] = BitAt(entropy, digest, p - 1)
<1> DEFINE s == Bits(entropy)
           t == PrintedChecksum
           m == Len(entropy) * 8
           c == checksum_bit_count
<1>1. m \in Nat /\ c \in Nat /\ m = 8 * Len(entropy)
  BY LenProperties
<1>2. /\ s \in Seq({0, 1}) /\ Len(s) = m
      /\ \A b \in 1..m : s[b] = read_bit(entropy, b - 1)
  BY <1>1, BitsAreRead, Zenon
<1>3. /\ t \in Seq({0, 1}) /\ Len(t) = c
      /\ \A b \in 1..c : t[b] = read_bit(digest, b - 1)
  BY ChecksumBits
<1>4. \A p : BitAt(entropy, digest, p) = IF p < m THEN read_bit(entropy, p)
                                                  ELSE read_bit(digest, p - m)
  BY DEF BitAt
<1> HIDE DEF s, t, m, c
<1>5. /\ s \o t \in Seq({0, 1}) /\ Len(s \o t) = m + c
      /\ \A p \in 1..m + c :
           (s \o t)[p] = IF p <= m THEN s[p] ELSE t[p - m]
  <2>1. /\ s \o t \in Seq({0, 1}) /\ Len(s \o t) = Len(s) + Len(t)
        /\ \A p \in 1..Len(s) + Len(t) :
             (s \o t)[p] = IF p <= Len(s) THEN s[p] ELSE t[p - Len(s)]
    BY <1>2, <1>3, ConcatProperties
  <2>2. QED
    BY <1>2, <1>3, <2>1, Zenon
<1>6. ASSUME NEW p \in 1..m + c
      PROVE  (s \o t)[p] = BitAt(entropy, digest, p - 1)
  <2>1. CASE p <= m
    <3>1. p \in 1..m /\ p - 1 < m
      BY <1>1, <2>1
    <3>2. (s \o t)[p] = s[p]
      BY <1>5, <2>1, Zenon
    <3>3. s[p] = read_bit(entropy, p - 1)
      BY <1>2, <3>1, Zenon
    <3>4. QED
      BY <1>4, <3>1, <3>2, <3>3, Zenon
  <2>2. CASE ~ (p <= m)
    <3>1. /\ p - m \in 1..c /\ ~ (p - 1 < m)
          /\ (p - m) - 1 = (p - 1) - m
      BY <1>1, <2>2
    <3>2. (s \o t)[p] = t[p - m]
      BY <1>5, <2>2, Zenon
    <3>3. t[p - m] = read_bit(digest, (p - m) - 1)
      BY <1>3, <3>1, Zenon
    <3>4. QED
      BY <1>4, <3>1, <3>2, <3>3, Zenon
  <2>3. QED
    BY <2>1, <2>2
<1>7. QED
  BY <1>5, <1>6, Zenon DEF s, t, m, c

\* Rows of eleven bits flatten to one sequence, each bit at its place.
LEMMA FlattenWords ==
  ASSUME NEW S, NEW rows \in Seq(Seq(S)), Len(rows) # 0,
         \A i \in 1..Len(rows) : Len(rows[i]) = 11
  PROVE  /\ FlattenSeq(rows) \in Seq(S)
         /\ Len(FlattenSeq(rows)) = 11 * Len(rows)
         /\ \A i \in 1..Len(rows) : \A k \in 1..11 :
              FlattenSeq(rows)[11 * (i - 1) + k] = rows[i][k]
<1> DEFINE n == 11
<1>1. n \in Nat /\ (n = 8 \/ n = 11) /\ \A i \in 1..Len(rows) : Len(rows[i]) = n
  OBVIOUS
<1> HIDE DEF n
<1>2. /\ FlattenSeq(rows) \in Seq(S)
      /\ Len(FlattenSeq(rows)) = n * Len(rows)
      /\ \A i \in 1..Len(rows) : \A k \in 1..n :
           FlattenSeq(rows)[n * (i - 1) + k] = rows[i][k]
  BY <1>1, FlattenRows
<1>3. QED
  BY <1>2, Zenon DEF n

\* Every place of l words of eleven bits is a bit of one of the words.
LEMMA PlaceOfBit ==
  ASSUME NEW l \in Nat, NEW p \in 1..l * 11
  PROVE  LET w == (p - 1) \div 11 + 1
             b == ((p - 1) % 11) + 1 IN
         /\ w \in 1..l /\ b \in 1..11 /\ 11 * (w - 1) + b = p
         /\ (w - 1) * 11 + (b - 1) = p - 1
<1> DEFINE q == (p - 1) \div 11
           r == (p - 1) % 11
<1>1. /\ q \in Nat /\ r \in 0..10 /\ p - 1 = 11 * q + r
  OBVIOUS
<1> HIDE DEF q, r
<1>2. q + 1 \in 1..l
  BY <1>1
<1>3. /\ r + 1 \in 1..11 /\ 11 * ((q + 1) - 1) + (r + 1) = p
      /\ ((q + 1) - 1) * 11 + ((r + 1) - 1) = p - 1
  BY <1>1
<1>4. QED
  BY <1>2, <1>3 DEF q, r

\* The rows of the packed indices, put together, hold one bit in each place.
LEMMA RowsTogether ==
  ASSUME indices \in Seq(WordIndex), NEW l \in Nat, l # 0, Len(indices) = l,
         \A w \in 1..l : \A b \in 1..11 :
           (indices[w] \div Shift(11 - b)) % 2
             = BitAt(entropy, digest, (w - 1) * 11 + (b - 1))
  PROVE  LET together == FlattenSeq([w \in 1..l |-> TinySeed(indices[w])]) IN
         /\ together \in Seq({0, 1}) /\ Len(together) = l * 11
         /\ \A p \in 1..l * 11 :
              together[p] = BitAt(entropy, digest, p - 1)
<1> DEFINE rows == [w \in 1..l |-> TinySeed(indices[w])]
           all  == FlattenSeq(rows)
<1>1. \A w \in 1..l : indices[w] \in WordIndex
  BY ElementOfSeq
<1>2. ASSUME NEW w \in 1..l
      PROVE  /\ rows[w] \in Seq({0, 1}) /\ Len(rows[w]) = 11
             /\ \A b \in 1..11 :
                  rows[w][b] = BitAt(entropy, digest, (w - 1) * 11 + (b - 1))
  <2>1. rows[w] = TinySeed(indices[w])
    OBVIOUS
  <2> HIDE DEF rows
  <2>2. /\ rows[w] \in Seq({0, 1}) /\ Len(rows[w]) = 11
        /\ \A b \in 1..11 : rows[w][b] = (indices[w] \div Shift(11 - b)) % 2
    BY <1>1, <2>1, RowDigits
  <2>3. \A b \in 1..11 : (indices[w] \div Shift(11 - b)) % 2
                           = BitAt(entropy, digest, (w - 1) * 11 + (b - 1))
    OBVIOUS
  <2>4. QED
    BY <2>2, <2>3, Zenon
<1>3. rows \in Seq(Seq({0, 1}))
  BY <1>2, IsASeq
<1>4. DOMAIN rows = 1..l
  OBVIOUS
<1> HIDE DEF rows
<1>5. Len(rows) = l
  BY <1>3, <1>4, LenIs
<1>6. /\ Len(rows) # 0
      /\ \A i \in 1..Len(rows) : Len(rows[i]) = 11
  BY <1>2, <1>5, Zenon
<1>7. /\ all \in Seq({0, 1}) /\ Len(all) = 11 * Len(rows)
      /\ \A w \in 1..Len(rows) : \A b \in 1..11 :
           all[11 * (w - 1) + b] = rows[w][b]
  BY <1>3, <1>6, FlattenWords, Zenon
<1>8. /\ Len(all) = 11 * l
      /\ \A w \in 1..l : \A b \in 1..11 : all[11 * (w - 1) + b] = rows[w][b]
  BY <1>5, <1>7, Zenon
<1> HIDE DEF all
<1>9. ASSUME NEW p \in 1..l * 11
      PROVE  all[p] = BitAt(entropy, digest, p - 1)
  <2> DEFINE w == (p - 1) \div 11 + 1
             b == ((p - 1) % 11) + 1
  <2>1. /\ w \in 1..l /\ b \in 1..11 /\ 11 * (w - 1) + b = p
        /\ (w - 1) * 11 + (b - 1) = p - 1
    BY PlaceOfBit
  <2> HIDE DEF w, b
  <2>2. all[11 * (w - 1) + b] = rows[w][b]
    BY <1>8, <2>1, Zenon
  <2>3. rows[w][b] = BitAt(entropy, digest, (w - 1) * 11 + (b - 1))
    BY <1>2, <2>1, Zenon
  <2>4. QED
    BY <2>1, <2>2, <2>3, Zenon
<1>10. 11 * l = l * 11
  OBVIOUS
<1>11. QED
  BY <1>7, <1>8, <1>9, <1>10, Zenon DEF all, rows

\* When the words are packed, their rows hold the secret.
LEMMA PackedHoldsEntropy ==
  ASSUME IInv, PackedInv
  PROVE  TinySeedIsEntropy
<1> SUFFICES ASSUME pc = "returned"
             PROVE  LET rows == [w \in 1..word_count |-> TinySeed(indices[w])]
                    IN  /\ FlattenSeq(rows) = Bits(entropy) \o PrintedChecksum
                        /\ IsPrefix(PrintedChecksum, Bits(digest))
  BY DEF TinySeedIsEntropy
<1> DEFINE l == word_count
           together == FlattenSeq([w \in 1..l |-> TinySeed(indices[w])])
           secret   == Bits(entropy) \o PrintedChecksum
<1>1. /\ l \in SupportedWordCounts
      /\ Len(entropy) = entropy_bytes_for_word_count(l)
      /\ Len(indices) = l
      /\ \A w \in 1..l : \A b \in 1..11 :
           (indices[w] \div Shift(11 - b)) % 2
             = BitAt(entropy, digest, (w - 1) * 11 + (b - 1))
  BY Zenon DEF PackedInv
<1>2. l \in Nat /\ l # 0
  BY <1>1 DEF SupportedWordCounts
<1>3. /\ entropy \in Seq(Byte) /\ digest \in [1..sha256_size -> Byte]
      /\ indices \in Seq(WordIndex)
  BY IndicesAssumption DEF IInv, TypeOK
<1>4. Len(entropy) # 0
  BY <1>1 DEF SupportedWordCounts, entropy_bytes_for_word_count
<1>5. checksum_bit_count \in 4..8
  BY <1>1, Sizes
<1>6. Len(entropy) * 8 + checksum_bit_count = l * 11
  BY <1>1, Sizes DEF combined_bit_count, entropy_bit_count, bits_per_word
<1>7. /\ secret \in Seq({0, 1})
      /\ Len(secret) = l * 11
      /\ \A p \in 1..l * 11 : secret[p] = BitAt(entropy, digest, p - 1)
  <2>1. /\ secret \in Seq({0, 1})
        /\ Len(secret) = Len(entropy) * 8 + checksum_bit_count
        /\ \A p \in 1..Len(secret) :
             secret[p] = BitAt(entropy, digest, p - 1)
    BY <1>3, <1>4, <1>5, SecretBits, Zenon
  <2>2. QED
    BY <1>6, <2>1, Zenon
<1>8. /\ together \in Seq({0, 1}) /\ Len(together) = l * 11
      /\ \A p \in 1..l * 11 : together[p] = BitAt(entropy, digest, p - 1)
  BY <1>1, <1>2, <1>3, RowsTogether, Zenon
<1>9. IsPrefix(PrintedChecksum, Bits(digest))
  BY <1>3, <1>5, ChecksumBits
<1> HIDE DEF l, together, secret
<1>10. together = secret
  <2>1. Len(together) = Len(secret)
        /\ \A p \in 1..Len(together) : together[p] = secret[p]
    BY <1>7, <1>8, Zenon
  <2>2. QED
    BY <1>7, <1>8, <2>1, SeqEqual, Zenon
<1>11. QED
  BY <1>9, <1>10 DEF l, together, secret

\* What is packed holds the secret all along.
LEMMA PackedInvariant == Spec => [](IInv /\ PackedInv)
<1>1. Init => IInv /\ PackedInv
  <2> SUFFICES ASSUME Init PROVE IInv /\ PackedInv
    OBVIOUS
  <2>1. IInv
    <3>1. TypeOK
      BY EmptySeq DEF Init, TypeOK, Word16, bits_per_word
    <3>2. PackingInv /\ NoInternalError
      BY DEF Init, PackingInv, NoInternalError
    <3>3. QED
      BY <3>1, <3>2 DEF IInv
  <2>2. Len(indices) = 0 /\ word_number = 0 /\ pc = "checking"
    BY DEF Init
  <2>3. PackedInv
    BY <2>2 DEF PackedInv
  <2>4. QED
    BY <2>1, <2>3
<1>2. IInv /\ PackedInv /\ [Next]_vars => (IInv /\ PackedInv)'
  BY IInvStep, PackedStep
<1>3. QED
  BY <1>1, <1>2, PTL DEF Spec

\* The Tiny Seed is the same secret as the entropy, for every entropy of a
\* supported size: its rows put together are the entropy's bits and then the
\* checksum bits, the first bits of the digest.
THEOREM TinySeedHoldsEntropy == Spec => []TinySeedIsEntropy
<1>1. IInv /\ PackedInv => TinySeedIsEntropy
  BY PackedHoldsEntropy
<1>2. QED
  BY <1>1, PackedInvariant, PTL

-------------------------------------------------------------------------------
(* The words alone give the entropy back.                                  *)

\* A byte is known when its eight bits are.
LEMMA ByteFromBits ==
  ASSUME NEW x \in Byte, NEW y \in Byte,
         \A k \in 1..8 : (x \div Shift(8 - k)) % 2 = (y \div Shift(8 - k)) % 2
  PROVE  x = y
<1>1. x \in 0..255 /\ y \in 0..255
  BY DEF Byte
<1>2. /\ Shift(7) = 128 /\ Shift(6) = 64 /\ Shift(5) = 32 /\ Shift(4) = 16
      /\ Shift(3) = 8 /\ Shift(2) = 4 /\ Shift(1) = 2 /\ Shift(0) = 1
  BY DEF Shift, PowerOfTwo
<1>3. \A k \in {1, 2, 3, 4, 5, 6, 7, 8} :
        k \in 1..8
        /\ (x \div Shift(8 - k)) % 2 = (y \div Shift(8 - k)) % 2
  OBVIOUS
<1>4. /\ (x \div Shift(7)) % 2 = (y \div Shift(7)) % 2
      /\ (x \div Shift(6)) % 2 = (y \div Shift(6)) % 2
      /\ (x \div Shift(5)) % 2 = (y \div Shift(5)) % 2
      /\ (x \div Shift(4)) % 2 = (y \div Shift(4)) % 2
      /\ (x \div Shift(3)) % 2 = (y \div Shift(3)) % 2
      /\ (x \div Shift(2)) % 2 = (y \div Shift(2)) % 2
      /\ (x \div Shift(1)) % 2 = (y \div Shift(1)) % 2
      /\ (x \div Shift(0)) % 2 = (y \div Shift(0)) % 2
  <2>1. /\ 8 - 1 = 7 /\ 8 - 2 = 6 /\ 8 - 3 = 5 /\ 8 - 4 = 4
        /\ 8 - 5 = 3 /\ 8 - 6 = 2 /\ 8 - 7 = 1 /\ 8 - 8 = 0
    OBVIOUS
  <2>2. QED
    BY <1>3, <2>1, Zenon
<1>5. /\ (x \div 128) % 2 = (y \div 128) % 2
      /\ (x \div 64) % 2 = (y \div 64) % 2
      /\ (x \div 32) % 2 = (y \div 32) % 2
      /\ (x \div 16) % 2 = (y \div 16) % 2
      /\ (x \div 8) % 2 = (y \div 8) % 2
      /\ (x \div 4) % 2 = (y \div 4) % 2
      /\ (x \div 2) % 2 = (y \div 2) % 2
      /\ (x \div 1) % 2 = (y \div 1) % 2
  BY <1>2, <1>4, Zenon
<1> DEFINE Sum(z) == ((z \div 128) % 2) * 128 + ((z \div 64) % 2) * 64
                       + ((z \div 32) % 2) * 32 + ((z \div 16) % 2) * 16
                       + ((z \div 8) % 2) * 8 + ((z \div 4) % 2) * 4
                       + ((z \div 2) % 2) * 2 + ((z \div 1) % 2)
<1>6. x = Sum(x) /\ y = Sum(y)
  BY <1>1, DigitsSum, Zenon
<1>7. Sum(x) = Sum(y)
  BY <1>5, Zenon
<1>8. QED
  BY <1>6, <1>7, Zenon

\* Strings of bytes of one length with the same bits are the same string.
LEMMA BytesFromBits ==
  ASSUME NEW s \in Seq(Byte), NEW t \in Seq(Byte), Len(s) = Len(t),
         \A p \in 1..8 * Len(s) : read_bit(s, p - 1) = read_bit(t, p - 1)
  PROVE  s = t
<1> DEFINE l == Len(s)
<1>1. l \in Nat /\ \A i \in 1..l : s[i] \in Byte /\ t[i] \in Byte
  BY LenProperties, ElementOfSeq
<1>2. \A p \in 1..8 * l : read_bit(s, p - 1) = read_bit(t, p - 1)
  OBVIOUS
<1> HIDE DEF l
<1>3. ASSUME NEW i \in 1..l
      PROVE  s[i] = t[i]
  <2>1. ASSUME NEW k \in 1..8
        PROVE  (s[i] \div Shift(8 - k)) % 2 = (t[i] \div Shift(8 - k)) % 2
    <3> DEFINE p == 8 * (i - 1) + k
               q == p - 1
    <3>1. /\ p \in 1..8 * l /\ (q \div 8) + 1 = i
          /\ 7 - (q % 8) = 8 - k
      BY <1>1
    <3>2. read_bit(s, q) = read_bit(t, q)
      BY <1>2, <3>1
    <3> HIDE DEF p, q
    <3>3. QED
      BY <3>1, <3>2 DEF read_bit
  <2>2. QED
    BY <1>1, <2>1, ByteFromBits
<1>4. QED
  BY <1>1, <1>3, SeqEqual DEF l

\* A prefix of a sequence has the same elements.
LEMMA PrefixAgrees ==
  ASSUME NEW S, NEW s \in Seq(S), NEW t \in Seq(S), IsPrefix(s, t)
  PROVE  Len(s) <= Len(t) /\ \A i \in 1..Len(s) : s[i] = t[i]
<1>1. Len(s) <= Len(t) /\ SubSeq(s, 1, Len(s)) = SubSeq(t, 1, Len(s))
  BY DEF IsPrefix
<1>2. Len(s) \in Nat /\ Len(t) \in Nat
  BY LenProperties
<1> DEFINE n == Len(s)
           u == SubSeq(s, 1, n)
           v == SubSeq(t, 1, n)
<1>3. /\ n \in Nat
      /\ \A i \in 1..n : s[i] \in S /\ t[i] \in S
  BY <1>1, <1>2, LenProperties, ElementOfSeq
<1>4. n <= Len(s) /\ n <= Len(t) /\ u = v
  BY <1>1, <1>2
<1> HIDE DEF n
<1>5. \A i \in 1..n : u[i] = s[i]
  BY <1>3, <1>4, SubSeqProperties
<1>6. \A i \in 1..n : v[i] = t[i]
  BY <1>3, <1>4, SubSeqProperties
<1>7. QED
  BY <1>1, <1>4, <1>5, <1>6, Zenon DEF n

\* The bits that the indices stand for, as --show-entropy prints them.
WordBits == FlattenSeq([w \in 1..Len(indices) |-> TinySeed(indices[w])])

\* What is told of the words in a state where they are returned: their first
\* bits are those of one string of bytes of their size, the entropy.
Recoverable ==
  pc = "returned" =>
    \A other \in Seq(Byte) :
      (other = entropy) <=>
        /\ Len(other) = entropy_bytes_for_word_count(Len(indices))
        /\ IsPrefix(Bits(other), WordBits)

\* Words that hold the entropy's bits first hold no other entropy's.
LEMMA PackedRecoverable ==
  ASSUME IInv, PackedInv
  PROVE  Recoverable
<1> SUFFICES ASSUME pc = "returned", NEW other \in Seq(Byte)
             PROVE  (other = entropy) <=>
                      /\ Len(other) = entropy_bytes_for_word_count(Len(indices))
                      /\ IsPrefix(Bits(other), WordBits)
  BY Zenon DEF Recoverable
<1> DEFINE n == Len(entropy)
           e == Bits(entropy)
           o == Bits(other)
           w == WordBits
<1>1. /\ word_count \in SupportedWordCounts
      /\ n = entropy_bytes_for_word_count(word_count)
      /\ Len(indices) = word_count
  BY Zenon DEF PackedInv
<1>2. /\ entropy \in Seq(Byte) /\ digest \in [1..sha256_size -> Byte]
  BY IndicesAssumption DEF IInv, TypeOK
<1>3. n \in Nat /\ n # 0 /\ checksum_bit_count \in 4..8
  BY <1>1, Sizes DEF SupportedWordCounts, entropy_bytes_for_word_count
<1>4. /\ e \in Seq({0, 1}) /\ Len(e) = 8 * n
      /\ \A b \in 1..8 * n : e[b] = read_bit(entropy, b - 1)
  BY <1>2, <1>3, BitsAreRead, Zenon
<1>5. /\ w \in Seq({0, 1}) /\ 8 * n <= Len(w)
      /\ \A b \in 1..8 * n : w[b] = e[b]
  <2>1. w = e \o PrintedChecksum
    <3>1. TinySeedIsEntropy
      BY PackedHoldsEntropy
    <3>2. QED
      BY <1>1, <3>1, Zenon DEF TinySeedIsEntropy, WordBits
  <2>2. /\ PrintedChecksum \in Seq({0, 1})
        /\ Len(PrintedChecksum) \in Nat
    BY <1>2, <1>3, ChecksumBits
  <2> HIDE DEF e, w, n
  <2>3. /\ w \in Seq({0, 1}) /\ Len(w) = Len(e) + Len(PrintedChecksum)
        /\ \A b \in 1..Len(e) + Len(PrintedChecksum) :
             w[b] = IF b <= Len(e) THEN e[b]
                                   ELSE PrintedChecksum[b - Len(e)]
    BY <1>4, <2>1, <2>2, ConcatProperties, Zenon
  <2>4. 8 * n <= Len(w)
    BY <1>3, <1>4, <2>2, <2>3
  <2>5. ASSUME NEW b \in 1..8 * n
        PROVE  w[b] = e[b]
    <3>1. b \in 1..Len(e) + Len(PrintedChecksum) /\ b <= Len(e)
      BY <1>3, <1>4, <2>2
    <3>2. QED
      BY <2>3, <3>1, Zenon
  <2>6. QED
    BY <2>3, <2>4, <2>5, Zenon
<1>6. ASSUME other = entropy
      PROVE  /\ Len(other) = entropy_bytes_for_word_count(Len(indices))
             /\ IsPrefix(o, w)
  <2>1. o = e /\ Len(other) = n
    BY <1>6, Zenon
  <2> HIDE DEF e, w, o, n
  <2>2. Len(e) <= Len(w) /\ \A b \in 1..Len(e) : e[b] = w[b]
    BY <1>4, <1>5
  <2>3. IsPrefix(e, w)
    BY <1>4, <1>5, <2>2, PrefixIs
  <2>4. QED
    BY <1>1, <2>1, <2>3, Zenon
<1>7. ASSUME Len(other) = entropy_bytes_for_word_count(Len(indices)),
             IsPrefix(o, w)
      PROVE  other = entropy
  <2>1. Len(other) = n
    BY <1>1, <1>7, Zenon
  <2>2. /\ o \in Seq({0, 1}) /\ Len(o) = 8 * Len(other)
        /\ \A b \in 1..8 * Len(other) : o[b] = read_bit(other, b - 1)
    <3>1. Len(other) # 0
      BY <1>3, <2>1, Zenon
    <3>2. QED
      BY <3>1, BitsAreRead, Zenon
  <2>3. \A b \in 1..8 * n : o[b] = read_bit(other, b - 1)
    BY <2>1, <2>2, Zenon
  <2>4. \A b \in 1..8 * n : o[b] = w[b]
    <3>1. \A b \in 1..Len(o) : o[b] = w[b]
      <4> HIDE DEF o, w
      <4>1. QED
        BY <1>5, <1>7, <2>2, PrefixAgrees, Zenon
    <3>2. Len(o) = 8 * n
      BY <2>1, <2>2, Zenon
    <3>3. QED
      BY <3>1, <3>2, Zenon
  <2>5. \A b \in 1..8 * n : read_bit(other, b - 1) = read_bit(entropy, b - 1)
    BY <1>4, <1>5, <2>3, <2>4, Zenon
  <2>6. \A b \in 1..8 * Len(other) :
          read_bit(other, b - 1) = read_bit(entropy, b - 1)
    BY <2>1, <2>5, Zenon
  <2>7. Len(other) = Len(entropy)
    BY <2>1
  <2>8. QED
    BY <1>2, <2>6, <2>7, BytesFromBits, Zenon
<1>8. QED
  BY <1>6, <1>7, Zenon

\* Nothing of the entropy is lost in the words: in every run that returns
\* indices, the entropy is the one string of bytes of the size their number
\* stands for of which the bits come first in theirs. A wallet can read it back.
THEOREM EntropyRecoverable == Spec => []Recoverable
<1>1. IInv /\ PackedInv => Recoverable
  BY PackedRecoverable
<1>2. QED
  BY <1>1, PackedInvariant, PTL

===============================================================================
