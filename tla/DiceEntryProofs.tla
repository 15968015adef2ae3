---------------------------- MODULE DiceEntryProofs ----------------------------
(***************************************************************************)
(* Proofs about DiceEntry, for all faces thrown, all mistakes in between   *)
(* and all random bytes.                                                   *)
(***************************************************************************)
EXTENDS DiceEntry, ConditionerProofs, WellFoundedInduction

\* A mode asks for some rolls and never for more than were thrown.
LEMMA RollCount ==
  ASSUME byte_count \in ByteCounts, use_dice_only \in BOOLEAN
  PROVE  roll_count \in Nat \ {0} /\ 1..roll_count \subseteq 1..124
<1>1. \A n \in ByteCounts : /\ mixed_dice_roll_count(n) \in Nat \ {0}
                            /\ mixed_dice_roll_count(n) <= 124
  BY DEF ByteCounts, mixed_dice_roll_count
<1>2. \A n \in ByteCounts : /\ dice_only_roll_count(n) \in Nat \ {0}
                            /\ dice_only_roll_count(n) <= 124
  BY DEF ByteCounts, dice_only_roll_count
<1>3. roll_count \in Nat \ {0} /\ roll_count <= 124
  BY <1>1, <1>2 DEF roll_count
<1>4. QED
  BY <1>3

\* What the readers have kept so far are the faces thrown, in their order and
\* in the form the checks of entropy.cpp expect.
Copied ==
  /\ Len(rolls) <= roll_count
  /\ \A i \in DOMAIN rolls : rolls[i] = Kept(Digit(thrown[i]))
  /\ pc \in {"random", "mixing", "returned"} => Len(rolls) = roll_count
  /\ pc = "random" => ~use_dice_only
  /\ pc = "mixing" /\ ~use_dice_only => system_random \in SystemRandoms

DiceInv ==
  /\ TypeOK
  /\ Copied
  /\ ReaderMeetsChecks
  /\ ThrownRollsHashed

-------------------------------------------------------------------------------

LEMMA InitDice == Init => DiceInv
<1> SUFFICES ASSUME Init PROVE DiceInv
  OBVIOUS
<1>1. TypeOK
  BY EmptySeq DEF Init, TypeOK
<1>2. Copied
  <2>1. Len(rolls) = 0 /\ DOMAIN rolls = {}
    BY DEF Init
  <2>2. roll_count \in Nat
    BY RollCount DEF Init
  <2>3. QED
    BY <2>1, <2>2 DEF Init, Copied
<1>3. QED
  BY <1>1, <1>2 DEF Init, DiceInv, ReaderMeetsChecks, ThrownRollsHashed

\* The modes and the faces thrown never change, nor what depends on them only.
LEMMA ModesStay ==
  ASSUME UNCHANGED modeVars
  PROVE  /\ roll_count' = roll_count
         /\ \A face : Kept(face)' = Kept(face)
BY DEF modeVars, roll_count, Kept

\* A face that is entered is the next one thrown.
LEMMA FaceRead ==
  ASSUME DiceInv, Asking, NEW entry \in Mistakes \cup {NextFace}, ReadFace(entry)
  PROVE  /\ thrown[Len(rolls) + 1] \in 1..6
         /\ rolls' = Append(rolls, Kept(Digit(thrown[Len(rolls) + 1])))
<1>1. Len(rolls) + 1 \in 1..roll_count /\ 1..roll_count \subseteq 1..124
  <2>1. Len(rolls) \in Nat
    BY LenProperties DEF DiceInv, TypeOK
  <2>2. roll_count \in Nat /\ 1..roll_count \subseteq 1..124
    BY RollCount DEF DiceInv, TypeOK
  <2>3. Len(rolls) + 1 \in 1..roll_count
    BY <2>1, <2>2 DEF Asking
  <2>4. QED
    BY <2>2, <2>3, Zenon
<1>2. thrown[Len(rolls) + 1] \in 1..6
  BY <1>1, DiceAssumption DEF DiceInv, TypeOK
<1>3. entry \notin Mistakes
  BY DiceAssumption DEF ReadFace, IsFace
<1>4. entry.roll = thrown[Len(rolls) + 1]
  BY <1>3 DEF NextFace
<1>5. QED
  BY <1>2, <1>4 DEF ReadFace

\* What is hashed in each mode, once the readers have kept the faces thrown.
LEMMA MixedHash ==
  ASSUME DiceInv, pc = "mixing", ~use_dice_only
  PROVE  LET digest == MixedDiceInput(rolls, system_random, byte_count)
             header == Len(mixed_dice_domain) + 4
         IN  /\ Len(digest) = header + roll_count + sha256_size
             /\ \A i \in 1..roll_count : digest[header + i] = thrown[i] - 1
<1>1. rolls \in Seq(0..5) /\ byte_count \in ByteCounts /\ Len(rolls) = roll_count
  BY DEF DiceInv, TypeOK, Copied
<1>2. /\ system_random \in Seq(Range(system_random))
      /\ Len(system_random) = sha256_size
  BY DiceAssumption DEF DiceInv, Copied
<1>3. MixedDiceFields(MixedDiceInput(rolls, system_random, byte_count),
                      rolls, system_random, byte_count)
  BY <1>1, <1>2, MixedDiceLayout
<1>4. ASSUME NEW i \in 1..roll_count
      PROVE  rolls[i] = thrown[i] - 1
  <2>1. i \in DOMAIN rolls
    BY <1>1, LenProperties
  <2>2. thrown[i] \in 1..6
    <3>1. i \in 1..124
      BY RollCount, Zenon DEF DiceInv, TypeOK
    <3>2. QED
      BY <3>1, DiceAssumption DEF DiceInv, TypeOK
  <2>3. QED
    BY <2>1, <2>2 DEF DiceInv, Copied, Kept, Digit
<1>5. QED
  BY <1>1, <1>2, <1>3, <1>4 DEF MixedDiceFields

LEMMA AsciiHash ==
  ASSUME DiceInv, pc = "mixing", use_dice_only
  PROVE  rolls = [i \in 1..roll_count |-> 48 + thrown[i]]
<1>1. rolls \in Seq(49..54) /\ Len(rolls) = roll_count
  BY DEF DiceInv, TypeOK, Copied
<1>2. DOMAIN rolls = 1..roll_count /\ rolls \in [1..roll_count -> 49..54]
  BY <1>1, LenProperties
<1>3. \A i \in 1..roll_count : rolls[i] = 48 + thrown[i]
  BY <1>2 DEF DiceInv, Copied, Kept, Digit
<1>4. QED
  BY <1>2, <1>3

-------------------------------------------------------------------------------
(* Every step keeps the invariant, one clause at a time.                   *)

LEMMA StepTypeOK ==
  ASSUME DiceInv, [Next]_vars
  PROVE  TypeOK'
<1> USE DEF DiceInv, TypeOK
<1>1. ASSUME NEW entry \in Mistakes \cup {NextFace}, Asking, ReadFace(entry)
      PROVE  TypeOK'
  <2>1. /\ thrown[Len(rolls) + 1] \in 1..6
        /\ rolls' = Append(rolls, Kept(Digit(thrown[Len(rolls) + 1])))
    BY <1>1, FaceRead
  <2>2. Kept(Digit(thrown[Len(rolls) + 1]))
          \in (IF use_dice_only THEN 49..54 ELSE 0..5)
    BY <2>1 DEF Kept, Digit
  <2>3. rolls' \in Seq(IF use_dice_only THEN 49..54 ELSE 0..5)
    BY <2>1, <2>2, AppendProperties
  <2>4. QED
    BY <1>1, <2>3 DEF ReadFace, modeVars
<1>2. ASSUME NEW entry \in Mistakes \cup {NextFace}, RefuseFace(entry)
      PROVE  TypeOK'
  BY <1>2 DEF RefuseFace, vars, modeVars
<1>3. CASE EnterRoll
  BY <1>1, <1>2, <1>3 DEF EnterRoll
<1>4. CASE InputEnds
  BY <1>4 DEF InputEnds, Throw, modeVars
<1>5. CASE RollsRead
  BY <1>5 DEF RollsRead, modeVars
<1>6. CASE GenerateSystemEntropy
  BY <1>6 DEF GenerateSystemEntropy, modeVars
<1>7. CASE RandomFails \/ DigestFails
  BY <1>7 DEF RandomFails, DigestFails, Throw, modeVars
<1>8. CASE MixDice
  BY <1>8 DEF MixDice, Mix, Throw, modeVars
<1>9. CASE DiceOnly
  BY <1>9 DEF DiceOnly, Mix, Throw, modeVars
<1>10. CASE UNCHANGED vars
  BY <1>10 DEF vars, modeVars
<1>11. QED
  BY <1>3, <1>4, <1>5, <1>6, <1>7, <1>8, <1>9, <1>10 DEF Next, Terminated

LEMMA StepCopied ==
  ASSUME DiceInv, [Next]_vars
  PROVE  Copied'
<1> USE DEF DiceInv
<1>1. ASSUME NEW entry \in Mistakes \cup {NextFace}, Asking, ReadFace(entry)
      PROVE  Copied'
  <2> DEFINE n == Len(rolls)
             kept == Kept(Digit(thrown[n + 1]))
             R == IF use_dice_only THEN 49..54 ELSE 0..5
  <2>1. thrown[n + 1] \in 1..6 /\ rolls' = Append(rolls, kept)
    BY <1>1, FaceRead
  <2>2. kept \in R
    BY <2>1 DEF Kept, Digit, TypeOK
  <2>3. rolls \in Seq(R) /\ n \in Nat /\ DOMAIN rolls = 1..n
    BY LenProperties DEF TypeOK
  <2> HIDE DEF R, kept
  <2>4. /\ rolls' \in Seq(R) /\ Len(rolls') = n + 1
        /\ \A i \in 1..n : rolls'[i] = rolls[i]
        /\ rolls'[n + 1] = kept
    BY <2>1, <2>2, <2>3, AppendProperties
  <2>5. DOMAIN rolls' = 1..n + 1
    BY <2>4, LenProperties
  <2>6. UNCHANGED modeVars /\ pc' = pc /\ pc = "rolling"
    BY <1>1 DEF ReadFace, Asking
  <2>7. roll_count' = roll_count /\ roll_count \in Nat /\ n < roll_count
    BY <1>1, <2>6, ModesStay, RollCount DEF TypeOK, Asking
  <2>8. ASSUME NEW i \in DOMAIN rolls'
        PROVE  rolls'[i] = Kept(Digit(thrown[i]))
    <3>1. CASE i = n + 1
      BY <3>1, <2>4 DEF kept
    <3>2. CASE i # n + 1
      <4>1. i \in 1..n
        BY <2>3, <2>5, <3>2
      <4>2. QED
        BY <4>1, <2>3, <2>4 DEF Copied
    <3>3. QED
      BY <3>1, <3>2
  <2>9. \A i \in DOMAIN rolls' : rolls'[i] = Kept(Digit(thrown[i]))'
    BY <2>6, <2>8 DEF modeVars, Kept, Digit
  <2>10. Len(rolls') <= roll_count'
    BY <2>3, <2>4, <2>7
  <2>11. QED
    BY <2>6, <2>9, <2>10 DEF Copied
<1>2. ASSUME UNCHANGED modeVars, UNCHANGED rolls
      PROVE  /\ (Len(rolls) <= roll_count)'
             /\ \A i \in DOMAIN rolls' : rolls'[i] = Kept(Digit(thrown[i]))'
             /\ roll_count' = roll_count /\ use_dice_only' = use_dice_only
  BY <1>2, ModesStay DEF Copied, modeVars, Kept, Digit
<1>3. ASSUME NEW entry \in Mistakes \cup {NextFace}, RefuseFace(entry)
      PROVE  Copied'
  BY <1>2, <1>3 DEF Copied, RefuseFace, vars
<1>4. CASE EnterRoll
  BY <1>1, <1>3, <1>4 DEF EnterRoll
<1>5. CASE InputEnds
  BY <1>2, <1>5 DEF Copied, InputEnds, Throw
<1>6. CASE RollsRead
  BY <1>2, <1>6 DEF Copied, RollsRead
<1>7. CASE GenerateSystemEntropy
  BY <1>2, <1>7 DEF Copied, GenerateSystemEntropy
<1>8. CASE RandomFails \/ DigestFails
  BY <1>2, <1>8 DEF Copied, RandomFails, DigestFails, Throw
<1>9. CASE MixDice
  BY <1>2, <1>9 DEF Copied, MixDice, Mix, Throw
<1>10. CASE DiceOnly
  BY <1>2, <1>10 DEF Copied, DiceOnly, Mix, Throw
<1>11. CASE UNCHANGED vars
  BY <1>2, <1>11 DEF Copied, vars
<1>12. QED
  BY <1>4, <1>5, <1>6, <1>7, <1>8, <1>9, <1>10, <1>11 DEF Next, Terminated

\* The checks accept what the readers collected.
LEMMA ChecksAccept ==
  ASSUME DiceInv, pc = "mixing"
  PROVE  /\ ~use_dice_only =>
              AcceptsMixedDice(rolls, system_random, byte_count)
         /\ use_dice_only => AcceptsDiceOnly(rolls, byte_count)
<1> USE DEF DiceInv, TypeOK
<1>1. Len(rolls) = roll_count
  BY DEF Copied
<1>2. ASSUME ~use_dice_only
      PROVE  AcceptsMixedDice(rolls, system_random, byte_count)
  <2>1. rolls \in Seq(0..5)
    BY <1>2
  <2>2. \A i \in DOMAIN rolls : rolls[i] \in 0..5
    BY <2>1, LenProperties, ElementOfSeq
  <2>3. Len(system_random) = sha256_size
    BY <1>2, DiceAssumption DEF Copied
  <2>4. QED
    BY <1>1, <1>2, <2>2, <2>3 DEF AcceptsMixedDice, roll_count
<1>3. ASSUME use_dice_only
      PROVE  AcceptsDiceOnly(rolls, byte_count)
  <2>1. rolls \in Seq(49..54)
    BY <1>3
  <2>2. \A i \in DOMAIN rolls : rolls[i] \in 49..54
    BY <2>1, LenProperties, ElementOfSeq
  <2>3. QED
    BY <1>1, <1>3, <2>2 DEF AcceptsDiceOnly, roll_count
<1>4. QED
  BY <1>2, <1>3

LEMMA StepHashed ==
  ASSUME DiceInv, [Next]_vars
  PROVE  ReaderMeetsChecks' /\ ThrownRollsHashed'
<1> USE DEF DiceInv
<1>1. CASE EnterRoll
  BY <1>1 DEF EnterRoll, Asking, ReadFace, RefuseFace, vars,
              ReaderMeetsChecks, ThrownRollsHashed
<1>2. CASE InputEnds
  BY <1>2 DEF InputEnds, Throw, ReaderMeetsChecks, ThrownRollsHashed
<1>3. CASE RollsRead
  BY <1>3 DEF RollsRead, ReaderMeetsChecks, ThrownRollsHashed
<1>4. CASE GenerateSystemEntropy
  BY <1>4 DEF GenerateSystemEntropy, ReaderMeetsChecks, ThrownRollsHashed
<1>5. CASE RandomFails \/ DigestFails
  BY <1>5 DEF RandomFails, DigestFails, Throw, ReaderMeetsChecks,
              ThrownRollsHashed
<1>6. CASE MixDice
  <2>1. /\ error' = error
        /\ entropy' = TruncatedDigest(
                        MixedDiceInput(rolls, system_random, byte_count),
                        byte_count)
        /\ UNCHANGED modeVars /\ ~use_dice_only
    BY <1>6, ChecksAccept DEF MixDice, Mix
  <2>2. roll_count' = roll_count /\ use_dice_only' = use_dice_only
    BY <2>1, ModesStay DEF modeVars
  <2>3. entropy'.digest = MixedDiceInput(rolls, system_random, byte_count)
    BY <2>1 DEF TruncatedDigest
  <2>4. QED
    BY <1>6, <2>1, <2>2, <2>3, MixedHash
       DEF MixDice, ReaderMeetsChecks, ThrownRollsHashed, modeVars
<1>7. CASE DiceOnly
  <2>1. /\ error' = error
        /\ entropy' = TruncatedDigest(DiceOnlyInput(rolls), byte_count)
        /\ UNCHANGED modeVars /\ use_dice_only
    BY <1>7, ChecksAccept DEF DiceOnly, Mix
  <2>2. roll_count' = roll_count /\ use_dice_only' = use_dice_only
    BY <2>1, ModesStay DEF modeVars
  <2>3. entropy'.digest = rolls
    BY <2>1 DEF TruncatedDigest, DiceOnlyInput
  <2>4. QED
    BY <1>7, <2>1, <2>2, <2>3, AsciiHash
       DEF DiceOnly, ReaderMeetsChecks, ThrownRollsHashed, modeVars
<1>8. CASE UNCHANGED vars
  BY <1>8, ModesStay DEF vars, modeVars, ReaderMeetsChecks, ThrownRollsHashed
<1>9. QED
  BY <1>1, <1>2, <1>3, <1>4, <1>5, <1>6, <1>7, <1>8 DEF Next, Terminated

-------------------------------------------------------------------------------
(* The powers of six that EnoughRolls compares with powers of two: what the *)
(* limbs stand for, and that the recursive functions over them are those    *)
(* that their definitions read.  The long numbers are powers of two and of  *)
(* six, written out because the provers calculate with literals only.       *)

\* Every non-empty set of natural numbers has a least element.
LEMMA LeastOf ==
  ASSUME NEW D \in SUBSET Nat, D # {}
  PROVE  \E i \in D : \A j \in D : i <= j
<1>1. IsWellFoundedOn(OpToRel(<, Nat), Nat)
  BY NatLessThanWellFounded
<1>2. PICK x \in D : \A y \in D : ~ (<<y, x>> \in OpToRel(<, Nat))
  BY <1>1, WFMin
<1>3. \A y \in D : ~ (y < x)
  BY <1>2 DEF OpToRel
<1>4. x \in Nat /\ \A y \in D : y \in Nat
  OBVIOUS
<1> HIDE <1>2
<1>5. QED
  BY <1>3, <1>4

\* The recursion of a function on 0..m: its first value and every later one.
Recursion(base, step, m, f) ==
  f = [i \in 0..m |-> IF i = 0 THEN base ELSE step[<<i, f[i - 1]>>]]

\* A solution up to one number is a solution up to the next.
LEMMA RecursionNext ==
  ASSUME NEW base, NEW step, NEW m \in Nat, m # 0, NEW g,
         Recursion(base, step, m - 1, g)
  PROVE  \E f : Recursion(base, step, m, f)
<1> DEFINE f == [i \in 0..m |-> IF i = m THEN step[<<m, g[m - 1]>>] ELSE g[i]]
<1>1. \A i \in 0..m : i = m \/ (i \in 0..m - 1 /\ i # m)
  OBVIOUS
<1>2. \A i \in 0..m : i # 0 => i - 1 \in 0..m - 1 /\ i - 1 \in 0..m
                               /\ i - 1 # m
  OBVIOUS
<1>3. \A i \in 0..m - 1 : g[i] = IF i = 0 THEN base ELSE step[<<i, g[i - 1]>>]
  BY DEF Recursion
<1>4. \A i \in 0..m - 1 : f[i] = g[i]
  OBVIOUS
<1>5. m \in 0..m /\ f[m] = step[<<m, g[m - 1]>>] /\ m - 1 \in 0..m - 1
  OBVIOUS
<1>6. ASSUME NEW i \in 0..m
      PROVE  f[i] = IF i = 0 THEN base ELSE step[<<i, f[i - 1]>>]
  <2> HIDE DEF f
  <2>1. CASE i = m
    BY <1>4, <1>5, <2>1
  <2>2. CASE i \in 0..m - 1
    <3>1. i # 0 => f[i - 1] = g[i - 1]
      BY <1>2, <1>4
    <3>2. QED
      BY <1>3, <1>4, <2>2, <3>1
  <2>3. QED
    BY <1>1, <2>1, <2>2
<1>7. f = [i \in 0..m |-> f[i]]
  OBVIOUS
<1>8. Recursion(base, step, m, f)
  <2> HIDE DEF f
  <2>1. QED
    BY <1>6, <1>7 DEF Recursion
<1>9. QED
  BY <1>8

\* There is a solution up to every number: a least number without one would
\* have one for the number before it.
LEMMA RecursionExists ==
  ASSUME NEW base, NEW step
  PROVE  \A m \in Nat : \E f : Recursion(base, step, m, f)
<1> DEFINE Wrong == {m \in Nat : ~ \E f : Recursion(base, step, m, f)}
<1>1. Wrong = {}
  <2> SUFFICES ASSUME Wrong # {} PROVE FALSE
    OBVIOUS
  <2>1. PICK m \in Wrong : \A j \in Wrong : m <= j
    <3>1. Wrong \in SUBSET Nat
      OBVIOUS
    <3> HIDE DEF Wrong
    <3>2. QED
      BY <3>1, LeastOf
  <2>2. m \in Nat /\ ~ \E f : Recursion(base, step, m, f)
    BY <2>1
  <2>3. m # 0
    <3>1. Recursion(base, step, 0, [i \in 0..0 |-> base])
      <4>1. \A i \in 0..0 : i = 0
        OBVIOUS
      <4>2. QED
        BY <4>1 DEF Recursion
    <3>2. QED
      BY <2>2, <3>1
  <2>4. m - 1 \in Nat /\ ~ (m <= m - 1)
    BY <2>2, <2>3
  <2>5. m - 1 \notin Wrong
    BY <2>1, <2>4
  <2>6. \E g : Recursion(base, step, m - 1, g)
    BY <2>4, <2>5
  <2>7. QED
    BY <2>2, <2>3, <2>6, RecursionNext
<1>2. QED
  BY <1>1

\* A solution stays in a set that its base is in and its step does not leave.
LEMMA RecursionStays ==
  ASSUME NEW T, NEW base \in T, NEW step \in [Nat \X T -> T], NEW m \in Nat,
         NEW f, Recursion(base, step, m, f)
  PROVE  f \in [0..m -> T]
<1> DEFINE Wrong == {i \in 0..m : f[i] \notin T}
<1>1. \A i \in 0..m : f[i] = IF i = 0 THEN base ELSE step[<<i, f[i - 1]>>]
  BY DEF Recursion
<1>2. Wrong = {}
  <2> SUFFICES ASSUME Wrong # {} PROVE FALSE
    OBVIOUS
  <2>1. PICK i \in Wrong : \A j \in Wrong : i <= j
    <3>1. Wrong \in SUBSET Nat
      OBVIOUS
    <3> HIDE DEF Wrong
    <3>2. QED
      BY <3>1, LeastOf
  <2>2. i \in 0..m /\ f[i] \notin T
    BY <2>1
  <2>3. i # 0
    BY <1>1, <2>2
  <2>4. i - 1 \in 0..m /\ ~ (i <= i - 1)
    BY <2>2, <2>3
  <2>5. f[i - 1] \in T
    BY <2>1, <2>4
  <2>6. <<i, f[i - 1]>> \in Nat \X T
    BY <2>2, <2>5
  <2>7. step[<<i, f[i - 1]>>] \in T
    BY <2>6, Zenon
  <2>8. QED
    BY <1>1, <2>2, <2>3, <2>7
<1>3. \A i \in 0..m : f[i] \in T
  BY <1>2
<1>4. f = [i \in 0..m |-> f[i]]
  <2>1. f = [i \in 0..m |-> IF i = 0 THEN base ELSE step[<<i, f[i - 1]>>]]
    BY DEF Recursion
  <2>2. QED
    BY <2>1, Zenon
<1>5. QED
  BY <1>3, <1>4, Zenon

\* The limbs of a number: digits below 65536, only the last one unbounded.
Limbs == {x \in [1..21 -> Nat] : \A i \in 1..20 : x[i] < Base}

\* What is carried from one limb to the next when all are multiplied by six.
LEMMA CarryIs ==
  ASSUME NEW x \in Limbs
  PROVE  /\ Carry(x) \in [0..20 -> Nat]
         /\ Carry(x)[0] = 0
         /\ \A i \in 1..20 :
              Carry(x)[i] = (6 * x[i] + Carry(x)[i - 1]) \div Base
<1> DEFINE limb == [i \in Nat |-> IF i \in 1..20 THEN x[i] ELSE 0]
           step == [p \in Nat \X Nat |-> (6 * limb[p[1]] + p[2]) \div Base]
<1>1. limb \in [Nat -> Nat]
  BY DEF Limbs
<1>2. step \in [Nat \X Nat -> Nat]
  <2> HIDE DEF limb
  <2>1. ASSUME NEW p \in Nat \X Nat
        PROVE  (6 * limb[p[1]] + p[2]) \div Base \in Nat
    <3>1. limb[p[1]] \in Nat /\ p[2] \in Nat
      BY <1>1
    <3>2. QED
      BY <3>1 DEF Base
  <2>2. QED
    BY <2>1, Zenon
<1>3. \A i \in 1..20, c \in Nat :
        step[<<i, c>>] = (6 * x[i] + c) \div Base
  OBVIOUS
<1> HIDE DEF step
<1>4. PICK f : Recursion(0, step, 20, f)
  BY RecursionExists
<1>5. f \in [0..20 -> Nat]
  BY <1>2, <1>4, RecursionStays
<1> DEFINE Is(g) == g = [i \in 0..20 |-> IF i = 0 THEN 0
                           ELSE (6 * x[i] + g[i - 1]) \div Base]
<1>6. Is(f)
  <2>1. f = [i \in 0..20 |-> IF i = 0 THEN 0 ELSE step[<<i, f[i - 1]>>]]
    BY <1>4 DEF Recursion
  <2>2. \A i \in 0..20 : i # 0 => i \in 1..20 /\ f[i - 1] \in Nat
    BY <1>5
  <2>3. \A i \in 0..20 : i # 0 =>
          step[<<i, f[i - 1]>>] = (6 * x[i] + f[i - 1]) \div Base
    BY <1>3, <2>2, Zenon
  <2>4. \A i \in 0..20 : f[i] = IF i = 0 THEN 0
                             ELSE (6 * x[i] + f[i - 1]) \div Base
    BY <2>1, <2>3
  <2>5. f = [i \in 0..20 |-> f[i]]
    BY <1>5, Zenon
  <2>6. QED
    BY <2>4, <2>5
<1>7. Is(Carry(x))
  BY <1>6 DEF Carry
<1> DEFINE c == Carry(x)
<1> HIDE DEF c
<1>8. \A i \in 0..20 : c[i] = IF i = 0 THEN 0
                           ELSE (6 * x[i] + c[i - 1]) \div Base
  BY <1>7 DEF c
<1> DEFINE Out == {i \in 0..20 : c[i] \notin Nat}
<1>9. Out = {}
  <2> SUFFICES ASSUME Out # {} PROVE FALSE
    OBVIOUS
  <2>1. PICK i \in Out : \A j \in Out : i <= j
    <3>1. Out \in SUBSET Nat
      OBVIOUS
    <3> HIDE DEF Out
    <3>2. QED
      BY <3>1, LeastOf
  <2>2. i \in 0..20 /\ c[i] \notin Nat /\ i # 0
    BY <1>8, <2>1
  <2>3. i - 1 \in 0..20 /\ ~ (i <= i - 1) /\ i \in 1..20
    BY <2>2
  <2>4. c[i - 1] \in Nat
    BY <2>1, <2>3
  <2>5. x[i] \in Nat
    BY <2>3 DEF Limbs
  <2>6. (6 * x[i] + c[i - 1]) \div Base \in Nat
    BY <2>4, <2>5 DEF Base
  <2>7. QED
    BY <1>8, <2>2, <2>6
<1>10. c \in [0..20 -> Nat]
  <2>1. c = [i \in 0..20 |-> IF i = 0 THEN 0
                             ELSE (6 * x[i] + c[i - 1]) \div Base]
    BY <1>7 DEF c
  <2>2. \A i \in 0..20 : c[i] \in Nat
    BY <1>9
  <2>3. c = [i \in 0..20 |-> c[i]]
    BY <2>1, Zenon
  <2>4. QED
    BY <2>2, <2>3, Zenon
<1>11. \A i \in 1..20 : i \in 0..20 /\ i # 0
  OBVIOUS
<1>12. QED
  BY <1>8, <1>10, <1>11 DEF c

\* Multiplying by six limb by limb: six times a limb and what is carried into
\* it are the new limb and what is carried out of it.
LEMMA SixTimesLimbs ==
  ASSUME NEW x \in Limbs
  PROVE  /\ TimesSix(x) \in Limbs
         /\ \A i \in 1..20 : TimesSix(x)[i] + Base * Carry(x)[i]
                               = 6 * x[i] + Carry(x)[i - 1]
         /\ TimesSix(x)[21] = 6 * x[21] + Carry(x)[20]
<1> DEFINE c == Carry(x)
           low == [i \in 1..20 |-> (6 * x[i] + c[i - 1]) % Base]
           top == 6 * x[21] + c[20]
           y == TimesSix(x)
<1>1. /\ c \in [0..20 -> Nat]
      /\ \A i \in 1..20 : c[i] = (6 * x[i] + c[i - 1]) \div Base
  BY CarryIs
<1> HIDE DEF c
<1>2. x[21] \in Nat /\ \A i \in 1..20 : x[i] \in Nat /\ c[i - 1] \in Nat
  BY <1>1 DEF Limbs
<1>3. y = Append(low, top)
  BY DEF TimesSix, c
<1>4. /\ low \in Seq(Nat) /\ DOMAIN low = 1..20 /\ top \in Nat
      /\ \A i \in 1..20 : low[i] = (6 * x[i] + c[i - 1]) % Base
  <2>1. \A i \in 1..20 : (6 * x[i] + c[i - 1]) % Base \in Nat
    BY <1>2 DEF Base
  <2>2. c[20] \in Nat
    BY <1>1
  <2>3. top \in Nat
    BY <1>2, <2>2
  <2>4. low \in Seq(Nat)
    BY <2>1, IsASeq
  <2>5. QED
    BY <2>3, <2>4
<1> HIDE DEF low, top, y
<1>5. low \in Seq(Nat) /\ Len(low) = 20
  BY <1>4, LenProperties
<1>6. /\ y \in Seq(Nat) /\ Len(y) = 21 /\ y[21] = top
      /\ \A i \in 1..20 : y[i] = low[i]
  <2> DEFINE S == Nat
  <2>1. low \in Seq(S) /\ top \in S
    BY <1>4
  <2> HIDE DEF S
  <2>2. /\ Append(low, top) \in Seq(S)
        /\ Len(Append(low, top)) = Len(low) + 1
        /\ \A i \in 1..Len(low) : Append(low, top)[i] = low[i]
        /\ Append(low, top)[Len(low) + 1] = top
    BY <2>1, AppendProperties
  <2>3. /\ y \in Seq(S) /\ Len(y) = Len(low) + 1 /\ y[Len(low) + 1] = top
        /\ \A i \in 1..Len(low) : y[i] = low[i]
    BY <1>3, <2>2, Zenon
  <2>4. QED
    BY <1>5, <2>3 DEF S
<1>7. y \in [1..21 -> Nat]
  BY <1>6, LenProperties
<1>8. ASSUME NEW i \in 1..20
      PROVE  y[i] < Base /\ y[i] + Base * c[i] = 6 * x[i] + c[i - 1]
  <2> DEFINE v == 6 * x[i] + c[i - 1]
  <2>1. y[i] = v % Base /\ c[i] = v \div Base
    BY <1>1, <1>4, <1>6, Zenon
  <2>2. v \in Nat
    BY <1>2
  <2> HIDE DEF v
  <2>3. y[i] < Base /\ y[i] + Base * c[i] = v
    BY <2>1, <2>2 DEF Base
  <2>4. QED
    BY <2>3 DEF v
<1>9. y \in Limbs /\ y[21] = top
  BY <1>6, <1>7, <1>8 DEF Limbs
<1>10. QED
  BY <1>8, <1>9 DEF y, c, top

\* Eleven digits in base 2^32, the least significant first.
Weighted(t1, t2, t3, t4, t5, t6, t7, t8, t9, t10, t11) ==
  t1 + 4294967296 * (t2 + 4294967296 * (t3 + 4294967296 * (t4 + 4294967296 *
  (t5 + 4294967296 * (t6 + 4294967296 * (t7 + 4294967296 * (t8 + 4294967296 *
  (t9 + 4294967296 * (t10 + 4294967296 * t11)))))))))

\* Two limbs make a digit below 2^32, zero when both are.
LEMMA TwoDigits ==
  ASSUME NEW a \in Nat, NEW b \in Nat, a < 65536, b < 65536
  PROVE  /\ a + 65536 * b \in Nat
         /\ a + 65536 * b < 4294967296
         /\ a + 65536 * b = 0 <=> a = 0 /\ b = 0
BY SMT

\* Two limbs multiplied by six, each with what is carried into and out of it.
LEMMA TwoSixTimes ==
  ASSUME NEW a \in Nat, NEW b \in Nat, NEW p \in Nat, NEW q \in Nat,
         NEW c0 \in Nat, NEW c1 \in Nat, NEW c2 \in Nat,
         p + 65536 * c1 = 6 * a + c0,
         q + 65536 * c2 = 6 * b + c1
  PROVE  p + 65536 * q + 4294967296 * c2 = 6 * (a + 65536 * b) + c0
BY SMT

\* The number that limbs make, two of them at a time.
Two(x, i) == x[i] + 65536 * x[i + 1]

Number(x) ==
  Weighted(Two(x, 1), Two(x, 3), Two(x, 5), Two(x, 7), Two(x, 9), Two(x, 11),
           Two(x, 13), Two(x, 15), Two(x, 17), Two(x, 19), x[21])

\* Two limbs at a time: a digit below 2^32, zero when both limbs are.
LEMMA TwoLimbs ==
  ASSUME NEW x \in Limbs, NEW i \in {1, 3, 5, 7, 9, 11, 13, 15, 17, 19}
  PROVE  /\ Two(x, i) \in Nat /\ Two(x, i) < 4294967296
         /\ Two(x, i) = 0 <=> x[i] = 0 /\ x[i + 1] = 0
<1>1. i \in 1..20 /\ i + 1 \in 1..20
  OBVIOUS
<1>2. /\ x[i] \in Nat /\ x[i] < 65536
      /\ x[i + 1] \in Nat /\ x[i + 1] < 65536
  BY <1>1 DEF Limbs, Base
<1>3. QED
  BY <1>2, TwoDigits, SMT DEF Two

\* TimesSix multiplies the number by six.
LEMMA NumberTimesSix ==
  ASSUME NEW x \in Limbs
  PROVE  Number(TimesSix(x)) = 6 * Number(x)
<1> DEFINE y == TimesSix(x)
           c == Carry(x)
           Odd == {1, 3, 5, 7, 9, 11, 13, 15, 17, 19}
<1>1. /\ y \in Limbs /\ y[21] = 6 * x[21] + c[20]
      /\ \A i \in 1..20 : y[i] + Base * c[i] = 6 * x[i] + c[i - 1]
  BY SixTimesLimbs
<1>2. c \in [0..20 -> Nat] /\ c[0] = 0
  BY CarryIs
<1> HIDE DEF y, c
<1>3. ASSUME NEW i \in Odd
      PROVE  Two(y, i) + 4294967296 * c[i + 1] = 6 * Two(x, i) + c[i - 1]
  <2>1. i \in 1..20 /\ i + 1 \in 1..20 /\ i + 1 - 1 = i
    OBVIOUS
  <2>2. /\ y[i] + 65536 * c[i] = 6 * x[i] + c[i - 1]
        /\ y[i + 1] + 65536 * c[i + 1] = 6 * x[i + 1] + c[i]
    BY <1>1, <2>1 DEF Base
  <2>3. /\ x[i] \in Nat /\ x[i + 1] \in Nat /\ y[i] \in Nat
        /\ y[i + 1] \in Nat
    BY <1>1, <2>1 DEF Limbs
  <2>4. c[i] \in Nat /\ c[i + 1] \in Nat /\ c[i - 1] \in Nat
    BY <1>2
  <2>5. QED
    <3> DEFINE a == x[i]
               b == x[i + 1]
               p == y[i]
               q == y[i + 1]
               c0 == c[i - 1]
               c1 == c[i]
               c2 == c[i + 1]
    <3>1. /\ a \in Nat /\ b \in Nat /\ p \in Nat /\ q \in Nat
          /\ c0 \in Nat /\ c1 \in Nat /\ c2 \in Nat
          /\ p + 65536 * c1 = 6 * a + c0
          /\ q + 65536 * c2 = 6 * b + c1
      BY <2>2, <2>3, <2>4
    <3> HIDE DEF a, b, p, q, c0, c1, c2
    <3>2. p + 65536 * q + 4294967296 * c2 = 6 * (a + 65536 * b) + c0
      BY <3>1, TwoSixTimes, SMT
    <3>3. QED
      BY <3>2, SMT DEF Two, a, b, p, q, c0, c2
<1>4. /\ y[21] \in Nat /\ x[21] \in Nat
      /\ \A i \in Odd : Two(x, i) \in Nat /\ Two(y, i) \in Nat
                         /\ c[i + 1] \in Nat
  <2>1. y[21] \in Nat /\ x[21] \in Nat
    BY <1>1 DEF Limbs
  <2>2. \A i \in Odd : c[i + 1] \in Nat
    BY <1>2
  <2>3. QED
    BY <1>1, <2>1, <2>2, TwoLimbs, SMT
<1>5. /\ Two(y, 1) + 4294967296 * c[2] = 6 * Two(x, 1)
      /\ Two(y, 3) + 4294967296 * c[4] = 6 * Two(x, 3) + c[2]
      /\ Two(y, 5) + 4294967296 * c[6] = 6 * Two(x, 5) + c[4]
      /\ Two(y, 7) + 4294967296 * c[8] = 6 * Two(x, 7) + c[6]
      /\ Two(y, 9) + 4294967296 * c[10] = 6 * Two(x, 9) + c[8]
      /\ Two(y, 11) + 4294967296 * c[12] = 6 * Two(x, 11) + c[10]
      /\ Two(y, 13) + 4294967296 * c[14] = 6 * Two(x, 13) + c[12]
      /\ Two(y, 15) + 4294967296 * c[16] = 6 * Two(x, 15) + c[14]
      /\ Two(y, 17) + 4294967296 * c[18] = 6 * Two(x, 17) + c[16]
      /\ Two(y, 19) + 4294967296 * c[20] = 6 * Two(x, 19) + c[18]
  <2>1. Two(y, 1) + 4294967296 * c[2] = 6 * Two(x, 1) + c[0]
    BY <1>3, SMT
  <2>2. QED
    BY <1>2, <1>3, <1>4, <2>1, SMT
<1>6. /\ Two(x, 1) \in Nat /\ Two(y, 1) \in Nat /\ c[2] \in Nat
      /\ Two(x, 3) \in Nat /\ Two(y, 3) \in Nat /\ c[4] \in Nat
      /\ Two(x, 5) \in Nat /\ Two(y, 5) \in Nat /\ c[6] \in Nat
      /\ Two(x, 7) \in Nat /\ Two(y, 7) \in Nat /\ c[8] \in Nat
      /\ Two(x, 9) \in Nat /\ Two(y, 9) \in Nat /\ c[10] \in Nat
      /\ Two(x, 11) \in Nat /\ Two(y, 11) \in Nat /\ c[12] \in Nat
      /\ Two(x, 13) \in Nat /\ Two(y, 13) \in Nat /\ c[14] \in Nat
      /\ Two(x, 15) \in Nat /\ Two(y, 15) \in Nat /\ c[16] \in Nat
      /\ Two(x, 17) \in Nat /\ Two(y, 17) \in Nat /\ c[18] \in Nat
      /\ Two(x, 19) \in Nat /\ Two(y, 19) \in Nat /\ c[20] \in Nat
  BY <1>4, SMT
<1> DEFINE t1 == Two(x, 1)
           t2 == Two(x, 3)
           t3 == Two(x, 5)
           t4 == Two(x, 7)
           t5 == Two(x, 9)
           t6 == Two(x, 11)
           t7 == Two(x, 13)
           t8 == Two(x, 15)
           t9 == Two(x, 17)
           t10 == Two(x, 19)
           t11 == x[21]
           u1 == Two(y, 1)
           u2 == Two(y, 3)
           u3 == Two(y, 5)
           u4 == Two(y, 7)
           u5 == Two(y, 9)
           u6 == Two(y, 11)
           u7 == Two(y, 13)
           u8 == Two(y, 15)
           u9 == Two(y, 17)
           u10 == Two(y, 19)
           u11 == y[21]
           c1 == c[2]
           c2 == c[4]
           c3 == c[6]
           c4 == c[8]
           c5 == c[10]
           c6 == c[12]
           c7 == c[14]
           c8 == c[16]
           c9 == c[18]
           c10 == c[20]
<1>7. /\ t1 \in Nat /\ t2 \in Nat /\ t3 \in Nat /\ t4 \in Nat /\ t5 \in Nat
      /\ t6 \in Nat /\ t7 \in Nat /\ t8 \in Nat /\ t9 \in Nat /\ t10 \in Nat
      /\ t11 \in Nat /\ u1 \in Nat /\ u2 \in Nat /\ u3 \in Nat /\ u4 \in Nat
      /\ u5 \in Nat /\ u6 \in Nat /\ u7 \in Nat /\ u8 \in Nat /\ u9 \in Nat
      /\ u10 \in Nat /\ u11 \in Nat /\ c1 \in Nat /\ c2 \in Nat /\ c3 \in Nat
      /\ c4 \in Nat /\ c5 \in Nat /\ c6 \in Nat /\ c7 \in Nat /\ c8 \in Nat
      /\ c9 \in Nat /\ c10 \in Nat
  BY <1>4, <1>6, SMT
<1>8. /\ u1 + 4294967296 * c1 = 6 * t1
      /\ u2 + 4294967296 * c2 = 6 * t2 + c1
      /\ u3 + 4294967296 * c3 = 6 * t3 + c2
      /\ u4 + 4294967296 * c4 = 6 * t4 + c3
      /\ u5 + 4294967296 * c5 = 6 * t5 + c4
      /\ u6 + 4294967296 * c6 = 6 * t6 + c5
      /\ u7 + 4294967296 * c7 = 6 * t7 + c6
      /\ u8 + 4294967296 * c8 = 6 * t8 + c7
      /\ u9 + 4294967296 * c9 = 6 * t9 + c8
      /\ u10 + 4294967296 * c10 = 6 * t10 + c9
      /\ u11 = 6 * t11 + c10
  BY <1>1, <1>5, SMT
<1> HIDE DEF t1, t2, t3, t4, t5, t6, t7, t8, t9, t10, t11, u1, u2, u3, u4, u5,
             u6, u7, u8, u9, u10, u11, c1, c2, c3, c4, c5, c6, c7, c8, c9, c10
<1>9. Weighted(u1, u2, u3, u4, u5, u6, u7, u8, u9, u10, u11)
        = 6 * Weighted(t1, t2, t3, t4, t5, t6, t7, t8, t9, t10, t11)
  BY <1>7, <1>8, SMT DEF Weighted
<1>10. QED
  BY <1>9, SMT DEF Number, y, t1, t2, t3, t4, t5, t6, t7, t8, t9, t10, t11, u1,
                             u2, u3, u4, u5, u6, u7, u8, u9, u10, u11


\* The powers are numbers in limbs, each six times the one before it.
LEMMA PowersOfSix ==
  /\ PowerOfSix \in [0..124 -> Limbs]
  /\ Number(PowerOfSix[0]) = 1
  /\ \A n \in 1..124 : Number(PowerOfSix[n]) = 6 * Number(PowerOfSix[n - 1])
<1> DEFINE base == [i \in 1..21 |-> IF i = 1 THEN 1 ELSE 0]
           step == [p \in Nat \X Limbs |-> TimesSix(p[2])]
           p6 == PowerOfSix
<1>1. base \in Limbs /\ Number(base) = 1
  <2>1. base[1] = 1 /\ \A i \in 2..21 : base[i] = 0
    OBVIOUS
  <2>2. base \in Limbs
    BY DEF Limbs, Base
  <2> HIDE DEF base
  <2>3. /\ Two(base, 1) = 1 /\ Two(base, 3) = 0 /\ Two(base, 5) = 0
        /\ Two(base, 7) = 0 /\ Two(base, 9) = 0 /\ Two(base, 11) = 0
        /\ Two(base, 13) = 0 /\ Two(base, 15) = 0 /\ Two(base, 17) = 0
        /\ Two(base, 19) = 0 /\ base[21] = 0
    BY <2>1, SMT DEF Two
  <2>4. Number(base) = 1
    BY <2>3, SMT DEF Number, Weighted
  <2>5. QED
    BY <2>2, <2>4
<1> HIDE DEF base
<1>2. step \in [Nat \X Limbs -> Limbs]
  BY SixTimesLimbs
<1>3. \A i \in Nat, x \in Limbs : step[<<i, x>>] = TimesSix(x)
  OBVIOUS
<1> HIDE DEF step
<1>4. PICK f : Recursion(base, step, 124, f)
  BY RecursionExists
<1>5. f \in [0..124 -> Limbs]
  BY <1>1, <1>2, <1>4, RecursionStays
<1> DEFINE Is(g) ==
             g = [n \in 0..124 |-> IF n = 0 THEN base ELSE TimesSix(g[n - 1])]
<1>6. Is(f)
  <2>1. f = [n \in 0..124 |-> IF n = 0 THEN base ELSE step[<<n, f[n - 1]>>]]
    BY <1>4 DEF Recursion
  <2>2. \A n \in 0..124 : n # 0 => n \in Nat /\ f[n - 1] \in Limbs
    BY <1>5
  <2>3. \A n \in 0..124 : n # 0 => step[<<n, f[n - 1]>>] = TimesSix(f[n - 1])
    BY <1>3, <2>2, Zenon
  <2>4. \A n \in 0..124 : f[n] = IF n = 0 THEN base ELSE TimesSix(f[n - 1])
    BY <2>1, <2>3
  <2>5. f = [n \in 0..124 |-> f[n]]
    BY <1>5, Zenon
  <2>6. QED
    BY <2>4, <2>5
<1>7. Is(p6)
  BY <1>6 DEF PowerOfSix, base
<1> HIDE DEF p6
<1>8. \A n \in 0..124 : p6[n] = IF n = 0 THEN base ELSE TimesSix(p6[n - 1])
  BY <1>7
<1> DEFINE Out == {n \in 0..124 : p6[n] \notin Limbs}
<1>9. Out = {}
  <2> SUFFICES ASSUME Out # {} PROVE FALSE
    OBVIOUS
  <2>1. PICK n \in Out : \A j \in Out : n <= j
    <3>1. Out \in SUBSET Nat
      OBVIOUS
    <3> HIDE DEF Out
    <3>2. QED
      BY <3>1, LeastOf
  <2>2. n \in 0..124 /\ p6[n] \notin Limbs /\ n # 0
    BY <1>1, <1>8, <2>1
  <2>3. n - 1 \in 0..124 /\ ~ (n <= n - 1)
    BY <2>2
  <2>4. p6[n - 1] \in Limbs
    BY <2>1, <2>3
  <2>5. QED
    BY <1>8, <2>2, <2>4, SixTimesLimbs
<1>10. \A n \in 0..124 : p6[n] \in Limbs
  BY <1>9
<1>11. p6 \in [0..124 -> Limbs]
  <2>1. p6 = [n \in 0..124 |-> p6[n]]
    BY <1>7, Zenon
  <2>2. QED
    BY <1>10, <2>1, Zenon
<1>12. ASSUME NEW n \in 1..124
       PROVE  Number(p6[n]) = 6 * Number(p6[n - 1])
  <2>1. n \in 0..124 /\ n # 0 /\ n - 1 \in 0..124
    OBVIOUS
  <2>2. p6[n] = TimesSix(p6[n - 1]) /\ p6[n - 1] \in Limbs
    BY <1>8, <1>10, <2>1
  <2>3. QED
    BY <2>2, NumberTimesSix, Zenon
<1>13. p6[0] = base
  BY <1>8
<1>14. QED
  BY <1>1, <1>11, <1>12, <1>13, Zenon DEF p6

\* A number below 65536^k has no limb but zero above the k-th, another one has.
LEMMA LimbsAbove ==
  ASSUME NEW x \in Limbs
  PROVE  /\ Number(x) \in Nat
         /\ (\E i \in 9..21 : x[i] # 0)
              <=> Number(x) >= 340282366920938463463374607431768211456
         /\ (\E i \in 11..21 : x[i] # 0)
              <=> Number(x) >= 1461501637330902918203684832716283019655932542976
         /\ (\E i \in 13..21 : x[i] # 0)
              <=> Number(x) >= 6277101735386680763835789423207666416102355444464034512896
         /\ (\E i \in 15..21 : x[i] # 0)
              <=> Number(x) >= 26959946667150639794667015087019630673637144422540572481103610249216
         /\ (\E i \in 17..21 : x[i] # 0)
              <=> Number(x) >= 115792089237316195423570985008687907853269984665640564039457584007913129639936
         /\ (\E i \in 19..21 : x[i] # 0)
              <=> Number(x) >= 497323236409786642155382248146820840100456150797347717440463976893159497012533375533056
         /\ (\E i \in 21..21 : x[i] # 0)
              <=> Number(x) >= 2135987035920910082395021706169552114602704522356652769947041607822219725780640550022962086936576
<1> DEFINE Odd == {1, 3, 5, 7, 9, 11, 13, 15, 17, 19}
<1>1. \A i \in Odd : /\ Two(x, i) \in Nat /\ Two(x, i) < 4294967296
                     /\ Two(x, i) = 0 <=> x[i] = 0 /\ x[i + 1] = 0
  BY TwoLimbs, SMT
<1>2. x[21] \in Nat
  BY DEF Limbs
<1>3. /\ Two(x, 1) \in Nat /\ Two(x, 1) < 4294967296
      /\ Two(x, 3) \in Nat /\ Two(x, 3) < 4294967296
      /\ Two(x, 5) \in Nat /\ Two(x, 5) < 4294967296
      /\ Two(x, 7) \in Nat /\ Two(x, 7) < 4294967296
      /\ Two(x, 9) \in Nat /\ Two(x, 9) < 4294967296
      /\ Two(x, 11) \in Nat /\ Two(x, 11) < 4294967296
      /\ Two(x, 13) \in Nat /\ Two(x, 13) < 4294967296
      /\ Two(x, 15) \in Nat /\ Two(x, 15) < 4294967296
      /\ Two(x, 17) \in Nat /\ Two(x, 17) < 4294967296
      /\ Two(x, 19) \in Nat /\ Two(x, 19) < 4294967296
  BY <1>1, SMT
<1>4. (\E i \in 9..21 : x[i] # 0)
        <=> Two(x, 9) # 0 \/ Two(x, 11) # 0 \/ Two(x, 13) # 0 \/
            Two(x, 15) # 0 \/ Two(x, 17) # 0 \/ Two(x, 19) # 0 \/
            x[21] # 0
  <2>1. \A i \in 9..21 : i \in {9, 10, 11, 12, 13, 14, 15, 16, 17, 18, 19, 20, 21}
    OBVIOUS
  <2>2. QED
    BY <1>1, <2>1, SMT
<1>5. (\E i \in 11..21 : x[i] # 0)
        <=> Two(x, 11) # 0 \/ Two(x, 13) # 0 \/ Two(x, 15) # 0 \/
            Two(x, 17) # 0 \/ Two(x, 19) # 0 \/ x[21] # 0
  <2>1. \A i \in 11..21 : i \in {11, 12, 13, 14, 15, 16, 17, 18, 19, 20, 21}
    OBVIOUS
  <2>2. QED
    BY <1>1, <2>1, SMT
<1>6. (\E i \in 13..21 : x[i] # 0)
        <=> Two(x, 13) # 0 \/ Two(x, 15) # 0 \/ Two(x, 17) # 0 \/
            Two(x, 19) # 0 \/ x[21] # 0
  <2>1. \A i \in 13..21 : i \in {13, 14, 15, 16, 17, 18, 19, 20, 21}
    OBVIOUS
  <2>2. QED
    BY <1>1, <2>1, SMT
<1>7. (\E i \in 15..21 : x[i] # 0)
        <=> Two(x, 15) # 0 \/ Two(x, 17) # 0 \/ Two(x, 19) # 0 \/
            x[21] # 0
  <2>1. \A i \in 15..21 : i \in {15, 16, 17, 18, 19, 20, 21}
    OBVIOUS
  <2>2. QED
    BY <1>1, <2>1, SMT
<1>8. (\E i \in 17..21 : x[i] # 0)
        <=> Two(x, 17) # 0 \/ Two(x, 19) # 0 \/ x[21] # 0
  <2>1. \A i \in 17..21 : i \in {17, 18, 19, 20, 21}
    OBVIOUS
  <2>2. QED
    BY <1>1, <2>1, SMT
<1>9. (\E i \in 19..21 : x[i] # 0)
        <=> Two(x, 19) # 0 \/ x[21] # 0
  <2>1. \A i \in 19..21 : i \in {19, 20, 21}
    OBVIOUS
  <2>2. QED
    BY <1>1, <2>1, SMT
<1>10. (\E i \in 21..21 : x[i] # 0)
        <=> x[21] # 0
  <2>1. \A i \in 21..21 : i \in {21}
    OBVIOUS
  <2>2. QED
    BY <1>1, <2>1, SMT
<1> DEFINE t1 == Two(x, 1)
           t2 == Two(x, 3)
           t3 == Two(x, 5)
           t4 == Two(x, 7)
           t5 == Two(x, 9)
           t6 == Two(x, 11)
           t7 == Two(x, 13)
           t8 == Two(x, 15)
           t9 == Two(x, 17)
           t10 == Two(x, 19)
           t11 == x[21]
           n == Weighted(t1, t2, t3, t4, t5, t6, t7, t8, t9, t10, t11)
<1>11. /\ t1 \in Nat /\ t1 < 4294967296
       /\ t2 \in Nat /\ t2 < 4294967296
       /\ t3 \in Nat /\ t3 < 4294967296
       /\ t4 \in Nat /\ t4 < 4294967296
       /\ t5 \in Nat /\ t5 < 4294967296
       /\ t6 \in Nat /\ t6 < 4294967296
       /\ t7 \in Nat /\ t7 < 4294967296
       /\ t8 \in Nat /\ t8 < 4294967296
       /\ t9 \in Nat /\ t9 < 4294967296
       /\ t10 \in Nat /\ t10 < 4294967296
       /\ t11 \in Nat
  BY <1>2, <1>3, SMT
<1>12. (\E i \in 9..21 : x[i] # 0)
        <=> t5 # 0 \/ t6 # 0 \/ t7 # 0 \/ t8 # 0 \/ t9 # 0 \/ t10 # 0 \/ t11 #
            0
  BY <1>4, SMT
<1>13. (\E i \in 11..21 : x[i] # 0)
        <=> t6 # 0 \/ t7 # 0 \/ t8 # 0 \/ t9 # 0 \/ t10 # 0 \/ t11 # 0
  BY <1>5, SMT
<1>14. (\E i \in 13..21 : x[i] # 0)
        <=> t7 # 0 \/ t8 # 0 \/ t9 # 0 \/ t10 # 0 \/ t11 # 0
  BY <1>6, SMT
<1>15. (\E i \in 15..21 : x[i] # 0)
        <=> t8 # 0 \/ t9 # 0 \/ t10 # 0 \/ t11 # 0
  BY <1>7, SMT
<1>16. (\E i \in 17..21 : x[i] # 0)
        <=> t9 # 0 \/ t10 # 0 \/ t11 # 0
  BY <1>8, SMT
<1>17. (\E i \in 19..21 : x[i] # 0)
        <=> t10 # 0 \/ t11 # 0
  BY <1>9, SMT
<1>18. (\E i \in 21..21 : x[i] # 0)
        <=> t11 # 0
  BY <1>10, SMT
<1> HIDE DEF t1, t2, t3, t4, t5, t6, t7, t8, t9, t10, t11
<1>19. n \in Nat
  BY <1>11, SMT DEF Weighted
<1>20. t5 # 0 \/ t6 # 0 \/ t7 # 0 \/ t8 # 0 \/ t9 # 0 \/ t10 # 0 \/ t11 #
            0
        <=> n >= 340282366920938463463374607431768211456
  BY <1>11, SMT DEF Weighted
<1>21. t6 # 0 \/ t7 # 0 \/ t8 # 0 \/ t9 # 0 \/ t10 # 0 \/ t11 # 0
        <=> n >= 1461501637330902918203684832716283019655932542976
  BY <1>11, SMT DEF Weighted
<1>22. t7 # 0 \/ t8 # 0 \/ t9 # 0 \/ t10 # 0 \/ t11 # 0
        <=> n >= 6277101735386680763835789423207666416102355444464034512896
  BY <1>11, SMT DEF Weighted
<1>23. t8 # 0 \/ t9 # 0 \/ t10 # 0 \/ t11 # 0
        <=> n >= 26959946667150639794667015087019630673637144422540572481103610249216
  BY <1>11, SMT DEF Weighted
<1>24. t9 # 0 \/ t10 # 0 \/ t11 # 0
        <=> n >= 115792089237316195423570985008687907853269984665640564039457584007913129639936
  BY <1>11, SMT DEF Weighted
<1>25. t10 # 0 \/ t11 # 0
        <=> n >= 497323236409786642155382248146820840100456150797347717440463976893159497012533375533056
  BY <1>11, SMT DEF Weighted
<1>26. t11 # 0
        <=> n >= 2135987035920910082395021706169552114602704522356652769947041607822219725780640550022962086936576
  BY <1>11, SMT DEF Weighted
<1>27. n = Number(x)
  BY SMT DEF Number, t1, t2, t3, t4, t5, t6, t7, t8, t9, t10, t11
<1> HIDE DEF n
<1>28. QED
  BY <1>12, <1>13, <1>14, <1>15, <1>16, <1>17, <1>18, <1>19, <1>20, <1>21,
     <1>22, <1>23, <1>24, <1>25, <1>26, <1>27, SMT

\* Twelve rolls more are 6^12 times as many outcomes.
LEMMA PowersApart ==
  /\ \A n \in 0..124 : Number(PowerOfSix[n]) \in Nat
  /\ \A n \in 0..112 :
       Number(PowerOfSix[n + 12]) = 2176782336 * Number(PowerOfSix[n])
<1> DEFINE w(n) == Number(PowerOfSix[n])
<1>1. \A n \in 0..124 : w(n) \in Nat
  <2>1. \A x \in Limbs : Number(x) \in Nat
    BY LimbsAbove, SMT
  <2>2. QED
    BY <2>1, PowersOfSix, Zenon
<1>2. \A n \in 0..123 : w(n + 1) = 6 * w(n)
  <2>1. ASSUME NEW n \in 0..123
        PROVE  w(n + 1) = 6 * w(n)
    <3>1. n + 1 \in 1..124 /\ n + 1 - 1 = n
      OBVIOUS
    <3>2. \A m \in 1..124 : w(m) = 6 * w(m - 1)
      BY PowersOfSix, SMT
    <3> HIDE DEF w
    <3>3. w(n + 1) = 6 * w(n + 1 - 1)
      BY <3>1, <3>2, SMT
    <3>4. QED
      BY <3>1, <3>3, SMT
  <2>2. QED
    BY <2>1, Zenon
<1> HIDE DEF w
<1>3. ASSUME NEW n \in 0..112
      PROVE  w(n + 12) = 2176782336 * w(n)
  <2>1. /\ w(n + 1) = 6 * w(n)
        /\ w(n + 1 + 1) = 6 * w(n + 1)
        /\ w(n + 2 + 1) = 6 * w(n + 2)
        /\ w(n + 3 + 1) = 6 * w(n + 3)
        /\ w(n + 4 + 1) = 6 * w(n + 4)
        /\ w(n + 5 + 1) = 6 * w(n + 5)
        /\ w(n + 6 + 1) = 6 * w(n + 6)
        /\ w(n + 7 + 1) = 6 * w(n + 7)
        /\ w(n + 8 + 1) = 6 * w(n + 8)
        /\ w(n + 9 + 1) = 6 * w(n + 9)
        /\ w(n + 10 + 1) = 6 * w(n + 10)
        /\ w(n + 11 + 1) = 6 * w(n + 11)
    <3>1. ASSUME NEW k \in 0..11
          PROVE  w(n + k + 1) = 6 * w(n + k)
      <4>1. n + k \in 0..123
        OBVIOUS
      <4>2. QED
        BY <1>2, <4>1, Zenon
    <3>2. w(n + 0 + 1) = 6 * w(n + 0)
      BY <3>1
    <3>3. n + 0 = n
      OBVIOUS
    <3>4. QED
      BY <3>1, <3>2, <3>3
  <2>2. /\ n + 1 + 1 = n + 2
        /\ n + 2 + 1 = n + 3
        /\ n + 3 + 1 = n + 4
        /\ n + 4 + 1 = n + 5
        /\ n + 5 + 1 = n + 6
        /\ n + 6 + 1 = n + 7
        /\ n + 7 + 1 = n + 8
        /\ n + 8 + 1 = n + 9
        /\ n + 9 + 1 = n + 10
        /\ n + 10 + 1 = n + 11
        /\ n + 11 + 1 = n + 12
    OBVIOUS
  <2>3. QED
    BY <1>1, <2>1, <2>2, SMT
<1>4. QED
  BY <1>1, <1>3, SMT DEF w

\* The powers of six on both sides of each power of two that EnoughRolls needs.
LEMMA PowersThere ==
  /\ Number(PowerOfSix[49]) = 134713546244127343440523266742756048896
  /\ Number(PowerOfSix[50]) = 808281277464764060643139600456536293376
  /\ Number(PowerOfSix[61]) = 293242067884135544935936513642647623193965101056
  /\ Number(PowerOfSix[62]) = 1759452407304813269615619081855885739163790606336
  /\ Number(PowerOfSix[74]) = 3829944921253794893077685127088430174646042802674934480896
  /\ Number(PowerOfSix[75]) = 22979669527522769358466110762530581047876256816049606885376
  /\ Number(PowerOfSix[86]) = 8336956452438171696218513660416009914138901025162730927971742253056
  /\ Number(PowerOfSix[87]) = 50021738714629030177311081962496059484833406150976385567830453518336
  /\ Number(PowerOfSix[99]) = 108886437250011817682781711193009636756190618412159145257178661061582856912896
  /\ Number(PowerOfSix[100]) = 653318623500070906096690267158057820537143710472954871543071966369497141477376
  /\ Number(PowerOfSix[111]) = 237022073235798140523131680268796863968652076808504395016684686594984571128407503405056
  /\ Number(PowerOfSix[112]) = 1422132439414788843138790081612781183811912460851026370100108119569907426770445020430336
  /\ Number(PowerOfSix[123]) = 515945462261783755152398841011116745459156698526467621650685651061658400624853041221985753890816
  /\ Number(PowerOfSix[124]) = 3095672773570702530914393046066700472754940191158805729904113906369950403749118247331914523344896
<1> DEFINE w(n) == Number(PowerOfSix[n])
<1>1. w(0) = 1 /\ \A n \in 0..112 : w(n + 12) = 2176782336 * w(n)
  BY PowersApart, PowersOfSix, SMT
<1>2. \A n \in 1..124 : w(n) = 6 * w(n - 1)
  BY PowersOfSix, SMT
<1> HIDE DEF w
<1>3. w(12) = 2176782336
  <2>1. w(0 + 12) = 2176782336 * w(0)
    BY <1>1, SMT
  <2>2. QED
    BY <1>1, <2>1, SMT
<1>4. w(24) = 4738381338321616896
  <2>1. w(12 + 12) = 2176782336 * w(12)
    BY <1>1, SMT
  <2>2. QED
    BY <1>3, <2>1, SMT
<1>5. w(36) = 10314424798490535546171949056
  <2>1. w(24 + 12) = 2176782336 * w(24)
    BY <1>1, SMT
  <2>2. QED
    BY <1>4, <2>1, SMT
<1>6. w(48) = 22452257707354557240087211123792674816
  <2>1. w(36 + 12) = 2176782336 * w(36)
    BY <1>1, SMT
  <2>2. QED
    BY <1>5, <2>1, SMT
<1>7. w(60) = 48873677980689257489322752273774603865660850176
  <2>1. w(48 + 12) = 2176782336 * w(48)
    BY <1>1, SMT
  <2>2. QED
    BY <1>6, <2>1, SMT
<1>8. w(72) = 106387358923716524807713475752456393740167855629859291136
  <2>1. w(60 + 12) = 2176782336 * w(60)
    BY <1>1, SMT
  <2>2. QED
    BY <1>7, <2>1, SMT
<1>9. w(84) = 231582123678838102672736490567111386503858361810075859110326173696
  <2>1. w(72 + 12) = 2176782336 * w(72)
    BY <1>1, SMT
  <2>2. QED
    BY <1>8, <2>1, SMT
<1>10. w(96) = 504103876157462118901767181449118688686067677834070116931382690099920633856
  <2>1. w(84 + 12) = 2176782336 * w(84)
    BY <1>1, SMT
  <2>2. QED
    BY <1>9, <2>1, SMT
<1>11. w(108) = 1097324413128695095014498519762948444299315170409742569521688363865669310779664367616
  <2>1. w(96 + 12) = 2176782336 * w(96)
    BY <1>1, SMT
  <2>2. QED
    BY <1>10, <2>1, SMT
<1>12. w(120) = 2388636399360109977557402041718133080829429159844757507642063199359529632522467783435119230976
  <2>1. w(108 + 12) = 2176782336 * w(108)
    BY <1>1, SMT
  <2>2. QED
    BY <1>11, <2>1, SMT
<1>13. /\ w(49) = 134713546244127343440523266742756048896
      /\ w(50) = 808281277464764060643139600456536293376
  <2>1. /\ w(49) = 6 * w(49 - 1)
        /\ w(50) = 6 * w(50 - 1)
    BY <1>2, SMT
  <2>2. QED
    BY <1>6, <2>1, SMT
<1>14. /\ w(61) = 293242067884135544935936513642647623193965101056
      /\ w(62) = 1759452407304813269615619081855885739163790606336
  <2>1. /\ w(61) = 6 * w(61 - 1)
        /\ w(62) = 6 * w(62 - 1)
    BY <1>2, SMT
  <2>2. QED
    BY <1>7, <2>1, SMT
<1>15. /\ w(73) = 638324153542299148846280854514738362441007133779155746816
      /\ w(74) = 3829944921253794893077685127088430174646042802674934480896
      /\ w(75) = 22979669527522769358466110762530581047876256816049606885376
  <2>1. /\ w(73) = 6 * w(73 - 1)
        /\ w(74) = 6 * w(74 - 1)
        /\ w(75) = 6 * w(75 - 1)
    BY <1>2, SMT
  <2>2. QED
    BY <1>8, <2>1, SMT
<1>16. /\ w(85) = 1389492742073028616036418943402668319023150170860455154661957042176
      /\ w(86) = 8336956452438171696218513660416009914138901025162730927971742253056
      /\ w(87) = 50021738714629030177311081962496059484833406150976385567830453518336
  <2>1. /\ w(85) = 6 * w(85 - 1)
        /\ w(86) = 6 * w(86 - 1)
        /\ w(87) = 6 * w(87 - 1)
    BY <1>2, SMT
  <2>2. QED
    BY <1>9, <2>1, SMT
<1>17. /\ w(97) = 3024623256944772713410603088694712132116406067004420701588296140599523803136
      /\ w(98) = 18147739541668636280463618532168272792698436402026524209529776843597142818816
      /\ w(99) = 108886437250011817682781711193009636756190618412159145257178661061582856912896
      /\ w(100) = 653318623500070906096690267158057820537143710472954871543071966369497141477376
  <2>1. /\ w(97) = 6 * w(97 - 1)
        /\ w(98) = 6 * w(98 - 1)
        /\ w(99) = 6 * w(99 - 1)
        /\ w(100) = 6 * w(100 - 1)
    BY <1>2, SMT
  <2>2. QED
    BY <1>10, <2>1, SMT
<1>18. /\ w(109) = 6583946478772170570086991118577690665795891022458455417130130183194015864677986205696
      /\ w(110) = 39503678872633023420521946711466143994775346134750732502780781099164095188067917234176
      /\ w(111) = 237022073235798140523131680268796863968652076808504395016684686594984571128407503405056
      /\ w(112) = 1422132439414788843138790081612781183811912460851026370100108119569907426770445020430336
  <2>1. /\ w(109) = 6 * w(109 - 1)
        /\ w(110) = 6 * w(110 - 1)
        /\ w(111) = 6 * w(111 - 1)
        /\ w(112) = 6 * w(112 - 1)
    BY <1>2, SMT
  <2>2. QED
    BY <1>11, <2>1, SMT
<1>19. /\ w(121) = 14331818396160659865344412250308798484976574959068545045852379196157177795134806700610715385856
      /\ w(122) = 85990910376963959192066473501852790909859449754411270275114275176943066770808840203664292315136
      /\ w(123) = 515945462261783755152398841011116745459156698526467621650685651061658400624853041221985753890816
      /\ w(124) = 3095672773570702530914393046066700472754940191158805729904113906369950403749118247331914523344896
  <2>1. /\ w(121) = 6 * w(121 - 1)
        /\ w(122) = 6 * w(122 - 1)
        /\ w(123) = 6 * w(123 - 1)
        /\ w(124) = 6 * w(124 - 1)
    BY <1>2, SMT
  <2>2. QED
    BY <1>12, <2>1, SMT
<1>20. QED
  BY <1>13, <1>14, <1>15, <1>16, <1>17, <1>18, <1>19, SMT DEF w

\* A number of rolls covers the bits when its power of six is large enough.
LEMMA CoversWhen ==
  ASSUME NEW n \in 0..124
  PROVE  /\ Covers(n, 128)
              <=> Number(PowerOfSix[n])
                    >= 340282366920938463463374607431768211456
         /\ Covers(n, 160)
              <=> Number(PowerOfSix[n])
                    >= 1461501637330902918203684832716283019655932542976
         /\ Covers(n, 192)
              <=> Number(PowerOfSix[n])
                    >= 6277101735386680763835789423207666416102355444464034512896
         /\ Covers(n, 224)
              <=> Number(PowerOfSix[n])
                    >= 26959946667150639794667015087019630673637144422540572481103610249216
         /\ Covers(n, 256)
              <=> Number(PowerOfSix[n])
                    >= 115792089237316195423570985008687907853269984665640564039457584007913129639936
         /\ Covers(n, 288)
              <=> Number(PowerOfSix[n])
                    >= 497323236409786642155382248146820840100456150797347717440463976893159497012533375533056
         /\ Covers(n, 320)
              <=> Number(PowerOfSix[n])
                    >= 2135987035920910082395021706169552114602704522356652769947041607822219725780640550022962086936576
<1> DEFINE x == PowerOfSix[n]
<1>1. x \in Limbs
  BY PowersOfSix, Zenon
<1>2. /\ 128 \div 16 + 1 = 9
      /\ 160 \div 16 + 1 = 11
      /\ 192 \div 16 + 1 = 13
      /\ 224 \div 16 + 1 = 15
      /\ 256 \div 16 + 1 = 17
      /\ 288 \div 16 + 1 = 19
      /\ 320 \div 16 + 1 = 21
  OBVIOUS
<1>3. /\ Covers(n, 128) <=> \E i \in 9..21 : x[i] # 0
      /\ Covers(n, 160) <=> \E i \in 11..21 : x[i] # 0
      /\ Covers(n, 192) <=> \E i \in 13..21 : x[i] # 0
      /\ Covers(n, 224) <=> \E i \in 15..21 : x[i] # 0
      /\ Covers(n, 256) <=> \E i \in 17..21 : x[i] # 0
      /\ Covers(n, 288) <=> \E i \in 19..21 : x[i] # 0
      /\ Covers(n, 320) <=> \E i \in 21..21 : x[i] # 0
  BY <1>2 DEF Covers
<1> HIDE DEF x
<1>4. QED
  BY <1>1, <1>3, LimbsAbove, SMT DEF x

\* The numbers of rolls, and that one roll fewer has too few outcomes.
LEMMA CoveringRolls ==
  /\ Covers(50, 128) /\ ~ Covers(49, 128)
  /\ Covers(62, 160) /\ ~ Covers(61, 160)
  /\ Covers(75, 192) /\ ~ Covers(74, 192)
  /\ Covers(87, 224) /\ ~ Covers(86, 224)
  /\ Covers(100, 256) /\ ~ Covers(99, 256)
  /\ Covers(112, 288) /\ ~ Covers(111, 288)
  /\ Covers(124, 320) /\ ~ Covers(123, 320)
<1>1. Covers(50, 128) /\ ~ Covers(49, 128)
  BY PowersThere, CoversWhen, SMT
<1>2. Covers(62, 160) /\ ~ Covers(61, 160)
  BY PowersThere, CoversWhen, SMT
<1>3. Covers(75, 192) /\ ~ Covers(74, 192)
  BY PowersThere, CoversWhen, SMT
<1>4. Covers(87, 224) /\ ~ Covers(86, 224)
  BY PowersThere, CoversWhen, SMT
<1>5. Covers(100, 256) /\ ~ Covers(99, 256)
  BY PowersThere, CoversWhen, SMT
<1>6. Covers(112, 288) /\ ~ Covers(111, 288)
  BY PowersThere, CoversWhen, SMT
<1>7. Covers(124, 320) /\ ~ Covers(123, 320)
  BY PowersThere, CoversWhen, SMT
<1>8. QED
  BY <1>1, <1>2, <1>3, <1>4, <1>5, <1>6, <1>7

\* The tables of both modes, against the powers of two.
LEMMA TablesCover ==
  ASSUME byte_count \in ByteCounts, use_dice_only \in BOOLEAN
  PROVE  /\ Covers(roll_count + rolls_short, bits_to_cover)
         /\ ~ Covers(roll_count + rolls_short - 1, bits_to_cover)
<1>1. byte_count \in {16, 20, 24, 28, 32}
  BY DEF ByteCounts
<1>2. CASE byte_count = 16 /\ use_dice_only
  <2>1. /\ roll_count + rolls_short = 50
        /\ roll_count + rolls_short - 1 = 49
        /\ bits_to_cover = 128
    BY <1>2 DEF roll_count, dice_only_roll_count,
                 rolls_short, bits_to_cover
  <2>2. Covers(50, 128) /\ ~ Covers(49, 128)
    BY CoveringRolls, SMT
  <2>3. QED
    BY <2>1, <2>2, Zenon
<1>3. CASE byte_count = 20 /\ use_dice_only
  <2>1. /\ roll_count + rolls_short = 62
        /\ roll_count + rolls_short - 1 = 61
        /\ bits_to_cover = 160
    BY <1>3 DEF roll_count, dice_only_roll_count,
                 rolls_short, bits_to_cover
  <2>2. Covers(62, 160) /\ ~ Covers(61, 160)
    BY CoveringRolls, SMT
  <2>3. QED
    BY <2>1, <2>2, Zenon
<1>4. CASE byte_count = 24 /\ use_dice_only
  <2>1. /\ roll_count + rolls_short = 75
        /\ roll_count + rolls_short - 1 = 74
        /\ bits_to_cover = 192
    BY <1>4 DEF roll_count, dice_only_roll_count,
                 rolls_short, bits_to_cover
  <2>2. Covers(75, 192) /\ ~ Covers(74, 192)
    BY CoveringRolls, SMT
  <2>3. QED
    BY <2>1, <2>2, Zenon
<1>5. CASE byte_count = 28 /\ use_dice_only
  <2>1. /\ roll_count + rolls_short = 87
        /\ roll_count + rolls_short - 1 = 86
        /\ bits_to_cover = 224
    BY <1>5 DEF roll_count, dice_only_roll_count,
                 rolls_short, bits_to_cover
  <2>2. Covers(87, 224) /\ ~ Covers(86, 224)
    BY CoveringRolls, SMT
  <2>3. QED
    BY <2>1, <2>2, Zenon
<1>6. CASE byte_count = 32 /\ use_dice_only
  <2>1. /\ roll_count + rolls_short = 100
        /\ roll_count + rolls_short - 1 = 99
        /\ bits_to_cover = 256
    BY <1>6 DEF roll_count, dice_only_roll_count,
                 rolls_short, bits_to_cover
  <2>2. Covers(100, 256) /\ ~ Covers(99, 256)
    BY CoveringRolls, SMT
  <2>3. QED
    BY <2>1, <2>2, Zenon
<1>7. CASE byte_count = 16 /\ ~ use_dice_only
  <2>1. /\ roll_count + rolls_short = 75
        /\ roll_count + rolls_short - 1 = 74
        /\ bits_to_cover = 192
    BY <1>7 DEF roll_count, mixed_dice_roll_count,
                 rolls_short, bits_to_cover
  <2>2. Covers(75, 192) /\ ~ Covers(74, 192)
    BY CoveringRolls, SMT
  <2>3. QED
    BY <2>1, <2>2, Zenon
<1>8. CASE byte_count = 20 /\ ~ use_dice_only
  <2>1. /\ roll_count + rolls_short = 87
        /\ roll_count + rolls_short - 1 = 86
        /\ bits_to_cover = 224
    BY <1>8 DEF roll_count, mixed_dice_roll_count,
                 rolls_short, bits_to_cover
  <2>2. Covers(87, 224) /\ ~ Covers(86, 224)
    BY CoveringRolls, SMT
  <2>3. QED
    BY <2>1, <2>2, Zenon
<1>9. CASE byte_count = 24 /\ ~ use_dice_only
  <2>1. /\ roll_count + rolls_short = 100
        /\ roll_count + rolls_short - 1 = 99
        /\ bits_to_cover = 256
    BY <1>9 DEF roll_count, mixed_dice_roll_count,
                 rolls_short, bits_to_cover
  <2>2. Covers(100, 256) /\ ~ Covers(99, 256)
    BY CoveringRolls, SMT
  <2>3. QED
    BY <2>1, <2>2, Zenon
<1>10. CASE byte_count = 28 /\ ~ use_dice_only
  <2>1. /\ roll_count + rolls_short = 112
        /\ roll_count + rolls_short - 1 = 111
        /\ bits_to_cover = 288
    BY <1>10 DEF roll_count, mixed_dice_roll_count,
                 rolls_short, bits_to_cover
  <2>2. Covers(112, 288) /\ ~ Covers(111, 288)
    BY CoveringRolls, SMT
  <2>3. QED
    BY <2>1, <2>2, Zenon
<1>11. CASE byte_count = 32 /\ ~ use_dice_only
  <2>1. /\ roll_count + rolls_short = 124
        /\ roll_count + rolls_short - 1 = 123
        /\ bits_to_cover = 320
    BY <1>11 DEF roll_count, mixed_dice_roll_count,
                 rolls_short, bits_to_cover
  <2>2. Covers(124, 320) /\ ~ Covers(123, 320)
    BY CoveringRolls, SMT
  <2>3. QED
    BY <2>1, <2>2, Zenon
<1>12. QED
  BY <1>1, <1>2, <1>3, <1>4, <1>5, <1>6, <1>7, <1>8, <1>9, <1>10, <1>11

-------------------------------------------------------------------------------
(* The theorems.                                                           *)

\* The invariant holds in every state of every run.
LEMMA DiceInvariant == Spec => []DiceInv
<1>1. Init => DiceInv
  BY InitDice
<1>2. DiceInv /\ [Next]_vars => DiceInv'
  BY StepTypeOK, StepCopied, StepHashed DEF DiceInv
<1>3. QED
  BY <1>1, <1>2, PTL DEF Spec

\* Every variable of the dice entry keeps its type, and the rolls of a mode
\* their representation: ASCII digits or numbers below six.
THEOREM DiceTypeCorrect == Spec => []TypeOK
BY DiceInvariant, PTL DEF DiceInv

\* mix_dice_entropy and dice_only_entropy never refuse the rolls that the
\* readers in seeds.cpp collected, whatever was entered in between.
THEOREM ChecksNeverRefuse == Spec => []ReaderMeetsChecks
BY DiceInvariant, PTL DEF DiceInv

\* The string that is hashed holds the faces thrown, all of them and in their
\* order, in the representation of the mode.
THEOREM ThrowsHashed == Spec => []ThrownRollsHashed
BY DiceInvariant, PTL DEF DiceInv

\* The rolls that are hashed have at least as many outcomes as the entropy has
\* values, in mixed mode 2^64 times as many, and one roll fewer would not; only
\* the 99 rolls for 256 bits are one short, as the code says they are.
THEOREM RollsEnough == Spec => []EnoughRolls
<1>1. DiceInv => EnoughRolls
  <2> SUFFICES ASSUME DiceInv, pc = "returned"
               PROVE  EnoughRolls
    BY DEF EnoughRolls
  <2>1. Len(rolls) = roll_count
    BY DEF DiceInv, Copied
  <2>2. byte_count \in ByteCounts /\ use_dice_only \in BOOLEAN
    BY DEF DiceInv, TypeOK
  <2>3. QED
    BY <2>1, <2>2, TablesCover, Zenon DEF EnoughRolls
<1>2. QED
  BY <1>1, DiceInvariant, PTL

===============================================================================
