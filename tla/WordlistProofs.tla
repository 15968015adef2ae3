---------------------------- MODULE WordlistProofs ----------------------------
(***************************************************************************)
(* Proofs about Wordlist, for all files, every size of the list and every  *)
(* length of a mnemonic.                                                   *)
(***************************************************************************)
EXTENDS Wordlist, SequenceTheorems, FunctionTheorems, FiniteSetTheorems,
        WellFoundedInduction, TLAPS

\* The texts of the lines, whole or cut short.
LineTexts == UNION {{file[i].text} \cup Cuts[file[i].text] : i \in DOMAIN file}

\* The words read are the texts of the file's first lines, as many as have
\* been read, the last of them cut short if the read failed in it; the line that
\* makes load_wordlist throw is counted and not kept.
InOrder ==
  /\ words \in Seq(LineTexts)
  /\ Len(words) <= next - 1
  /\ pc # "threw" => Len(words) = next - 1
  /\ \A i \in DOMAIN words :
       \/ words[i] = file[i].text
       \/ damaged /\ i = Len(words) /\ words[i] \in Cuts[file[i].text]
  /\ pc = "accepted" => Accepted

WordInv == TypeOK /\ InOrder

-------------------------------------------------------------------------------

\* A file is a sequence of lines.
LEMMA FileLines ==
  ASSUME file \in Files
  PROVE  Len(file) \in Nat /\ DOMAIN file = 1..Len(file)
BY WordlistAssumption, LenProperties

LEMMA InitWords == Init => WordInv
<1> SUFFICES ASSUME Init PROVE WordInv
  OBVIOUS
<1>1. Len(words) = 0 /\ DOMAIN words = {} /\ words \in Seq(LineTexts)
  BY EmptySeq DEF Init
<1>2. Len(file) \in Nat
  BY FileLines DEF Init
<1>3. TypeOK
  <2>1. next \in 1..Len(file) + 1 /\ Len(words) <= Len(file)
    BY <1>1, <1>2 DEF Init
  <2>2. QED
    BY <2>1 DEF Init, TypeOK
<1>4. InOrder
  BY <1>1 DEF Init, InOrder
<1>5. QED
  BY <1>3, <1>4 DEF WordInv

\* Keeping the next line, or what was read of it, keeps the invariant.
LEMMA LineKept ==
  ASSUME WordInv, pc = "reading", ~damaged, next <= Len(file),
         file' = file, damaged' \in BOOLEAN,
         NEW text, Keep(text),
         text = file[next].text \/ (damaged' /\ text \in Cuts[file[next].text])
  PROVE  WordInv'
<1> USE DEF WordInv, TypeOK
<1>1. Len(file) \in Nat /\ DOMAIN file = 1..Len(file)
  BY FileLines
<1>2. next' = next + 1 /\ next \in DOMAIN file
  BY <1>1 DEF Keep, NextLine
<1>3. Len(words) = next - 1 /\ Len(words) \in Nat /\ words \in Seq(LineTexts)
  BY LenProperties DEF InOrder
<1>4. /\ DOMAIN words = 1..next - 1
      /\ \A i \in 1..next - 1 : words[i] = file[i].text
  BY <1>3, LenProperties DEF InOrder
<1>5. LineTexts' = LineTexts
  BY DEF LineTexts
<1>6. CASE text = <<>>
  <2>1. pc' = "threw" /\ words' = words
    BY <1>6 DEF Keep
  <2>2. QED
    BY <1>1, <1>2, <1>3, <1>4, <1>5, <2>1 DEF InOrder
<1>7. CASE text # <<>>
  <2>1. pc' = "reading" /\ words' = Append(words, text)
    BY <1>7 DEF Keep
  <2>2. text \in LineTexts
    BY <1>2 DEF LineTexts
  <2>3. /\ words' \in Seq(LineTexts) /\ Len(words') = next
        /\ \A i \in 1..next - 1 : words'[i] = words[i]
        /\ words'[next] = text
    BY <1>3, <2>1, <2>2, AppendProperties
  <2>4. DOMAIN words' = 1..next
    BY <1>3, <2>3, LenProperties
  <2>5. \A i \in DOMAIN words' :
          \/ words'[i] = file[i].text
          \/ damaged' /\ i = Len(words') /\ words'[i] \in Cuts[file[i].text]
    BY <1>1, <1>2, <1>4, <2>3, <2>4
  <2>6. QED
    BY <1>1, <1>2, <1>5, <2>1, <2>3, <2>5 DEF InOrder
<1>8. QED
  BY <1>6, <1>7

\* Every other step leaves the words alone.
LEMMA StepWords ==
  ASSUME WordInv, [Next]_vars
  PROVE  WordInv'
<1>1. CASE ReadLine
  <2> DEFINE text == file[next].text
  <2>1. /\ pc = "reading" /\ ~damaged /\ next <= Len(file)
        /\ file' = file /\ damaged' = damaged
        /\ Keep(text)
    BY <1>1 DEF ReadLine, Word
  <2>2. damaged' \in BOOLEAN
    BY <2>1 DEF WordInv, TypeOK
  <2>3. text = file[next].text \/ (damaged' /\ text \in Cuts[file[next].text])
    OBVIOUS
  <2>4. QED
    BY <2>1, <2>2, <2>3, LineKept, Zenon
<1>2. CASE ReadCutShort
  <2>1. PICK text \in CutLine(file[next]) : Keep(text)
    BY <1>2 DEF ReadCutShort
  <2>2. text = file[next].text \/ text \in Cuts[file[next].text]
    BY DEF CutLine
  <2>3. /\ pc = "reading" /\ ~damaged /\ next <= Len(file)
        /\ file' = file /\ damaged'
    BY <1>2 DEF ReadCutShort
  <2>4. damaged' \in BOOLEAN
    BY <1>2 DEF ReadCutShort
  <2>5. text = file[next].text \/ (damaged' /\ text \in Cuts[file[next].text])
    BY <2>2, <2>3
  <2>6. QED
    BY <2>1, <2>3, <2>4, <2>5, LineKept, Zenon
<1> USE DEF WordInv, TypeOK, InOrder, LineTexts
<1>3. CASE Open
  BY <1>3 DEF Open
<1>4. CASE ReadFails
  BY <1>4 DEF ReadFails
<1>5. CASE CheckWords
  BY <1>5 DEF CheckWords, Accepted
<1>6. CASE UNCHANGED vars
  BY <1>6 DEF vars, Accepted
<1>7. QED
  BY <1>1, <1>2, <1>3, <1>4, <1>5, <1>6 DEF Next, Terminated

LEMMA WordInvariant == Spec => []WordInv
BY InitWords, StepWords, PTL DEF Spec

\* Every variable keeps its type, and no more words are kept than lines read.
THEOREM WordlistTypeCorrect == Spec => []TypeOK
BY WordInvariant, PTL DEF WordInv

\* A list that load_wordlist accepts holds the file's lines under their own
\* numbers, with either line end; after a read that failed the last may be the
\* beginning of its line.
THEOREM OrderKept == Spec => []KeepsOrder
<1>1. WordInv => KeepsOrder
  <2> SUFFICES ASSUME WordInv, pc = "accepted", NEW i \in 1..wordlist_size
               PROVE  /\ i \in DOMAIN file
                      /\ \/ words[i] = file[i].text
                         \/ /\ damaged /\ i = wordlist_size
                            /\ words[i] \in Cuts[file[i].text]
    BY DEF KeepsOrder
  <2>1. Len(words) = wordlist_size /\ DOMAIN words = 1..Len(words)
    BY LenProperties DEF WordInv, InOrder, Accepted
  <2>2. Len(words) <= Len(file) /\ DOMAIN file = 1..Len(file) /\ Len(file) \in Nat
    BY FileLines DEF WordInv, TypeOK
  <2>3. QED
    BY <2>1, <2>2, WordlistAssumption DEF WordInv, InOrder
<1>2. QED
  BY <1>1, WordInvariant, PTL

-------------------------------------------------------------------------------
(* What FlattenSeq makes of lines that are one token each.                 *)

\* Every non-empty set of natural numbers has a least element.
LEMMA LeastNumber ==
  ASSUME NEW D \in SUBSET Nat, D # {}
  PROVE  \E i \in D : \A j \in D : i <= j
<1>1. IsWellFoundedOn(OpToRel(<, Nat), Nat)
  BY NatLessThanWellFounded
<1>2. PICK x \in D : \A y \in D : ~ (<<y, x>> \in OpToRel(<, Nat))
  BY <1>1, WFMin
<1>3. \A y \in D : ~ (y < x)
  BY <1>2 DEF OpToRel
<1>4. x \in Nat /\ \A y \in D : y \in Nat
  OBVIOUS
<1> HIDE <1>2
<1>5. QED
  BY <1>3, <1>4

\* A line of one token adds this token.
LEMMA OneMore ==
  ASSUME NEW T, NEW s \in Seq(T), NEW t \in Seq(T), Len(t) = 1
  PROVE  /\ s \o t \in Seq(T) /\ Len(s \o t) = Len(s) + 1
         /\ \A k \in 1..Len(s) : (s \o t)[k] = s[k]
         /\ (s \o t)[Len(s) + 1] = t[1]
<1>1. Len(s) \in Nat
  BY LenProperties
<1>2. /\ s \o t \in Seq(T) /\ Len(s \o t) = Len(s) + Len(t)
      /\ \A k \in 1..Len(s) + Len(t) :
           (s \o t)[k] = IF k <= Len(s) THEN s[k] ELSE t[k - Len(s)]
  BY ConcatProperties
<1>3. \A k \in 1..Len(s) : (s \o t)[k] = s[k]
  BY <1>1, <1>2
<1>4. Len(s) + 1 \in 1..Len(s) + Len(t) /\ ~ (Len(s) + 1 <= Len(s))
      /\ Len(s) + 1 - Len(s) = 1
  BY <1>1
<1>5. QED
  BY <1>2, <1>3, <1>4

\* The tokens of the first lines, as the recursion of FlattenSeq joins them.
Joined(seqs, flat) ==
  flat = [i \in 1..Len(seqs) |-> IF i = 1 THEN seqs[i] ELSE flat[i - 1] \o seqs[i]]

Tokens(seqs, n) == [k \in 1..n |-> seqs[k][1]]

\* The first tokens of lines of one token.
LEMMA TokensOf ==
  ASSUME NEW T, NEW seqs \in Seq(Seq(T)), \A k \in DOMAIN seqs : Len(seqs[k]) = 1,
         NEW i \in 1..Len(seqs)
  PROVE  /\ seqs[i] \in Seq(T) /\ Len(seqs[i]) = 1
         /\ Tokens(seqs, i) \in Seq(T) /\ Len(Tokens(seqs, i)) = i
         /\ \A k \in 1..i : Tokens(seqs, i)[k] = seqs[k][1]
<1>1. Len(seqs) \in Nat /\ DOMAIN seqs = 1..Len(seqs)
  BY LenProperties
<1>2. ASSUME NEW k \in 1..Len(seqs)
      PROVE  seqs[k] \in Seq(T) /\ Len(seqs[k]) = 1 /\ seqs[k][1] \in T
  <2>1. seqs[k] \in Seq(T) /\ Len(seqs[k]) = 1
    BY <1>1, ElementOfSeq
  <2>2. QED
    BY <2>1, ElementOfSeq
<1>3. i \in Nat /\ \A k \in 1..i : seqs[k][1] \in T
  BY <1>1, <1>2
<1>4. Tokens(seqs, i) \in [1..i -> T]
  BY <1>3 DEF Tokens
<1>5. Tokens(seqs, i) \in Seq(T)
  BY <1>3, <1>4, SeqDef
<1>6. Len(Tokens(seqs, i)) = i
  BY <1>3, <1>4, <1>5, LenProperties
<1>7. QED
  BY <1>2, <1>5, <1>6 DEF Tokens

\* One line more adds its token.
LEMMA TokensGrow ==
  ASSUME NEW T, NEW seqs \in Seq(Seq(T)), \A k \in DOMAIN seqs : Len(seqs[k]) = 1,
         NEW i \in 1..Len(seqs), i # 1
  PROVE  Tokens(seqs, i) = Tokens(seqs, i - 1) \o seqs[i]
<1> DEFINE before == Tokens(seqs, i - 1)
           longer == before \o seqs[i]
<1>1. i - 1 \in 1..Len(seqs) /\ i \in Nat
  BY LenProperties
<1>2. /\ seqs[i] \in Seq(T) /\ Len(seqs[i]) = 1
      /\ Tokens(seqs, i) \in Seq(T) /\ Len(Tokens(seqs, i)) = i
      /\ \A k \in 1..i : Tokens(seqs, i)[k] = seqs[k][1]
  BY TokensOf
<1>3. /\ before \in Seq(T) /\ Len(before) = i - 1
      /\ \A k \in 1..i - 1 : before[k] = seqs[k][1]
  BY <1>1, TokensOf
<1> HIDE DEF before
<1>4. /\ longer \in Seq(T) /\ Len(longer) = Len(before) + 1
      /\ \A k \in 1..Len(before) : longer[k] = before[k]
      /\ longer[Len(before) + 1] = seqs[i][1]
  BY <1>2, <1>3, OneMore
<1> HIDE DEF longer
<1>5. Len(longer) = i /\ \A k \in 1..i : longer[k] = seqs[k][1]
  <2>1. Len(before) + 1 = i /\ \A k \in 1..i : k = i \/ k \in 1..Len(before)
    BY <1>1, <1>3
  <2>2. \A k \in 1..Len(before) : longer[k] = seqs[k][1]
    BY <1>3, <1>4
  <2>3. QED
    BY <1>4, <2>1, <2>2
<1>6. longer = Tokens(seqs, i)
  BY <1>2, <1>4, <1>5, SeqEqual
<1>7. QED
  BY <1>6 DEF longer, before

\* Only the sequences of the first tokens satisfy the recursion: a least place
\* where another solution differs would differ one place earlier.
LEMMA JoinedIsTokens ==
  ASSUME NEW T, NEW seqs \in Seq(Seq(T)), \A k \in DOMAIN seqs : Len(seqs[k]) = 1,
         NEW flat, Joined(seqs, flat)
  PROVE  \A i \in 1..Len(seqs) : flat[i] = Tokens(seqs, i)
<1>1. Len(seqs) \in Nat
  BY LenProperties
<1>2. \A i \in 1..Len(seqs) :
        /\ seqs[i] \in Seq(T) /\ Len(seqs[i]) = 1
        /\ Tokens(seqs, i) \in Seq(T) /\ Len(Tokens(seqs, i)) = i
        /\ \A k \in 1..i : Tokens(seqs, i)[k] = seqs[k][1]
  BY TokensOf
<1>3. \A i \in 1..Len(seqs) :
        flat[i] = IF i = 1 THEN seqs[i] ELSE flat[i - 1] \o seqs[i]
  BY DEF Joined
<1> DEFINE Wrong == {i \in 1..Len(seqs) : flat[i] # Tokens(seqs, i)}
<1>4. Wrong = {}
  <2> SUFFICES ASSUME Wrong # {} PROVE FALSE
    OBVIOUS
  <2>1. PICK i \in Wrong : \A j \in Wrong : i <= j
    <3>1. Wrong \in SUBSET Nat
      BY <1>1
    <3> HIDE DEF Wrong
    <3>2. QED
      BY <3>1, LeastNumber
  <2>2. i \in 1..Len(seqs) /\ flat[i] # Tokens(seqs, i)
    BY <2>1
  <2>3. CASE i = 1
    <3>1. flat[1] = seqs[1]
      BY <1>3, <2>2, <2>3
    <3>2. \A k \in 1..1 : Tokens(seqs, 1)[k] = seqs[1][k]
      BY <1>2, <2>2, <2>3
    <3>3. Tokens(seqs, 1) = seqs[1]
      BY <1>2, <2>2, <2>3, <3>2, SeqEqual
    <3>4. QED
      BY <2>2, <2>3, <3>1, <3>3
  <2>4. CASE i # 1
    <3>1. i - 1 \in 1..Len(seqs) /\ i - 1 \notin Wrong /\ i \in Nat
      BY <1>1, <2>1, <2>2, <2>4
    <3>2. flat[i - 1] = Tokens(seqs, i - 1)
      BY <3>1
    <3>3. flat[i] = Tokens(seqs, i - 1) \o seqs[i]
      BY <1>3, <2>2, <2>4, <3>2
    <3>4. QED
      BY <2>2, <2>4, <3>3, TokensGrow
  <2>5. QED
    BY <2>3, <2>4
<1>5. QED
  BY <1>4

\* FlattenSeq makes of lines of one token each the sequence of the tokens.
LEMMA FlattenTokens ==
  ASSUME NEW T, NEW seqs \in Seq(Seq(T)), \A k \in DOMAIN seqs : Len(seqs[k]) = 1,
         Len(seqs) # 0
  PROVE  FlattenSeq(seqs) = Tokens(seqs, Len(seqs))
<1>1. Len(seqs) \in Nat /\ Len(seqs) \in 1..Len(seqs)
  BY LenProperties
<1> DEFINE all == [i \in 1..Len(seqs) |-> Tokens(seqs, i)]
           flat == CHOOSE f : Joined(seqs, f)
<1>2. Joined(seqs, all)
  <2>1. ASSUME NEW i \in 1..Len(seqs)
        PROVE  Tokens(seqs, i) =
                 IF i = 1 THEN seqs[i] ELSE all[i - 1] \o seqs[i]
    <3>1. /\ seqs[i] \in Seq(T) /\ Len(seqs[i]) = 1
          /\ Tokens(seqs, i) \in Seq(T) /\ Len(Tokens(seqs, i)) = i
          /\ \A k \in 1..i : Tokens(seqs, i)[k] = seqs[k][1]
      BY TokensOf
    <3>2. CASE i = 1
      BY <3>1, <3>2, SeqEqual
    <3>3. CASE i # 1
      <4>1. i - 1 \in 1..Len(seqs)
        BY <1>1, <3>3
      <4>2. all[i - 1] = Tokens(seqs, i - 1)
        BY <4>1
      <4>3. QED
        BY <3>3, <4>2, TokensGrow
    <3>4. QED
      BY <3>2, <3>3
  <2>2. QED
    BY <2>1 DEF Joined
<1>3. Joined(seqs, flat)
  BY <1>2
<1>4. FlattenSeq(seqs) = flat[Len(seqs)]
  BY DEF FlattenSeq, Joined
<1> HIDE DEF flat, all
<1>5. flat[Len(seqs)] = Tokens(seqs, Len(seqs))
  BY <1>1, <1>3, JoinedIsTokens
<1>6. QED
  BY <1>4, <1>5

-------------------------------------------------------------------------------
(* The indices behind a mnemonic.                                          *)

\* As many different words as words: no word is in the list twice.
LEMMA WordsDistinct ==
  ASSUME NEW T, words \in Seq(T), Accepted
  PROVE  /\ DOMAIN words = 1..wordlist_size
         /\ \A i, j \in 1..wordlist_size : words[i] = words[j] => i = j
<1> DEFINE D == 1..wordlist_size
<1>1. DOMAIN words = D /\ words \in [D -> T] /\ Len(words) = wordlist_size
  BY LenProperties DEF Accepted
<1>2. IsFiniteSet(D) /\ Cardinality(D) = wordlist_size
  <2>1. wordlist_size \in Nat /\ wordlist_size # 0
    BY WordlistAssumption
  <2>2. IsFiniteSet(1..wordlist_size)
        /\ Cardinality(1..wordlist_size)
             = IF 1 > wordlist_size THEN 0 ELSE wordlist_size - 1 + 1
    BY <2>1, FS_Interval
  <2>3. QED
    BY <2>1, <2>2
<1>3. words \in Surjection(D, Range(words))
  BY <1>1 DEF Surjection, Range
<1>4. words \in Injection(D, Range(words))
  BY <1>1, <1>2, <1>3, FS_SurjSameCardinalityImpliesInj DEF Accepted
<1>5. QED
  BY <1>1, <1>4 DEF Injection, IsInjective

\* What make_mnemonic prints for indices into a list of lines of one token.
LEMMA MnemonicTokens ==
  ASSUME NEW T, words \in Seq(Seq(T)), DOMAIN words = 1..wordlist_size,
         \A i \in DOMAIN words : Len(words[i]) = 1,
         NEW m \in IndexLists, MnemonicLength # 0
  PROVE  make_mnemonic(m) = [p \in 1..MnemonicLength |-> words[m[p] + 1][1]]
<1> DEFINE lines == [p \in DOMAIN m |-> words[m[p] + 1]]
<1>1. DOMAIN m = 1..MnemonicLength /\ MnemonicLength \in Nat
  BY WordlistAssumption DEF IndexLists
<1>2. ASSUME NEW p \in 1..MnemonicLength
      PROVE  /\ m[p] + 1 \in DOMAIN words
             /\ words[m[p] + 1] \in Seq(T) /\ Len(words[m[p] + 1]) = 1
  <2>1. m[p] \in 0..wordlist_size - 1 /\ wordlist_size \in Nat
    BY WordlistAssumption DEF IndexLists
  <2>2. m[p] + 1 \in 1..wordlist_size
    BY <2>1
  <2>3. QED
    BY <2>2, LenProperties, ElementOfSeq
<1>3. lines \in [1..MnemonicLength -> Seq(T)]
  BY <1>1, <1>2
<1>4. lines \in Seq(Seq(T)) /\ Len(lines) = MnemonicLength
  BY <1>1, <1>3, SeqDef, LenProperties
<1>5. \A p \in DOMAIN lines : Len(lines[p]) = 1
  BY <1>1, <1>2
<1>6. make_mnemonic(m) = FlattenSeq(lines)
  BY DEF make_mnemonic
<1>7. \A p \in 1..MnemonicLength : lines[p] = words[m[p] + 1]
  BY <1>1
<1> HIDE DEF lines
<1>8. FlattenSeq(lines) = Tokens(lines, MnemonicLength)
  BY <1>4, <1>5, FlattenTokens
<1>9. QED
  BY <1>6, <1>7, <1>8 DEF Tokens

\* From an accepted list of one word per line every mnemonic can be turned
\* back into the indices make_indices computed: print_tiny_seed and the words
\* printed before it say the same.
THEOREM MnemonicsRecoverable == Spec => []MnemonicRecoverable
<1>1. WordInv => MnemonicRecoverable
  <2> SUFFICES ASSUME WordInv, pc = "accepted",
                      \A i \in DOMAIN words : Len(words[i]) = 1,
                      NEW m \in IndexLists, NEW n \in IndexLists,
                      make_mnemonic(m) = make_mnemonic(n)
               PROVE  m = n
    BY DEF MnemonicRecoverable
  <2> DEFINE T == UNION {Range(t) : t \in LineTexts}
  <2>1. Accepted /\ words \in Seq(Seq(T))
    <3>1. Accepted /\ words \in Seq(LineTexts)
      BY DEF WordInv, InOrder
    <3>2. ASSUME NEW t \in LineTexts
          PROVE  t \in Seq(T)
      <4>1. t \in Seq(Range(t))
        <5>1. PICK i \in DOMAIN file :
                t = file[i].text \/ t \in Cuts[file[i].text]
          BY DEF LineTexts
        <5>2. file \in Files
          BY DEF WordInv, TypeOK
        <5>3. QED
          BY <5>1, <5>2, WordlistAssumption
      <4>2. Range(t) \subseteq T
        OBVIOUS
      <4>3. QED
        BY <4>1, <4>2, SeqMonotonic
    <3>3. LineTexts \subseteq Seq(T)
      BY <3>2
    <3>4. QED
      BY <3>1, <3>3, SeqMonotonic
  <2> HIDE DEF T
  <2>2. /\ DOMAIN words = 1..wordlist_size
        /\ \A i, j \in 1..wordlist_size : words[i] = words[j] => i = j
    BY <2>1, WordsDistinct
  <2>3. ASSUME NEW p \in 1..MnemonicLength
        PROVE  m[p] = n[p]
    <3>1. MnemonicLength # 0
      BY WordlistAssumption
    <3>2. /\ make_mnemonic(m) = [q \in 1..MnemonicLength |-> words[m[q] + 1][1]]
          /\ make_mnemonic(n) = [q \in 1..MnemonicLength |-> words[n[q] + 1][1]]
      BY <2>1, <2>2, <3>1, MnemonicTokens
    <3>3. words[m[p] + 1][1] = words[n[p] + 1][1]
      <4>1. make_mnemonic(m)[p] = words[m[p] + 1][1]
        BY <3>2, Zenon
      <4>2. make_mnemonic(n)[p] = words[n[p] + 1][1]
        BY <3>2, Zenon
      <4>3. QED
        BY <4>1, <4>2
    <3>4. /\ m[p] \in 0..wordlist_size - 1 /\ n[p] \in 0..wordlist_size - 1
          /\ wordlist_size \in Nat
      BY WordlistAssumption DEF IndexLists
    <3>5. m[p] + 1 \in 1..wordlist_size /\ n[p] + 1 \in 1..wordlist_size
      BY <3>4
    <3>6. words[m[p] + 1] = words[n[p] + 1]
      <4>1. /\ words[m[p] + 1] \in Seq(T) /\ Len(words[m[p] + 1]) = 1
            /\ words[n[p] + 1] \in Seq(T) /\ Len(words[n[p] + 1]) = 1
        BY <2>1, <2>2, <3>5, LenProperties, ElementOfSeq
      <4>2. QED
        BY <3>3, <4>1, SeqEqual
    <3>7. m[p] + 1 = n[p] + 1
      BY <2>2, <3>5, <3>6
    <3>8. QED
      BY <3>4, <3>7
  <2>4. /\ m = [p \in 1..MnemonicLength |-> m[p]]
        /\ n = [p \in 1..MnemonicLength |-> n[p]]
    BY DEF IndexLists
  <2>5. [p \in 1..MnemonicLength |-> m[p]] = [p \in 1..MnemonicLength |-> n[p]]
    BY <2>3
  <2>6. QED
    BY <2>4, <2>5
<1>2. QED
  BY <1>1, WordInvariant, PTL

===============================================================================
