------------------------------- MODULE Indices -------------------------------
(***************************************************************************)
(* make_indices of src/bip39.cpp, bit by bit, and what src/seeds.cpp shows *)
(* of its result: the Tiny Seed and the checksum bits of --show-entropy.   *)
(* Bytes are numbers in sequences that start at 1; positions of bits and   *)
(* words start at 0, as in the code.                                       *)
(***************************************************************************)
EXTENDS Integers, Sequences, SequencesExt

CONSTANTS
  WordCounts, \* the word counts callers pass
  Entropies,  \* the entropies callers pass
  Digests     \* the digests sha256 may return

Byte        == 0..255
sha256_size == 32

ASSUME IndicesAssumption ==
  /\ WordCounts \subseteq Nat
  /\ Entropies \subseteq Seq(Byte)
  /\ Digests \subseteq [1..sha256_size -> Byte]

bits_per_word == 11
wordlist_size == 2048

\* 1U << n
PowerOfTwo == <<1, 2, 4, 8, 16, 32, 64, 128, 256, 512, 1024, 2048>>
Shift(n)   == PowerOfTwo[n + 1]

SupportedWordCounts == {12, 15, 18, 21, 24}

entropy_bytes_for_word_count(word_count) ==
  CASE word_count = 12 -> 16
    [] word_count = 15 -> 20
    [] word_count = 18 -> 24
    [] word_count = 21 -> 28
    [] word_count = 24 -> 32

\* Mutant: the least significant bit first.
read_bit_reversed(bytes, bit_position) ==
  (bytes[(bit_position \div 8) + 1] \div Shift(bit_position % 8)) % 2

\* The most significant bit of the first byte is bit 0.
read_bit(bytes, bit_position) ==
  (bytes[(bit_position \div 8) + 1] \div Shift(7 - (bit_position % 8))) % 2

VARIABLES
  pc,          \* "checking", "packing", "returned" or "threw"
  word_count,
  entropy,
  digest,
  word_number,
  bit,         \* of the word being packed
  index,
  indices,
  error

inputVars == <<word_count, entropy, digest>>
vars      == <<pc, inputVars, word_number, bit, index, indices, error>>

Word16    == {n \in Nat : n < 65536}
WordIndex == 0..wordlist_size - 1
Errors    == {"WordCount", "EntropySize", "BitCount", "IndexRange"}

TypeOK ==
  /\ pc \in {"checking", "packing", "returned", "threw"}
  /\ word_count \in WordCounts
  /\ entropy \in Entropies
  /\ digest \in Digests
  /\ word_number \in 0..24
  /\ bit \in 0..bits_per_word
  /\ index \in Word16
  /\ indices \in Seq(WordIndex)
  /\ error \in Errors \cup {"none"}

Init ==
  /\ pc = "checking"
  /\ word_count \in WordCounts
  /\ entropy \in Entropies
  /\ digest \in Digests
  /\ word_number = 0 /\ bit = 0 /\ index = 0
  /\ indices = <<>>
  /\ error = "none"

Throw(e) == pc' = "threw" /\ error' = e

entropy_bit_count  == Len(entropy) * 8
checksum_bit_count == entropy_bit_count \div 32
combined_bit_count == entropy_bit_count + checksum_bit_count

Check ==
  /\ pc = "checking"
  /\ IF word_count \notin SupportedWordCounts THEN Throw("WordCount")
     ELSE IF Len(entropy) # entropy_bytes_for_word_count(word_count)
       THEN Throw("EntropySize")
     ELSE IF combined_bit_count # word_count * bits_per_word
       THEN Throw("BitCount")
     ELSE pc' = "packing" /\ UNCHANGED error
  /\ UNCHANGED <<inputVars, word_number, bit, index, indices>>

combined_position == word_number * bits_per_word + bit

value ==
  IF combined_position < entropy_bit_count
  THEN read_bit(entropy, combined_position)
  ELSE read_bit(digest, combined_position - entropy_bit_count)

\* Mutant: twelve bits.
OneBitMore == bit <= bits_per_word

MoreBits == bit < bits_per_word

\* index is a std::uint16_t.
PackBit ==
  /\ pc = "packing"
  /\ MoreBits
  /\ index' = (index * 2 + value) % 65536
  /\ bit' = bit + 1
  /\ UNCHANGED <<pc, inputVars, word_number, indices, error>>

\* Mutant: one word too many.
OneWordMore == word_number = word_count

LastWord == word_number + 1 = word_count

PushIndex ==
  /\ pc = "packing"
  /\ ~MoreBits
  /\ \/ /\ index >= wordlist_size
        /\ Throw("IndexRange")
        /\ UNCHANGED <<indices, word_number, bit, index>>
     \/ /\ index < wordlist_size
        /\ indices' = Append(indices, index)
        /\ word_number' = word_number + 1
        /\ bit' = 0
        /\ index' = 0
        /\ pc' = IF LastWord THEN "returned" ELSE "packing"
        /\ UNCHANGED error
  /\ UNCHANGED inputVars

Terminated == pc \in {"returned", "threw"} /\ UNCHANGED vars

Next == Check \/ PackBit \/ PushIndex \/ Terminated

Spec == Init /\ [][Next]_vars

-------------------------------------------------------------------------------
(* What the program prints.                                                *)

\* print_tiny_seed: the eleven bits of an index, the highest first.
TinySeed(i) == [b \in 1..bits_per_word |-> (i \div Shift(bits_per_word - b)) % 2]

\* print_entropy_and_checksum: the leading bits of the digest.
PrintedChecksum == [b \in 1..checksum_bit_count |-> read_bit(digest, b - 1)]

-------------------------------------------------------------------------------
(* Properties.                                                             *)

\* The two std::logic_errors are unreachable: a valid word count and entropy
\* always divide into groups of eleven bits that index the wordlist.
NoInternalError == error \notin {"BitCount", "IndexRange"}

\* Only the checksum part of the digest is ever read: every position is one of
\* the entropy's bits or of the checksum bits, also for the last word.
ReadsOnlyChecksum ==
  pc = "packing" /\ bit < bits_per_word =>
    combined_position < entropy_bit_count + checksum_bit_count

\* The binary digits of a byte, by their definition.
BinaryDigits ==
  [x \in Byte |->
     CHOOSE d \in [1..8 -> {0, 1}] :
       x = d[1] * 128 + d[2] * 64 + d[3] * 32 + d[4] * 16
             + d[5] * 8 + d[6] * 4 + d[7] * 2 + d[8]]

Bits(bytes) == FlattenSeq([i \in 1..Len(bytes) |-> BinaryDigits[bytes[i]]])

\* The Tiny Seed is the same secret as the entropy: its rows put together are
\* the entropy's bits and then the checksum bits that --show-entropy prints,
\* which are the first bits of the digest.
TinySeedIsEntropy ==
  pc = "returned" =>
    LET rows == [w \in 1..word_count |-> TinySeed(indices[w])] IN
    /\ FlattenSeq(rows) = Bits(entropy) \o PrintedChecksum
    /\ IsPrefix(PrintedChecksum, Bits(digest))

===============================================================================
