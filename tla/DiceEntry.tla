------------------------------ MODULE DiceEntry ------------------------------
(***************************************************************************)
(* The dice modes of src/seeds.cpp: read_die_face, which asks for a roll   *)
(* again until the entry is a face, generate_mixed_dice_entropy and        *)
(* generate_dice_only_entropy around it, and the checks and hash of        *)
(* src/entropy.cpp that they end in.  The user has thrown the dice before  *)
(* and copies the faces, with mistakes in between that are no faces.       *)
(*                                                                         *)
(* pc names the point the program has reached:                             *)
(*   rolling    in read_die_face, about to read the next line              *)
(*   random     about to call RAND_priv_bytes (mixed mode only)            *)
(*   mixing     in mix_dice_entropy or dice_only_entropy                   *)
(*   returned   the entropy has been returned                              *)
(*   threw      an exception goes to main, which exits with status 1       *)
(***************************************************************************)
EXTENDS Conditioner

CONSTANTS
  Throws,       \* the sequences of faces users may have thrown
  Mistakes,     \* entries that are no face
  NotANumber,   \* the roll of an entry that does not start with an int
  SystemRandoms \* the results of RAND_priv_bytes

\* An entry is the int it starts with and whether more than space follows it.
ASSUME DiceAssumption ==
  /\ Throws \subseteq [1..124 -> 1..6]
  /\ Mistakes \subseteq [roll : Int \cup {NotANumber}, extra : BOOLEAN]
  /\ \A e \in Mistakes : e.roll \notin 1..6 \/ e.extra
  /\ \A r \in SystemRandoms : r \in Seq(Range(r)) /\ Len(r) = sha256_size

VARIABLES
  use_dice_only, \* --dice-only rather than --dice
  byte_count,
  pc,
  rolls,         \* '1' to '6' in dice-only mode, 0 to 5 in mixed mode
  system_random,
  entropy,
  error,         \* which exception ended the entry
  thrown         \* history: the faces the user has thrown

modeVars == <<use_dice_only, byte_count, thrown>>
vars     == <<modeVars, pc, rolls, system_random, entropy, error>>

TypeOK ==
  /\ use_dice_only \in BOOLEAN
  /\ byte_count \in ByteCounts
  /\ pc \in {"rolling", "random", "mixing", "returned", "threw"}
  /\ rolls \in Seq(IF use_dice_only THEN 49..54 ELSE 0..5)
  /\ system_random \in SystemRandoms \cup {<<>>}
  /\ error \in {"none", "InputEnded", "RandomFailed", "InvalidRolls",
                "DigestFailed"}
  /\ thrown \in Throws

Init ==
  /\ use_dice_only \in BOOLEAN
  /\ byte_count \in ByteCounts
  /\ pc = "rolling"
  /\ rolls = <<>>
  /\ system_random = <<>>
  /\ entropy = <<>>
  /\ error = "none"
  /\ thrown \in Throws

\* Mutant: the table of the other mode.
dice_only_counts == dice_only_roll_count(byte_count)

roll_count == IF use_dice_only THEN dice_only_roll_count(byte_count)
              ELSE mixed_dice_roll_count(byte_count)

Throw(e) ==
  /\ pc' = "threw"
  /\ error' = e

-------------------------------------------------------------------------------

Asking == pc = "rolling" /\ Len(rolls) < roll_count

\* read_die_face returns the face as an ASCII digit.
IsFace(entry) == ~entry.extra /\ entry.roll \in 1..6
Digit(face)   == 48 + face

\* Mutant: one-based values in mixed mode.
OneBased(face) == IF use_dice_only THEN face ELSE face - 48

\* read_ascii_dice_rolls keeps the digit, read_mixed_dice_rolls its distance
\* from '1'.
Kept(face) == IF use_dice_only THEN face ELSE face - 49

ReadFace(entry) ==
  /\ IsFace(entry)
  /\ rolls' = Append(rolls, Kept(Digit(entry.roll)))
  /\ UNCHANGED <<modeVars, pc, system_random, entropy, error>>

\* Anything else is asked for again.
RefuseFace(entry) == ~IsFace(entry) /\ UNCHANGED vars

\* The user copies the next face thrown, or makes a mistake.
NextFace == [roll |-> thrown[Len(rolls) + 1], extra |-> FALSE]

EnterRoll ==
  /\ Asking
  /\ \E entry \in Mistakes \cup {NextFace} : ReadFace(entry) \/ RefuseFace(entry)

InputEnds ==
  /\ Asking
  /\ Throw("InputEnded")
  /\ UNCHANGED <<modeVars, rolls, system_random, entropy>>

RollsRead ==
  /\ pc = "rolling" /\ Len(rolls) = roll_count
  /\ pc' = IF use_dice_only THEN "mixing" ELSE "random"
  /\ UNCHANGED <<modeVars, rolls, system_random, entropy, error>>

GenerateSystemEntropy ==
  /\ pc = "random"
  /\ \E r \in SystemRandoms : system_random' = r
  /\ pc' = "mixing"
  /\ UNCHANGED <<modeVars, rolls, entropy, error>>

RandomFails ==
  /\ pc = "random"
  /\ Throw("RandomFailed")
  /\ UNCHANGED <<modeVars, rolls, system_random, entropy>>

\* mix_dice_entropy or dice_only_entropy, called with byte_count.
Mix(accepted, input) ==
  /\ \/ /\ accepted
        /\ pc' = "returned"
        /\ entropy' = TruncatedDigest(input, byte_count)
        /\ UNCHANGED error
     \/ /\ ~accepted
        /\ Throw("InvalidRolls")
        /\ UNCHANGED entropy
  /\ UNCHANGED <<modeVars, rolls, system_random>>

MixDice ==
  /\ pc = "mixing" /\ ~use_dice_only
  /\ Mix(AcceptsMixedDice(rolls, system_random, byte_count),
         MixedDiceInput(rolls, system_random, byte_count))

DiceOnly ==
  /\ pc = "mixing" /\ use_dice_only
  /\ Mix(AcceptsDiceOnly(rolls, byte_count), DiceOnlyInput(rolls))

\* sha256 throws, which both functions call once the rolls are accepted.
DigestFails ==
  /\ pc = "mixing"
  /\ IF use_dice_only
     THEN AcceptsDiceOnly(rolls, byte_count)
     ELSE AcceptsMixedDice(rolls, system_random, byte_count)
  /\ Throw("DigestFailed")
  /\ UNCHANGED <<modeVars, rolls, system_random, entropy>>

Ended == pc \in {"returned", "threw"}

Terminated == Ended /\ UNCHANGED vars

Next ==
  \/ EnterRoll \/ InputEnds \/ RollsRead
  \/ GenerateSystemEntropy \/ RandomFails
  \/ MixDice \/ DiceOnly \/ DigestFails
  \/ Terminated

Spec == Init /\ [][Next]_vars

-------------------------------------------------------------------------------
(* Properties.                                                             *)

\* The rolls the readers collect always pass the checks of entropy.cpp: both
\* sides agree on the count and on the representation of a face in each mode.
ReaderMeetsChecks == error # "InvalidRolls"

\* What is hashed holds the faces that were thrown, in their order, none lost
\* or repeated by a mistake in between: as digits and nothing else in
\* dice-only mode, as zero-based bytes behind the header in mixed mode.
ThrownRollsHashed ==
  pc = "returned" =>
    IF use_dice_only
    THEN entropy.digest = [i \in 1..roll_count |-> 48 + thrown[i]]
    ELSE LET header == Len(mixed_dice_domain) + 4 IN
         /\ Len(entropy.digest) = header + roll_count + sha256_size
         /\ \A i \in 1..roll_count : entropy.digest[header + i] = thrown[i] - 1

\* Powers of six in limbs of 16 bits, the least significant of 21 first; the
\* last limb takes whatever the others do not hold.
Base == 65536

Carry(x) ==
  LET carry[i \in 0..20] ==
        IF i = 0 THEN 0 ELSE (6 * x[i] + carry[i - 1]) \div Base
  IN  carry

TimesSix(x) ==
  LET carry == Carry(x)
  IN  Append([i \in 1..20 |-> (6 * x[i] + carry[i - 1]) % Base],
             6 * x[21] + carry[20])

PowerOfSix[n \in 0..124] ==
  IF n = 0 THEN [i \in 1..21 |-> IF i = 1 THEN 1 ELSE 0]
  ELSE TimesSix(PowerOfSix[n - 1])

\* n rolls have at least 2^bits outcomes, where 16 divides bits.
Covers(n, bits) == \E i \in (bits \div 16 + 1)..21 : PowerOfSix[n][i] # 0

bits_to_cover == 8 * byte_count + (IF use_dice_only THEN 0 ELSE 64)
rolls_short   == IF use_dice_only /\ byte_count = 32 THEN 1 ELSE 0

\* The rolls hashed have as many outcomes as the entropy has values, in mixed
\* mode with 64 bits to spare, and one roll fewer would not do; only dice-only
\* mode for 256 bits is one roll short, as the comment on its 99 rolls says.
EnoughRolls ==
  pc = "returned" =>
    /\ Covers(Len(rolls) + rolls_short, bits_to_cover)
    /\ ~Covers(Len(rolls) + rolls_short - 1, bits_to_cover)

===============================================================================
