CONSTANTS
  WordCounts <- MCWordCounts
  Entropies <- MCEntropies
  Digests <- MCDigests
SPECIFICATION Spec
INVARIANTS
  TypeOK
  NoInternalError
  ReadsOnlyChecksum
  TinySeedIsEntropy
