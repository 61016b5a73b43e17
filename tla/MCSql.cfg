SPECIFICATION Spec
CONSTANTS
  Atoms <- MCAtoms
  Seeds <- MCSeeds
  MaxAtoms = 4
  MaxStatement = 15
  MaxScript = 30
  MaxType = 9
INVARIANTS TokensStand IdentifiersKept TailsStripped ExternalRecognized RelationsFound SpellingsAgree
CHECK_DEADLOCK FALSE
