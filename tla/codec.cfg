SPECIFICATION Spec
CONSTANTS
  DigestSize <- MCDigestSize
  MaxCapBuffer <- MCMaxCapBuffer
  MaxNvBuffer = 2
  NumPcrBanks = 2
  PcrSelectMax = 2
  MaxDigests = 2
  LabelMaxBuffer = 2
  MaxSymData = 3
  MaxEccKeyBytes = 2
  MaxSymKeyBytes = 2
  MaxRsaKeyBytes = 4
  Types <- MCTypes
  Values <- MCValues
  Held <- MCHeld
  NewBytes <- MCNewBytes
INVARIANTS
  ArrivesIntact
  HolderHolds
  MarshalsWhatItCounts
  ReadsBackTheSame
  CutIsNoticed
CHECK_DEADLOCK FALSE
