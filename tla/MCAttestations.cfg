SPECIFICATION Spec
CONSTANTS
  s1 = s1
  s2 = s2
  s3 = s3
  p = p
  q = q
  Senders = {s1, s2, s3}
  Ppois = {p, q}
  Stake <- MCStake
  LocalStake = 1
  LocalSender = s0
  NoFilter = NoFilter
  NoPpoi = NoPpoi
  MaxMessages = 5
INVARIANTS
  WeightIsStakeOfSenders
  TimesAreOfFirstMessages
  VerdictHasWitness
  ApiTopDecides
  RatioShowsEachPpoi
CHECK_DEADLOCK FALSE
