SPECIFICATION PromotionSpec
CONSTANTS
  o1 = o1
  o2 = o2
  p1 = p1
  p2 = p2
  v1 = v1
  s1 = s1
  n1 = n1
  n2 = n2
  Nothing = Nothing
  Reviews = {v1}
  Splits = {s1}
  Promotions <- MCPromotions
  MaxBusy = 2
  Operators <- MCOperators
  Promoters <- MCPromoters
  Requests <- MCRequests
SYMMETRY Symmetry
INVARIANTS
  OneClaimant
  SplitKept
  ApprovalBehindArtifact
CHECK_DEADLOCK FALSE
