SPECIFICATION BillingSpec
CONSTANTS
  d1 = d1
  d2 = d2
  s1 = s1
  s2 = s2
  Free = Free
  DID = {d1, d2}
  StripeId = {s1, s2}
  NoDID = NoDID
  PriceMap = {"startup"}
  Delivery <- MCDelivery
  StripeStatus = {"active", "past_due", "paused", "canceled"}
  MaxSent = 3
  MaxRows = 3
  MaxCreated = 1
SYMMETRY Symmetry
INVARIANTS
  FollowsStripe
  RefusedForAReason
