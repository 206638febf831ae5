SPECIFICATION BillingSpec
CONSTANTS
  d1 = d1
  d2 = d2
  s1 = s1
  s2 = s2
  Free = Free
  DID = {d1}
  StripeId = {s1}
  NoDID = NoDID
  PriceMap = {"startup", "scale"}
  Delivery <- MCDelivery
  StripeStatus = {"active", "past_due", "paused", "canceled"}
  MaxSent = 1
  MaxRows = 1
  MaxCreated = 6
INVARIANTS
  WithinPlan
