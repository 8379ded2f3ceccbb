SPECIFICATION FairSpec
CONSTANTS
  r1 = r1
  r2 = r2
  r3 = r3
  p1 = p1
  p2 = p2
  c1 = c1
  c2 = c2
  k1 = k1
  k2 = k2
  Request = {r1, r2, r3}
  Provider = {p1, p2}
  Candidate = {c1, c2}
  Credential = {k1, k2}
  ProviderOf <- TwoProviders
  Suits <- AllSuit
  Preference <- SomePreference
  Order <- FirstBeforeSecond
  RequestedAttempts = 2
  MaxConcurrent <- Limits
  FailureThreshold = 1
  Rotated = {k2}
  Slow = {r3}
  Errors = {"RateLimitError", "ContentFilterError"}
INVARIANTS RoutingTypeOK CountsLeases WithinLimit
PROPERTIES FailoverEnds
