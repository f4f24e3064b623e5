CONSTANTS
  c1 = c1
  c2 = c2
  k1 = k1
  k2 = k2
  Callers <- TwoCallers
  Keys <- TwoKeys
  Deployments <- RekeyedWithoutRefresh
  ProviderOptions <- NoProvider
  MaxExchanges = 3
  MaxUpdates = 1
SPECIFICATION ClientSpec
INVARIANT
  CachedTokenBoundToKey
