CONSTANTS
  c1 = c1
  c2 = c2
  k1 = k1
  k2 = k2
  Callers <- OneCaller
  Keys <- OneKey
  Deployments <- SeededLossless
  ProviderOptions <- NoProvider
  MaxExchanges = 4
  MaxUpdates = 1
SPECIFICATION ClientSpec
INVARIANT
  NeverRefused
