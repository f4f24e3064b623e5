CONSTANTS
  c1 = c1
  c2 = c2
  k1 = k1
  k2 = k2
  Callers <- TwoCallers
  Keys <- TwoKeys
  Deployments <- EveryDeployment
  ProviderOptions <- EveryProvider
  MaxExchanges = 4
  MaxUpdates = 1
SPECIFICATION ClientSpec
INVARIANTS
  InFlightIsRunning
  RotationIsFollowed
  ExchangesBoundedByUpdates
PROPERTIES
  ServesTokens
  EveryCallerAnswered
