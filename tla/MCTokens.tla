------------------------------ MODULE MCTokens ------------------------------
(* Up to two callers at once, and up to two signing keys.  For the class:    *)
(* the client that is given new keys, with DPoP, and the one seeded with a   *)
(* refresh token.  For the closures: each kind of provider, with and without *)
(* rotation, and the interceptor whose keys may not come.                    *)
EXTENDS TokenClients

CONSTANTS c1, c2, k1, k2

OneCaller == {c1}
TwoCallers == {c1, c2}
OneKey == {k1}
TwoKeys == {k1, k2}

Deployment(dpop, key, seeded, wearsOut, refresh, lossy) ==
  [dpopEnabled |-> dpop, signingKey |-> key, seeded |-> seeded,
   seedWearsOut |-> wearsOut, issuesRefresh |-> refresh, lossy |-> lossy]
Rekeyed == {Deployment(TRUE, k1, FALSE, TRUE, TRUE, TRUE)}
SeededOnce == {Deployment(FALSE, None, TRUE, TRUE, TRUE, TRUE)}
RekeyedWithoutRefresh == {Deployment(TRUE, k1, FALSE, FALSE, FALSE, FALSE)}
SeededWithJwt == {Deployment(FALSE, None, TRUE, FALSE, TRUE, FALSE)}
EveryDeployment ==
  Rekeyed \cup RekeyedWithoutRefresh \cup SeededOnce \cup SeededWithJwt
SeededLossless == {Deployment(FALSE, None, TRUE, TRUE, TRUE, FALSE)}

Options(kind, wearsOut, refresh, keys) ==
  [kind |-> kind, seedWearsOut |-> wearsOut, issuesRefresh |-> refresh,
   lossy |-> TRUE, dpopKeys |-> keys]
EveryProvider ==
  {Options("clientCredentials", FALSE, TRUE, "none"),
   Options("refresh", TRUE, TRUE, "generated"),
   Options("refresh", FALSE, FALSE, "none"),
   Options("externalJwt", TRUE, TRUE, "none"),
   Options("externalJwt", FALSE, FALSE, "generated")}
NoProvider == {}
=============================================================================
