-------------------------- MODULE MCRetryCampaign --------------------------
EXTENDS RetryCampaign, TLC

CONSTANTS v1, r1, c1, c2

OneCanary  == (c1 :> "sweep") @@ (c2 :> "canary")
Ones       == (c1 :> 1) @@ (c2 :> 1)
Configured == c1 :> "configured"
JustOnce   == c1 :> 1
=============================================================================
