SPECIFICATION FairSpec
CONSTANTS
  v1 = v1
  r1 = r1
  c1 = c1
  c2 = c2
  Videos = {v1}
  Revs = {r1}
  Campaigns = {c1}
  Kind <- Configured
  MaxItems <- JustOnce
  MaxMedia = 1
  MaxAborts = 1
PROPERTIES CampaignSettles
CHECK_DEADLOCK FALSE
