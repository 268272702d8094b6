SPECIFICATION Spec
CONSTANTS
  Runs = {r1, r2, r3, r4, r5}
  NoRun = NoRun
  Campaigns = {c1, c2}
  CampaignOf <- MCCampaignOf
  ProjectOf <- MCProjectOf
  Workers = {w1}
  NoWorker = NoWorker
  MaxAttempts = 1
  MaxFaults = 0
  MaxInflightPerProject = 1
  MaxInflightGlobal = 2
  MaxStarting = 2
  Calls = {}
  Outcomes = {"needs_review"}
  c1 = c1
  c2 = c2
  p1 = p1
  p2 = p2
  RunsOfSecond = {r4, r5}
SYMMETRY Symmetric
INVARIANTS ActiveWithinLimits
