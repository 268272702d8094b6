SPECIFICATION Spec
CONSTANTS
  Runs = {r1}
  NoRun = NoRun
  Campaigns = {c1}
  CampaignOf <- MCCampaignOf
  ProjectOf <- MCProjectOf
  Workers = {w1}
  NoWorker = NoWorker
  MaxAttempts = 2
  MaxFaults = 0
  MaxInflightPerProject = 2
  MaxInflightGlobal = 2
  MaxStarting = 1
  Calls = {k1}
  Outcomes = {"needs_review", "failed"}
  c1 = c1
  p1 = p1

PROPERTIES TerminalRunsStay
