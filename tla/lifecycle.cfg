SPECIFICATION Spec
CONSTANTS
  Runs = {r1}
  NoRun = NoRun
  Campaigns = {c1}
  CampaignOf <- MCCampaignOf
  ProjectOf <- MCProjectOf
  Workers = {w1, w2}
  NoWorker = NoWorker
  MaxAttempts = 2
  MaxFaults = 2
  MaxInflightPerProject = 2
  MaxInflightGlobal = 2
  MaxStarting = 1
  Calls = {k1, k2}
  Outcomes = {"needs_review", "failed"}
  c1 = c1
  p1 = p1
SYMMETRY Symmetric
INVARIANTS TypeOK LeaseColumnsAgree HealthyWorkerKeepsItsJob QueuedJobHasAttemptsLeft NoRunLeftBehind
PROPERTIES OnlyLateCancelReopens KeepsPromise
