CONSTANTS
  Projects = {q1, q2}
  Reviewers = {q1}
  Unready = {q2}
  Budgets = {2}
  MaxDeaths = 1
  MaxRuns = 2
  Artifacts = {a1, a2}
  Entries = {"v0.2.0", "v0.3.0", "v0.6.0", "v0.10.0"}
  Patient = TRUE
  Nothing = Nothing
  MaxEdits = 1
  MaxCrashes = 1
  MaxFaults = 1
SPECIFICATION ConfigSpec
INVARIANT Replannable
CHECK_DEADLOCK FALSE
