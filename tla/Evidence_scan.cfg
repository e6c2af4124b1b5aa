SPECIFICATION EvidenceSpec
CONSTANTS
  Keys = {"k1"}
  Users = {"ann", "bob"}
  Calls = {c1}
  Names <- MCNames
  Files <- MCFiles
  r1 = r1
  r2 = r2
  Reviewers = {r1, r2}
  Readings <- MCReadings
  Proposals <- MCProposals
  Edits <- MCEdits
  Grades <- MCGrades
  Upper <- MCUpper
  IsWorkbook = TRUE
  MaxReadings = 2
  MaxDecisions = 2
INVARIANT NothingUnscannedServed
CHECK_DEADLOCK FALSE
