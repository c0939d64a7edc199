SPECIFICATION Spec
CONSTANTS
  DefaultDuration = 1
  MaxDuration = 60
  Runs = {r1, r2, r3}
  NoSession = NoSession
  NoReply = NoReply
  Retries = 1
  Replies <- MCTwoReplies
  MaxFailures = 2
  MaxQueries = 1
  MaxJobs = 0
SYMMETRY MCSymmetry
INVARIANT ForkFindsParent
