SPECIFICATION Spec
CONSTANTS
  DefaultDuration = 1
  MaxDuration = 60
  Runs = {r1, r2}
  NoSession = NoSession
  NoReply = NoReply
  Retries = 2
  Replies <- MCReplies
  MaxFailures = 2
  MaxQueries = 2
  MaxJobs = 1
SYMMETRY MCSymmetry
INVARIANT SessionsTypeOK
INVARIANT NoIdReuse
INVARIANT ParentIntact
INVARIANT OneConversation
INVARIANT WorkerStaysHome
INVARIANT ReplyJudgedByShape
PROPERTY LostStartIsFatal
