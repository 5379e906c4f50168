SPECIFICATION Spec
CONSTANTS
  Capacity = 2
  Overflows = {"fail", "oldest", "newest"}
  Resubscribes = {"never", "start", "sequence", "token"}
  MaxPosition = 5
  MaxOffered = 5
  MaxLosses = 2
INVARIANTS LossesAnnounced SequenceUnbroken
PROPERTIES  StreamPromise
CHECK_DEADLOCK FALSE
