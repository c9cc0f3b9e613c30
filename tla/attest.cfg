\* attest-verify by hand, one fault in a document; attest-watch for a window of three cycles.
SPECIFICATION MCSpec
CONSTANTS
  None = None
  Renotify = 3
  Verifier = v1
  Sentry = v2
  Choices <- MCChoices
  MaxSeq = 3
  MaxCuts = 1
  MaxTime = 1
  MaxDocs = 2
  MaxFaulty = 1
  MaxResets = 1
  MaxAge = 0
  MaxSkew = 0
  Interval = 0
CHECK_DEADLOCK FALSE
INVARIANTS NothingIsSkipped NoCleanOnTheSame BadIsKnown
PROPERTIES BaselineStands SilenceIsAnnounced
