\* The default options, the wide ones, a host that reuses an id, and progress.
SPECIFICATION MCSpec
CONSTANTS
  p1 = p1  p2 = p2  f1 = f1  f2 = f2  text = text  i1 = i1  i2 = i2
  None = None  NullId = NullId
  Ids = {i1}
  Ops <- MCOps
  Purposes = {p1, p2}
  ToolPurpose <- MCToolPurpose
  Fields = {f1, f2}
  Opaque = {text}
  Allowed <- MCAllowed
  Pinned <- MCPinned
  RuledTools <- MCRuled
  BareTools <- MCBare
  PassUninspected = FALSE
  AllowDeclared = FALSE
  PassUnchecked = FALSE
  Gate = "check-access"
  HostLines <- AllLines
  Bodies <- MCBodies
  ReuseIds = FALSE
  AuditCanFail = FALSE
  CandidatesCanFail = TRUE
  MaxAsked = 1
  MaxNoise = 1
INVARIANT OptionsHold
 
