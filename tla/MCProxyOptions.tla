-------------------------- MODULE MCProxyOptions --------------------------
(***************************************************************************)
(* McpProxy under four settings, each with the host that puts it to the     *)
(* test: the defaults and every option that widens what passes, for every  *)
(* kind of line; a host that uses one id for two calls at once; and, for   *)
(* progress, two calls while the audit file may fail.                      *)
(***************************************************************************)
EXTENDS MCMcpProxy

Wide == INSTANCE McpProxy WITH
  PassUninspected <- TRUE, AllowDeclared <- TRUE, PassUnchecked <- TRUE,
  Gate <- "tool-call"

Reuse == INSTANCE McpProxy WITH
  ReuseIds <- TRUE, Gate <- "none", HostLines <- FewLines, Bodies <- FewBodies,
  MaxAsked <- 2, MaxNoise <- 1

Live == INSTANCE McpProxy WITH
  Ids <- {i1, i2}, HostLines <- LiveLines, Bodies <- OneBody,
  AuditCanFail <- TRUE, CandidatesCanFail <- FALSE, MaxAsked <- 2, MaxNoise <- 1

VARIABLE options
mcvars == <<vars, options>>

MCInit ==
  \/ options \in {"default", "wide", "reuse"} /\ Init
  \/ options = "live" /\ Live!Init

MCNext ==
  /\ UNCHANGED options
  /\ \/ options = "default" /\ Next
     \/ options = "wide" /\ Wide!Next
     \/ options = "reuse" /\ Reuse!Next
     \/ options = "live" /\ Live!Next

\* McpProxy!Fairness, where progress is at stake.
Step(A) == options = "live" /\ A /\ UNCHANGED options
MCFairness ==
  /\ WF_mcvars(Step(Live!C2SJudges)) /\ WF_mcvars(Step(Live!S2CJudges))
  /\ WF_mcvars(Step(Live!JoinC2S)) /\ WF_mcvars(Step(Live!Exit))
  /\ \A n \in 1 .. 2 :
       SF_mcvars(Step(n \in ran /\ \E b \in OneBody : Live!ServerAnswers(n, b)))

MCSpec == MCInit /\ [][MCNext]_mcvars /\ MCFairness

\* What holds of the default options, said of the options at hand.
For(default, wide, reuse) ==
  CASE options = "default" -> default
    [] options = "wide" -> wide
    [] options = "reuse" -> reuse
    [] OTHER -> TRUE

\* McpProxy's disclosure, denial and audit, for each reason to refuse a line:
\* what the options permit and no more, also when the second of two calls with
\* one id takes the entry of the first; and a reply that went out uninspected,
\* or to arguments nobody checked, is never called protected.
OptionsHold ==
  For(MinimumDisclosure /\ DeniedNeverRuns /\ AuditTellsTruth,
      Wide!MinimumDisclosure /\ Wide!DeniedNeverRuns /\ Wide!AuditTellsTruth,
      Reuse!MinimumDisclosure /\ Reuse!DeniedNeverRuns /\ Reuse!AuditTellsTruth)

=============================================================================
