------------------------- MODULE MCAttestDeployment -------------------------
(***************************************************************************)
(* One verifier, every fault a document may have, every option on and off  *)
(* in some command line; the watcher with its timer, on a ledger that grows *)
(* once, with two genuine documents that arrive in any order; and the       *)
(* watcher without documents, beside a verifier that gets two, early and    *)
(* late, on a ledger that stands still.                                     *)
(***************************************************************************)
EXTENDS AttestDeployment

Plain == [node |-> FALSE, challenged |-> TRUE, unchallenged |-> FALSE, requirePrevious |-> FALSE,
          capsules |-> TRUE, timer |-> FALSE, acceptReset |-> FALSE, state |-> TRUE]
Unchallenged == [Plain EXCEPT !.challenged = FALSE, !.unchallenged = TRUE, !.timer = TRUE]
MCChoices == {Plain, Unchallenged,
              [Plain EXCEPT !.node = TRUE, !.acceptReset = TRUE, !.capsules = FALSE],
              [Plain EXCEPT !.challenged = FALSE, !.requirePrevious = TRUE],
              [Plain EXCEPT !.state = FALSE]}

MCInit == DInit /\ (watched => options = Unchallenged)
MCNext ==
  /\ DNext
  /\ watched => /\ ledger'.seq <= 2 /\ ledger'.cuts = 0
                /\ \A d \in issued' : d.fault = "none"
  /\ deployment = "timer" => ledger'.seq = 1
MCSpec == MCInit /\ [][MCNext]_allvars /\ DFairness
=============================================================================
