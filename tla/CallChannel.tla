----------------------------- MODULE CallChannel -----------------------------
(***************************************************************************)
(* What the MCP shield-proxy promises the operator, said without threads,  *)
(* tables or a server: a call is opened with the content it may carry, and *)
(* is settled at most once, in one step, with content within that permit.  *)
(* McpProxy implements it (McpProxy!ImplementsChannel).                     *)
(***************************************************************************)
CONSTANTS Calls,    \* the calls a host may make
          Content   \* the carriers a reply may hold

VARIABLES stage,    \* call -> "none", "open" or "settled"
          permit,   \* call -> what a reply to it may carry
          given     \* call -> what the host was given

vars == <<stage, permit, given>>

Init ==
  /\ stage = [c \in Calls |-> "none"]
  /\ permit = [c \in Calls |-> {}]
  /\ given = [c \in Calls |-> {}]

Open(c, p) ==
  /\ stage[c] = "none"
  /\ stage' = [stage EXCEPT ![c] = "open"]
  /\ permit' = [permit EXCEPT ![c] = p]
  /\ UNCHANGED given

Settle(c, g) ==
  /\ stage[c] = "open"
  /\ g \subseteq permit[c]
  /\ stage' = [stage EXCEPT ![c] = "settled"]
  /\ given' = [given EXCEPT ![c] = g]
  /\ UNCHANGED permit

Next ==
  \E c \in Calls, x \in SUBSET Content : Open(c, x) \/ Settle(c, x)

Spec == Init /\ [][Next]_vars
=============================================================================
