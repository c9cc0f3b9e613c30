----------------------------- MODULE GatedCall ------------------------------
(***************************************************************************)
(* What a shielded call promises: under the gateway the function runs only *)
(* after a permit and its result is released only after the access was     *)
(* accounted for; locally neither is asked.  A call may end with nothing   *)
(* released at any time, and how it is governed is decided once.           *)
(***************************************************************************)
CONSTANT Callers

VARIABLES governed,   \* "open" until decided, then "local" or "gateway"
          stage       \* how far the call is

Init ==
    /\ governed = [c \in Callers |-> "open"]
    /\ stage = [c \in Callers |-> "asked"]

Decide(c) ==
    /\ governed[c] = "open" /\ stage[c] = "asked"
    /\ \E g \in {"local", "gateway"} : governed' = [governed EXCEPT ![c] = g]
    /\ UNCHANGED stage

Move(c, from, to) ==
    /\ stage[c] = from
    /\ stage' = [stage EXCEPT ![c] = to]
    /\ UNCHANGED governed

Permit(c)  == governed[c] = "gateway" /\ Move(c, "asked", "permitted")
Run(c)     == Move(c, IF governed[c] = "gateway" THEN "permitted" ELSE "asked", "ran")
                /\ governed[c] # "open"
Account(c) == governed[c] = "gateway" /\ Move(c, "ran", "accounted")
Release(c) == Move(c, IF governed[c] = "gateway" THEN "accounted" ELSE "ran", "released")
Withhold(c) ==
    /\ stage[c] # "released"
    /\ Move(c, stage[c], "withheld")

Next == \E c \in Callers :
           Decide(c) \/ Permit(c) \/ Run(c) \/ Account(c) \/ Release(c) \/ Withhold(c)
Spec == Init /\ [][Next]_<<governed, stage>>
=============================================================================
