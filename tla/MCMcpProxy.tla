---------------------------- MODULE MCMcpProxy ----------------------------
(***************************************************************************)
(* McpProxy on a small instance: a tool with an argument rule, one without, *)
(* one whose rule is silent about arguments, an unmapped tool and one gated *)
(* method, two purposes that keep different fields, one carrier that cannot *)
(* be inspected.                                                            *)
(***************************************************************************)
EXTENDS McpProxy, TLC

CONSTANTS p1, p2, f1, f2, text, i1, i2

MCOps      == {"ruled", "unruled", "bare", "unmapped", "resources/read"}
MCToolPurpose ==
  [o \in MCOps |-> CASE o = "ruled" -> p1
                     [] o \in {"unruled", "bare"} -> p2
                     [] o = "unmapped" -> None
                     [] o = "resources/read" -> p2]
MCAllowed  == [p \in {p1, p2} |-> IF p = p1 THEN {f1} ELSE {f2}]
MCPinned   == {f1}
MCRuled    == {"ruled"}
MCBare     == {"bare"}
MCBodies   == {{}, {f1}, {f1, f2}, {f2, text}}

Plain(i, op) ==
  [kind |-> "plain", id |-> i, op |-> op, declared |-> None, task |-> FALSE,
   args |-> "ok"]
Call(i, op, d, a) ==
  [kind |-> "call", id |-> i, op |-> op, declared |-> d, task |-> FALSE,
   args |-> a]
Task(i) == [Call(i, "ruled", None, "ok") EXCEPT !.task = TRUE]
Read(i) == [Call(i, "resources/read", None, "ok") EXCEPT !.kind = "read"]
Other(k) == [Call(NullId, "ruled", None, "ok") EXCEPT !.kind = k]

\* Every kind of line, each refusal, and ids the table cannot hold.
AllLines ==
  UNION {{Call(i, "ruled", None, "ok"), Call(i, "ruled", p2, "ok"),
          Call(i, "ruled", None, "bad"), Call(i, "unruled", None, "ok"),
          Call(i, "bare", None, "ok"),
          Call(i, "unmapped", p1, "ok"), Call(i, "unmapped", "stranger", "ok"),
          Task(i), Read(i), Plain(i, "listing"), Plain(i, "initialize"),
          Plain(i, "empty"), Plain(i, "other")} : i \in Ids}
  \cup {Other("raw"), Other("batch"), Other("tasks"),
        Call(NullId, "ruled", None, "ok")}

\* The lines whose replies differ: one per purpose, one refused, one ungated.
FewLines ==
  UNION {{Call(i, "ruled", None, "ok"), Read(i), Call(i, "ruled", None, "bad"),
          Plain(i, "listing")} : i \in Ids}
FewBodies == {{f1}, {f1, f2, text}}
OneBody == {{f1, f2}}
LiveLines == UNION {{Call(i, "ruled", None, "ok"), Plain(i, "empty")} : i \in {i1, i2}}
IdSymmetry == Permutations(Ids)
=============================================================================
