--------------------------- MODULE MCProxyHandles ---------------------------
(***************************************************************************)
(* Two sides of the same pumps on small instances: what their lines say    *)
(* (ProxyHandles) and what their writes wait for (ProxyPipes). A behaviour *)
(* is about one of them; and one about lines is about the requests of the  *)
(* server or about the values and cursors of the host, which share the     *)
(* pumps and the counter of handles, but no table.                         *)
(***************************************************************************)
EXTENDS ProxyHandles

CONSTANTS s1, s2, m1, m2, x1, t1, u1, Cap, MaxBurst

VARIABLES topic, nature, host, busy, hin, sin, sout, hout, phase

\* Where it matters, when the server is live, it does not heed its termination.
Natures == {n \in [serial : BOOLEAN, live : BOOLEAN, stubborn : BOOLEAN] : n.stubborn = n.live}

P == INSTANCE ProxyPipes

\* The variables of one side only; the pumps and the server are of both.
tables == <<requests, idOf, cursors, fresh, tokens, counts, subs, owed, cLine,
            sLine, unlisted, said, asked, noted, toHost, toServer>>
pipes == <<nature, host, busy, hin, sin, sout, hout, phase>>
allvars == <<vars, pipes, topic>>

\* The host only answers, or the server asks nothing.
OneTopic ==
  \/ asked = <<>>
  \/ \A k \in DOMAIN said : said[k].kind = "answer"

Lines == topic = "lines" /\ Next /\ OneTopic' /\ UNCHANGED <<pipes, topic>>
Waits(A) == topic = "pipes" /\ A /\ UNCHANGED <<tables, topic>>

MCInit ==
  /\ topic \in {"lines", "pipes"}
  /\ Init /\ P!Init
  /\ topic = "lines" => nature.serial /\ nature.live

MCNext == Lines \/ Waits(P!Next)

\* ProxyPipes!Fairness.
MCFairness ==
  /\ SF_allvars(Waits(P!C2SPump)) /\ SF_allvars(Waits(P!S2CPump))
  /\ WF_allvars(Waits(P!MainThread)) /\ WF_allvars(Waits(P!HostReads))
  /\ WF_allvars(Waits(nature.live /\ P!ServerReads))
  /\ WF_allvars(Waits(nature.live /\ P!ServerWrites))

MCSpec == MCInit /\ [][MCNext]_allvars /\ MCFairness

\* ProxyPipes!HostIsServed: the host depends on the server neither for its
\* refusals nor, that circle apart, for its end.
HostIsServed == topic = "pipes" => P!HostIsServed
=============================================================================
