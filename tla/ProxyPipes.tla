----------------------------- MODULE ProxyPipes -----------------------------
(***************************************************************************)
(* The pipes and the locks under the pumps of the MCP shield-proxy          *)
(* (mcp_proxy.py, the two _pump functions and the end of main).             *)
(*                                                                         *)
(* A pipe holds Cap lines; who writes to a full one waits, holding the lock *)
(* of the stream. Both pumps write to both sides: c2s answers the host for *)
(* a refused line, s2c tells the server of a refused request. What a line  *)
(* says is in McpProxy and ProxyHandles; here a line is what it makes the  *)
(* proxy write.                                                            *)
(***************************************************************************)
EXTENDS Naturals, Sequences

CONSTANTS
  Cap,       \* lines that a pipe holds
  MaxBurst,  \* lines that the server writes for one it reads
  Natures    \* of servers: [serial, live, stubborn], whether one reads only
             \* when it has nothing to write, never stops working, and does
             \* not heed its termination

VARIABLES
  nature,   \* of the server
  host,     \* "up", "eof" (it closed the proxy's stdin) or "gone"
  server,   \* "up" or "gone"
  busy,     \* lines the server has yet to write
  hin, sin, sout, hout,   \* the pipes: host to proxy to server and back
  c2s, s2c, \* where the pumps are
  phase     \* of main

vars == <<nature, host, server, busy, hin, sin, sout, hout, c2s, s2c, phase>>

HostKinds == {"call", "refused"}              \* forwarded, or answered by the proxy
ServerKinds == {"reply", "request", "other"}  \* relayed, refused, or dropped

Running == phase \notin {"exited", "raised"}
Full(pipe) == Len(pipe) = Cap

\* Who is inside `with client_lock` and inside `with server_lock`.
\* Fault: what is owed to the server is written inside the host's lock too.
ClientLockedForAll == c2s = "answering" \/ s2c \in {"relaying", "draining"}
ClientLocked == c2s = "answering" \/ s2c = "relaying"
ServerLocked == c2s = "forwarding" \/ s2c = "draining"

Init ==
  /\ nature \in Natures
  /\ host = "up" /\ server = "up" /\ busy = 0
  /\ hin = <<>> /\ sin = <<>> /\ sout = <<>> /\ hout = <<>>
  /\ c2s = "read" /\ s2c = "read" /\ phase = "running"

C2S(from, to) == Running /\ c2s = from /\ c2s' = to /\ UNCHANGED <<nature, host, server, busy, sout, s2c, phase>>
S2C(from, to) == Running /\ s2c = from /\ s2c' = to /\ UNCHANGED <<nature, host, server, busy, hin, c2s, phase>>

-----------------------------------------------------------------------------
(* The client-to-server pump.                                               *)

ReadHost ==
  /\ hin # <<>>
  /\ C2S("read", IF Head(hin) = "refused" THEN "answer" ELSE "forward")
  /\ hin' = Tail(hin)
  /\ UNCHANGED <<sin, hout>>

LockForAnswer == ~ClientLocked /\ C2S("answer", "answering") /\ UNCHANGED <<hin, sin, hout>>

\* Nobody catches what a closed pipe raises: it ends the pump.
WriteAnswer ==
  /\ \/ host = "gone" /\ C2S("answering", "dead") /\ UNCHANGED hout
     \/ host # "gone" /\ ~Full(hout) /\ C2S("answering", "read") /\ hout' = Append(hout, "line")
  /\ UNCHANGED <<hin, sin>>

LockForForward == ~ServerLocked /\ C2S("forward", "forwarding") /\ UNCHANGED <<hin, sin, hout>>

WriteForward ==
  /\ \/ server = "gone" /\ C2S("forwarding", "dead") /\ UNCHANGED sin
     \/ server = "up" /\ ~Full(sin) /\ C2S("forwarding", "read") /\ sin' = Append(sin, "line")
  /\ UNCHANGED <<hin, hout>>

\* The host is done: the server's stdin is closed, without the lock, but not
\* while another thread is writing to it (the lock of the buffered file).
CloseServerIn ==
  /\ host # "up" /\ hin = <<>> /\ s2c # "draining"
  /\ C2S("read", "closed")
  /\ UNCHANGED <<hin, sin, hout>>

-----------------------------------------------------------------------------
(* The server-to-client pump.                                               *)

ReadServer ==
  /\ sout # <<>>
  /\ S2C("read", CASE Head(sout) = "reply" -> "relay"
                   [] Head(sout) = "request" -> "drain"
                   [] Head(sout) = "other" -> "read")
  /\ sout' = Tail(sout)
  /\ UNCHANGED <<sin, hout>>

LockForRelay == ~ClientLocked /\ S2C("relay", "relaying") /\ UNCHANGED <<sin, sout, hout>>

WriteRelay ==
  /\ \/ host = "gone" /\ S2C("relaying", "dead") /\ UNCHANGED hout
     \/ host # "gone" /\ ~Full(hout) /\ S2C("relaying", "read") /\ hout' = Append(hout, "line")
  /\ UNCHANGED <<sin, sout>>

LockForDrain == ~ServerLocked /\ S2C("drain", "draining") /\ UNCHANGED <<sin, sout, hout>>

\* A stdin that is closed, by its reader or by c2s, is passed over.
WriteOwed ==
  /\ \/ (server = "gone" \/ c2s = "closed") /\ UNCHANGED sin
     \/ server = "up" /\ c2s # "closed" /\ ~Full(sin) /\ sin' = Append(sin, "line")
  /\ S2C("draining", "read")
  /\ UNCHANGED <<sout, hout>>

ReadServerEof ==
  /\ server = "gone" /\ sout = <<>>
  /\ S2C("read", "closed")
  /\ UNCHANGED <<sin, sout, hout>>

-----------------------------------------------------------------------------
(* main, from the joins on.                                                 *)

\* The server ends; what it had not read, or not written, goes with it.
Gone == server' = "gone" /\ busy' = 0 /\ sin' = <<>>

Main(from, to) ==
  phase = from /\ phase' = to /\ UNCHANGED <<nature, host, hin, sout, hout, c2s, s2c>>

JoinC2S == c2s \in {"closed", "dead"} /\ Main("running", "joined") /\ UNCHANGED <<server, busy, sin>>

\* The other pump ended, or five seconds are over.
JoinS2C == Main("joined", "waited") /\ UNCHANGED <<server, busy, sin>>

Terminate ==
  /\ Main("waited", "terminated")
  /\ IF nature.stubborn THEN UNCHANGED <<server, busy, sin>> ELSE Gone

\* A server that lives on for five seconds more makes wait raise.
Wait ==
  /\ Main("terminated", IF server = "gone" THEN "exited" ELSE "raised")
  /\ UNCHANGED <<server, busy, sin>>

-----------------------------------------------------------------------------
(* External: the host and the server, while the proxy runs.                 *)

Peers == <<nature, c2s, s2c, phase>>

HostWrites ==
  /\ Running /\ host = "up" /\ ~Full(hin)
  /\ \E kind \in HostKinds : hin' = Append(hin, kind)
  /\ UNCHANGED <<Peers, host, server, busy, sin, sout, hout>>

HostReads ==
  /\ Running /\ host # "gone" /\ hout # <<>> /\ hout' = Tail(hout)
  /\ UNCHANGED <<Peers, host, server, busy, hin, sin, sout>>

HostEnds ==
  /\ Running
  /\ \/ host = "up" /\ host' = "eof" /\ UNCHANGED hout
     \/ host # "gone" /\ host' = "gone" /\ hout' = <<>>
  /\ UNCHANGED <<Peers, server, busy, hin, sin, sout>>

\* A serial server reads its next line when it has written all it had to say.
ServerReads ==
  /\ Running /\ server = "up" /\ sin # <<>> /\ (nature.serial => busy = 0)
  /\ sin' = Tail(sin)
  /\ busy' \in busy .. MaxBurst
  /\ UNCHANGED <<Peers, host, server, hin, sout, hout>>

ServerWrites ==
  /\ Running /\ server = "up" /\ busy > 0 /\ ~Full(sout)
  /\ busy' = busy - 1
  /\ \E kind \in ServerKinds : sout' = Append(sout, kind)
  /\ UNCHANGED <<Peers, host, server, hin, sin, hout>>

ServerEnds ==
  /\ Running /\ server = "up" /\ Gone
  /\ UNCHANGED <<Peers, host, hin, sout, hout>>

C2SPump == ReadHost \/ LockForAnswer \/ WriteAnswer \/ LockForForward \/ WriteForward \/ CloseServerIn
S2CPump == ReadServer \/ LockForRelay \/ WriteRelay \/ LockForDrain \/ WriteOwed \/ ReadServerEof
MainThread == JoinC2S \/ JoinS2C \/ Terminate \/ Wait

Next ==
  \/ C2SPump \/ S2CPump \/ MainThread
  \/ HostWrites \/ HostReads \/ HostEnds
  \/ ServerReads \/ ServerWrites \/ ServerEnds

\* The threads run, and a lock that comes free again and again is got. A host
\* reads until it is gone. A server that is live works off its lines; another
\* one may stop at any point.
Fairness ==
  /\ SF_vars(C2SPump) /\ SF_vars(S2CPump)
  /\ WF_vars(MainThread) /\ WF_vars(HostReads)
  /\ WF_vars(nature.live /\ ServerReads) /\ WF_vars(nature.live /\ ServerWrites)

Spec == Init /\ [][Next]_vars /\ Fairness

-----------------------------------------------------------------------------
(* Properties.                                                              *)

\* A refused line is answered whatever the server does, hung ones included:
\* the way back to the host never waits for the way to the server.
RefusalsReachHost == c2s = "answer" ~> c2s \notin {"answer", "answering"} \/ ~Running

\* Everyone waits on everyone: a serial server on its full stdout, which s2c
\* does not read because it owes the server a refusal or because the host's
\* end broke it; and the pump that has the server's stdin on that full pipe.
Circle ==
  /\ nature.serial /\ server = "up" /\ busy > 0 /\ Full(sout) /\ Full(sin)
  /\ c2s = "forwarding" \/ s2c = "draining"
  /\ s2c \in {"drain", "draining"} \/ (s2c = "dead" /\ host = "gone")

\* Once the host is done the proxy ends, also when the server goes on for ever
\* or does not heed its termination, and with every pipe full; but for a server that
\* does not read, or that circle.
HostEndsProxy == nature.live /\ host # "up" ~> ~Running \/ Circle

\* The host depends on the server for neither its refusals nor its end.
HostIsServed == RefusalsReachHost /\ HostEndsProxy
=============================================================================
