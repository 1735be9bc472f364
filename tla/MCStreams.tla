------------------------------ MODULE MCStreams ------------------------------
(***************************************************************************)
(* The instance of Streams for TLC: who sends what to whom over which      *)
(* transport.  Messages are numbered; those that ask get an answer.        *)
(***************************************************************************)
EXTENDS Streams, TLC

CONSTANTS a, b, s1, s2, c1, c2, c3

Ask(i) == [id |-> i, type |-> "ask"]
Tell(i) == [id |-> i, type |-> "tell"]
Send(k, from, to, m) == [kind |-> k, home |-> from, to |-> to, msg |-> m]

\* Two tasks share a TCP connection of a, a and b dial each other over
\* WebSocket, and both b and a have to answer over a connection they accepted.
Crossing ==
  s1 :> <<Send("tcp", a, b, Ask(1)), Send("ws", a, b, Tell(3))>>
    @@ s2 :> <<Send("tcp", a, b, Tell(2)), Send("ws", b, a, Ask(4))>>

\* Two tasks share a WebSocket connection of a, which may fail between them and
\* be dialled again.
Sharing ==
  s1 :> <<Send("ws", a, b, Tell(1)), Send("ws", a, b, Tell(2))>>
    @@ s2 :> <<Send("ws", a, b, Ask(3))>>

\* a asks until b's replies fill what lies between them.
Asking(k) ==
  s1 :> <<Send(k, a, b, Ask(1)), Send(k, a, b, Ask(2)), Send(k, a, b, Ask(3))>> @@ s2 :> <<>>

Workloads == {Crossing, Sharing, Asking("tcp"), Asking("ws")}

Questions == {Asking("tcp"), Asking("ws")}
=============================================================================
