--------------------------- MODULE OrderedStreams ---------------------------
(***************************************************************************)
(* What the connection-based transports promise together                   *)
(* (transport/src/lib.rs:83-111, multi.rs:1-4).  Each way of a connection  *)
(* is a channel that ends at one transport of one device; its messages     *)
(* arrive there whole, once and in the order they were sent, and pass from *)
(* there to the inbox of the device in the order they arrived.  Only when  *)
(* a connection has failed, and then the last ones that are under way, may *)
(* messages be lost.                                                       *)
(***************************************************************************)
EXTENDS Naturals, Sequences

CONSTANTS
  Device,
  Transport,
  Channel,  \* one way of a connection
  Message,
  None

Port == Device \X Transport

VARIABLES
  end,      \* end[ch]: the port where ch ends, None while it is not connected
  flight,   \* flight[ch]: messages sent that have not arrived, oldest first
  arrived,  \* arrived[x]: what has arrived at port x, with the channel it came by
  inbox,    \* inbox[d]: what d has still to take
  failed    \* channels whose connection has failed

vars == <<end, flight, arrived, inbox, failed>>

Init ==
  /\ end = [ch \in Channel |-> None]
  /\ flight = [ch \in Channel |-> <<>>]
  /\ arrived = [x \in Port |-> <<>>]
  /\ inbox = [d \in Device |-> <<>>]
  /\ failed = {}

\* Channels are connected, each once.  In the actions below a conjunct about one
\* channel, port or inbox comes before the one about the whole table that
\* implies it: it tells the actions apart without computing the table.
Connect ==
  /\ end' \in [Channel -> Port \cup {None}]
  /\ \A ch \in Channel : end[ch] # None => end'[ch] = end[ch]
  /\ UNCHANGED <<flight, arrived, inbox, failed>>

Put(ch) ==
  /\ end[ch] # None /\ ch \notin failed
  /\ Len(flight'[ch]) = Len(flight[ch]) + 1
  /\ \E m \in Message : flight' = [flight EXCEPT ![ch] = Append(@, m)]
  /\ UNCHANGED <<end, arrived, inbox, failed>>

Arrive(ch) ==
  /\ end[ch] # None /\ flight[ch] # <<>>
  /\ flight'[ch] = Tail(flight[ch])
  /\ flight' = [flight EXCEPT ![ch] = Tail(@)]
  /\ arrived' = [arrived EXCEPT ![end[ch]] = Append(@, [msg |-> Head(flight[ch]), by |-> ch])]
  /\ UNCHANGED <<end, inbox, failed>>

Pass(x) ==
  /\ arrived[x] # <<>> /\ arrived'[x] = Tail(arrived[x])
  /\ arrived' = [arrived EXCEPT ![x] = Tail(@)]
  /\ inbox' = [inbox EXCEPT ![x[1]] = Append(@, Head(arrived[x]))]
  /\ UNCHANGED <<end, flight, failed>>

Take(d) ==
  /\ inbox[d] # <<>> /\ inbox'[d] = Tail(inbox[d])
  /\ inbox' = [inbox EXCEPT ![d] = Tail(@)]
  /\ UNCHANGED <<end, flight, arrived, failed>>

\* Connections fail, or the ends of failed ones are closed.
Lose ==
  /\ UNCHANGED <<inbox, arrived, end>>
  /\ failed \subseteq failed' /\ \A ch \in failed' : end[ch] # None
  /\ DOMAIN flight' = Channel
  /\ \A ch \in Channel :
       \/ flight'[ch] = flight[ch]
       \/ /\ ch \in failed'
          /\ \E n \in 0 .. Len(flight[ch]) : flight'[ch] = SubSeq(flight[ch], 1, n)

Next ==
  \/ Lose
  \/ \E ch \in Channel : Put(ch) \/ Arrive(ch)
  \/ \E x \in Port : Pass(x)
  \/ \E d \in Device : Take(d)
  \/ Connect

Spec == Init /\ [][Next]_vars
=============================================================================
