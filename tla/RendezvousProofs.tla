-------------------------- MODULE RendezvousProofs --------------------------
(***************************************************************************)
(* Proofs about Rendezvous: for any devices, hosts, NATs and ports, the    *)
(* relay flag of a device agrees with the public address it has stored,    *)
(* although two tasks store both, in different orders.  The invariant is   *)
(* inductive as it stands.                                                 *)
(***************************************************************************)
EXTENDS Rendezvous, TLAPS

\* What a device looks like from outside is an address.
LEMMA PublicIsAddr ==
  ASSUME TypeOK, NEW n \in Node
  PROVE  Public(n) \in Addr /\ Mapped(Public(n)) \in Datagram /\ Hello(n) \in Datagram
<1>1. Home[n] \in Host
  BY DEF Host
<1>2. Outer(n) \in Port
  BY DEF Outer, TypeOK
<1>3. Public(n) \in Addr
  BY <1>1, <1>2 DEF Public, Addr
<1> QED
  BY <1>3 DEF Mapped, Hello, Datagram

LEMMA AddrIsSome ==
  ASSUME NEW x \in Addr
  PROVE  x # None
BY RendezvousAssumption DEF Addr, Port

\* The address of an answer is one.
LEMMA AnswerHasAddr ==
  ASSUME TypeOK, NEW n \in Node, NEW d \in socket[n]
  PROVE  /\ d \in Datagram
         /\ d.type = "mapped" => d.addr \in Addr
         /\ d.from \in Node \cup {None}
<1>1. d \in Datagram
  BY DEF TypeOK
<1> QED
  BY <1>1 DEF Datagram

\* The port that is announced is one, or nothing yet.
LEMMA PortOrIsPort ==
  ASSUME TypeOK, NEW n \in Node, NEW p \in Port
  PROVE  PortOr(n, p) \in Port
BY DEF TypeOK, PortOr, Addr

LEMMA InitInv == Init => RendezvousInv
<1> SUFFICES ASSUME Init
             PROVE  RendezvousInv
  OBVIOUS
<1> DEFINE port == [n \in Node |-> Preferred]
<1>1. \A n \in Node : <<Home[n], Preferred>> \in Addr /\ Preferred \in Port /\ None \in Port
  BY RendezvousAssumption DEF Addr, Port, Host
<1>2. bound \in [Node -> Port] /\ mapped \in [Node -> Port] /\ registered \in [Node -> Port]
  BY <1>1 DEF Init, Ready
<1>3. socket \in [Node -> SUBSET Datagram] /\ met \subseteq SUBSET Node
  BY DEF Init
<1>4. query \in [Node -> [at : {"idle", "wait", "flagged", "addressed"}, first : BOOLEAN, addr : Addr \cup {None}]]
  BY DEF Init, Ready, FirstQuery, NoQuery
<1>5. stun \in [Node -> Addr \cup {None}] /\ relay \in [Node -> BOOLEAN]
  <2>1. relay = [n \in Node |-> n \in Settled /\ Home[n] \in Routable]
    BY DEF Init
  <2>2. relay \in [Node -> BOOLEAN]
    BY <2>1, Zenon
  <2>3. stun = [n \in Node |-> IF n \in Settled THEN <<Home[n], Preferred>> ELSE None]
    BY DEF Init, Ready
  <2>4. stun \in [Node -> Addr \cup {None}]
    BY <2>3, <1>1
  <2> QED
    BY <2>2, <2>4
<1>6. announce \in [Node -> [boot : Port, periodic : Port]]
  BY DEF Init, Port
<1>7. TypeOK
  BY <1>2, <1>3, <1>4, <1>5, <1>6 DEF TypeOK
<1>8. ASSUME NEW n \in Node
      PROVE  query[n].at = "idle" /\ relay[n] = Capable(stun[n])
  <2>1. query[n].at = "idle"
    BY DEF Init, Ready, FirstQuery, NoQuery
  <2>2. CASE n \in Settled
    <3>1. stun[n] = <<Home[n], Preferred>> /\ relay[n] = (Home[n] \in Routable)
      BY <2>2 DEF Init, Ready
    <3>2. stun[n] # None
      BY <3>1, <1>1, AddrIsSome
    <3> QED
      BY <2>1, <3>1, <3>2 DEF Capable
  <2>3. CASE n \notin Settled
    BY <2>1, <2>3 DEF Init, Ready, Capable
  <2> QED
    BY <2>2, <2>3
<1>9. FlagMatchesAddress
  BY <1>8 DEF FlagMatchesAddress
<1> QED
  BY <1>7, <1>9 DEF RendezvousInv

\* A query that has found x, by its first task or by the refresh.
LEMMA StoresKeep ==
  ASSUME RendezvousInv, NEW n \in Node, NEW x \in Addr,
         query[n].at = "wait",
         StoreFlag(n, x) \/ StoreNew(n, x)
  PROVE  /\ query' \in [Node -> [at : {"idle", "wait", "flagged", "addressed"}, first : BOOLEAN, addr : Addr \cup {None}]]
         /\ stun' \in [Node -> Addr \cup {None}] /\ relay' \in [Node -> BOOLEAN]
         /\ FlagMatchesAddress'
<1> USE DEF RendezvousInv
<1>1. x # None
  BY AddrIsSome
<1>2. CASE StoreFlag(n, x)
  <2>1. /\ query' = [query EXCEPT ![n] = [query[n] EXCEPT !.at = "flagged", !.addr = x]]
        /\ relay' = [relay EXCEPT ![n] = x[1] \in Routable] /\ stun' = stun
    BY <1>2 DEF StoreFlag, Goto, SetFlag
  <2>2. query[n] \in [at : {"idle", "wait", "flagged", "addressed"}, first : BOOLEAN, addr : Addr \cup {None}]
    BY DEF TypeOK
  <2>3. query' \in [Node -> [at : {"idle", "wait", "flagged", "addressed"}, first : BOOLEAN, addr : Addr \cup {None}]]
    BY <2>1, <2>2 DEF TypeOK
  <2>4. relay' \in [Node -> BOOLEAN] /\ stun' \in [Node -> Addr \cup {None}]
    BY <2>1 DEF TypeOK
  <2>5. query'[n].at = "flagged" /\ query'[n].addr = x /\ relay'[n] = Capable(x)
    BY <2>1, <2>2, <1>1 DEF TypeOK, Capable
  <2>6. \A m \in Node \ {n} : query'[m] = query[m] /\ relay'[m] = relay[m] /\ stun'[m] = stun[m]
    BY <2>1 DEF TypeOK
  <2>7. FlagMatchesAddress'
    BY <2>5, <2>6, <1>1 DEF FlagMatchesAddress, Capable
  <2> QED
    BY <2>3, <2>4, <2>7
<1>3. CASE StoreNew(n, x)
  <2>1. /\ query' = [query EXCEPT ![n] = IF stun[n] = x THEN NoQuery
                        ELSE [query[n] EXCEPT !.at = "addressed", !.addr = x]]
        /\ stun' = [stun EXCEPT ![n] = x] /\ relay' = relay
    BY <1>3 DEF StoreNew, Goto
  <2>2. /\ query[n] \in [at : {"idle", "wait", "flagged", "addressed"}, first : BOOLEAN, addr : Addr \cup {None}]
        /\ NoQuery \in [at : {"idle", "wait", "flagged", "addressed"}, first : BOOLEAN, addr : Addr \cup {None}]
        /\ NoQuery.at = "idle"
    BY DEF TypeOK, NoQuery, FirstQuery
  <2>3. /\ query' \in [Node -> [at : {"idle", "wait", "flagged", "addressed"}, first : BOOLEAN, addr : Addr \cup {None}]]
        /\ stun' \in [Node -> Addr \cup {None}] /\ relay' \in [Node -> BOOLEAN]
    BY <2>1, <2>2 DEF TypeOK
  <2>4. stun'[n] = x /\ relay[n] = Capable(stun[n]) /\ relay'[n] = relay[n]
    BY <2>1 DEF TypeOK, FlagMatchesAddress
  <2>5. \/ query'[n].at = "idle" /\ relay'[n] = Capable(stun'[n])
        \/ query'[n].at = "addressed" /\ stun'[n] # None /\ stun'[n] = query'[n].addr
    <3>1. CASE stun[n] = x
      <4>1. query'[n] = NoQuery
        BY <2>1, <3>1 DEF TypeOK
      <4> QED
        BY <2>2, <2>4, <3>1, <4>1
    <3>2. CASE stun[n] # x
      <4>1. query'[n] = [query[n] EXCEPT !.at = "addressed", !.addr = x]
        BY <2>1, <3>2 DEF TypeOK
      <4> QED
        BY <1>1, <2>2, <2>4, <4>1
    <3> QED
      BY <3>1, <3>2
  <2>6. \A m \in Node \ {n} : query'[m] = query[m] /\ relay'[m] = relay[m] /\ stun'[m] = stun[m]
    BY <2>1 DEF TypeOK
  <2>7. FlagMatchesAddress'
    BY <2>5, <2>6 DEF FlagMatchesAddress, Capable
  <2> QED
    BY <2>3, <2>7
<1> QED
  BY <1>2, <1>3

\* A task of n that leaves address and flag alone and does not leave the
\* flagged state keeps them in agreement.
LEMMA QueryKeeps ==
  ASSUME RendezvousInv, NEW n \in Node, query[n].at \in {"idle", "wait"},
         NEW q \in [at : {"idle", "wait"}, first : BOOLEAN, addr : Addr \cup {None}],
         query' = [query EXCEPT ![n] = q], UNCHANGED <<stun, relay>>
  PROVE  /\ query' \in [Node -> [at : {"idle", "wait", "flagged", "addressed"}, first : BOOLEAN, addr : Addr \cup {None}]]
         /\ FlagMatchesAddress'
<1>1. query' \in [Node -> [at : {"idle", "wait", "flagged", "addressed"}, first : BOOLEAN, addr : Addr \cup {None}]]
  BY DEF RendezvousInv, TypeOK
<1>2. query'[n].at \in {"idle", "wait"} /\ relay[n] = Capable(stun[n])
  BY DEF RendezvousInv, TypeOK, FlagMatchesAddress
<1>3. \A m \in Node \ {n} : query'[m] = query[m]
  BY DEF RendezvousInv, TypeOK
<1>4. FlagMatchesAddress'
  BY <1>2, <1>3 DEF RendezvousInv, FlagMatchesAddress, Capable
<1> QED
  BY <1>1, <1>4

LEMMA StepInv == RendezvousInv /\ [Next]_vars => RendezvousInv'
<1> SUFFICES ASSUME RendezvousInv, [Next]_vars
             PROVE  RendezvousInv'
  OBVIOUS
<1> USE DEF RendezvousInv
<1>A. ASSUME UNCHANGED own
      PROVE  FlagMatchesAddress'
  BY <1>A DEF own, FlagMatchesAddress, Capable
<1>1. ASSUME NEW n \in Node, Start(n)
      PROVE  RendezvousInv'
  <2>1. bound' \in [Node -> Port]
    BY <1>1, RendezvousAssumption DEF Start, TypeOK, Port
  <2>2. mapped' \in [Node -> Port]
    <3>1. PICK p \in Outside : mapped' = IF Home[n] \in Natted THEN [mapped EXCEPT ![n] = p] ELSE mapped
      BY <1>1 DEF Start
    <3>2. p \in Port
      BY RendezvousAssumption DEF Port
    <3> QED
      BY <3>1, <3>2 DEF TypeOK
  <2>3. TypeOK'
    BY <1>1, <2>1, <2>2 DEF Start, TypeOK, own, dht, peers
  <2> QED
    BY <2>3, <1>1, <1>A DEF Start
<1>2. ASSUME NEW n \in Node, Ask(n)
      PROVE  RendezvousInv'
  <2>1. socket' \in [Node -> SUBSET Datagram]
    BY <1>2, PublicIsAddr DEF Ask, Answered, TypeOK
  <2>2. query[n].at \in {"idle", "wait"} /\ query' = [query EXCEPT ![n] = [query[n] EXCEPT !.at = "wait"]]
    BY <1>2 DEF Ask, Goto
  <2>3. [query[n] EXCEPT !.at = "wait"] \in [at : {"idle", "wait"}, first : BOOLEAN, addr : Addr \cup {None}]
    BY DEF TypeOK
  <2>4. UNCHANGED <<stun, relay>>
    BY <1>2 DEF Ask
  <2>5. /\ query' \in [Node -> [at : {"idle", "wait", "flagged", "addressed"}, first : BOOLEAN, addr : Addr \cup {None}]]
        /\ FlagMatchesAddress'
    BY <2>2, <2>3, <2>4, QueryKeeps
  <2>6. TypeOK'
    BY <1>2, <2>1, <2>5 DEF Ask, TypeOK, dht, peers
  <2> QED
    BY <2>5, <2>6
<1>3. ASSUME NEW n \in Node, NoAnswer(n)
      PROVE  RendezvousInv'
  <2>1. /\ query' \in [Node -> [at : {"idle", "wait", "flagged", "addressed"}, first : BOOLEAN, addr : Addr \cup {None}]]
        /\ stun' \in [Node -> Addr \cup {None}] /\ relay' \in [Node -> BOOLEAN]
        /\ FlagMatchesAddress'
    <3>1. query[n].at = "wait"
      BY <1>3 DEF NoAnswer
    <3>2. CASE StoreFlag(n, <<Home[n], bound[n]>>)
      <4>1. <<Home[n], bound[n]>> \in Addr
        BY DEF TypeOK, Addr, Host
      <4> QED
        BY <3>1, <3>2, <4>1, StoresKeep
    <3>3. CASE Goto(n, NoQuery) /\ UNCHANGED <<stun, relay>>
      <4>1. NoQuery \in [at : {"idle", "wait"}, first : BOOLEAN, addr : Addr \cup {None}]
        BY DEF NoQuery, FirstQuery
      <4>2. query' = [query EXCEPT ![n] = NoQuery]
        BY <3>3 DEF Goto
      <4> QED
        BY <3>1, <3>3, <4>1, <4>2, QueryKeeps DEF TypeOK
    <3> QED
      BY <1>3, <3>2, <3>3 DEF NoAnswer
  <2>2. TypeOK'
    BY <1>3, <2>1 DEF NoAnswer, TypeOK, net, dht, peers
  <2> QED
    BY <2>1, <2>2
<1>4. ASSUME NEW n \in Node, StoreAddr(n)
      PROVE  RendezvousInv'
  <2>1. /\ query[n].at = "flagged" /\ query' = [query EXCEPT ![n] = NoQuery]
        /\ stun' = [stun EXCEPT ![n] = query[n].addr] /\ UNCHANGED relay
    BY <1>4 DEF StoreAddr, Goto
  <2>2. query[n].addr \in Addr \cup {None}
    BY DEF TypeOK
  <2>3. TypeOK'
    BY <1>4, <2>1, <2>2 DEF StoreAddr, TypeOK, NoQuery, FirstQuery, net, dht, peers
  <2>4. relay[n] = Capable(query[n].addr)
    BY <2>1 DEF FlagMatchesAddress
  <2>5. query'[n].at = "idle" /\ stun'[n] = query[n].addr
    BY <2>1 DEF TypeOK, NoQuery, FirstQuery
  <2>6. \A m \in Node \ {n} : query'[m] = query[m] /\ stun'[m] = stun[m]
    BY <2>1 DEF TypeOK
  <2>7. FlagMatchesAddress'
    BY <2>1, <2>4, <2>5, <2>6 DEF FlagMatchesAddress, Capable
  <2> QED
    BY <2>3, <2>7
<1>4a. ASSUME NEW n \in Node, StoreNewFlag(n)
      PROVE  RendezvousInv'
  <2>1. /\ query[n].at = "addressed" /\ query' = [query EXCEPT ![n] = NoQuery]
        /\ relay' = [relay EXCEPT ![n] = query[n].addr[1] \in Routable] /\ UNCHANGED stun
    BY <1>4a DEF StoreNewFlag, Goto, SetFlag
  <2>2. relay' \in [Node -> BOOLEAN]
    BY <2>1 DEF TypeOK
  <2>3. TypeOK'
    BY <1>4a, <2>1, <2>2 DEF StoreNewFlag, TypeOK, NoQuery, FirstQuery, net, dht, peers
  <2>4. stun[n] # None /\ stun[n] = query[n].addr
    BY <2>1 DEF FlagMatchesAddress
  <2>5. query'[n].at = "idle" /\ relay'[n] = Capable(stun[n])
    BY <2>1, <2>4 DEF TypeOK, NoQuery, FirstQuery, Capable
  <2>6. \A m \in Node \ {n} : query'[m] = query[m] /\ relay'[m] = relay[m]
    BY <2>1 DEF TypeOK
  <2>7. FlagMatchesAddress'
    BY <2>1, <2>5, <2>6 DEF FlagMatchesAddress, Capable
  <2> QED
    BY <2>3, <2>7
<1>5. ASSUME NEW n \in Node, GetAnswer(n)
      PROVE  RendezvousInv'
  <2>1. PICK d \in socket[n] :
          /\ query[n].at = "wait" /\ d.type = "mapped" /\ Takes(n, d)
          /\ StoreFlag(n, d.addr) \/ StoreNew(n, d.addr)
    BY <1>5 DEF GetAnswer
  <2>2. d.addr \in Addr
    BY <2>1, AnswerHasAddr
  <2>3. /\ query' \in [Node -> [at : {"idle", "wait", "flagged", "addressed"}, first : BOOLEAN, addr : Addr \cup {None}]]
        /\ stun' \in [Node -> Addr \cup {None}] /\ relay' \in [Node -> BOOLEAN]
        /\ FlagMatchesAddress'
    BY <2>1, <2>2, StoresKeep
  <2>4. socket' \in [Node -> SUBSET Datagram]
    BY <2>1 DEF Takes, TypeOK
  <2>5. TypeOK'
    BY <1>5, <2>3, <2>4 DEF GetAnswer, TypeOK, dht, peers
  <2> QED
    BY <2>3, <2>5
<1>6. ASSUME NEW n \in Node, Swallow(n)
      PROVE  RendezvousInv'
  <2>1. socket' \in [Node -> SUBSET Datagram]
    BY <1>6 DEF Swallow, Takes, TypeOK
  <2>2. TypeOK'
    BY <1>6, <2>1 DEF Swallow, TypeOK, own, dht, peers
  <2> QED
    BY <2>2, <1>6, <1>A DEF Swallow
<1>7. ASSUME NEW n \in Node, BootAnnounce(n)
      PROVE  RendezvousInv'
  <2>1. PortOr(n, bound[n]) \in Port
    BY PortOrIsPort DEF TypeOK
  <2>2. announce' \in [Node -> [boot : Port, periodic : Port]]
    BY <1>7, <2>1 DEF BootAnnounce, TypeOK
  <2>3. TypeOK'
    BY <1>7, <2>2 DEF BootAnnounce, TypeOK, net, own, peers
  <2> QED
    BY <2>3, <1>7, <1>A DEF BootAnnounce
<1>8. ASSUME NEW n \in Node, PeriodicAnnounce(n)
      PROVE  RendezvousInv'
  <2>1. PortOr(n, Preferred) \in Port
    BY PortOrIsPort, RendezvousAssumption DEF Port
  <2>2. announce' \in [Node -> [boot : Port, periodic : Port]]
    BY <1>8, <2>1 DEF PeriodicAnnounce, TypeOK
  <2>3. TypeOK'
    BY <1>8, <2>2 DEF PeriodicAnnounce, TypeOK, net, own, peers
  <2> QED
    BY <2>3, <1>8, <1>A DEF PeriodicAnnounce
<1>9. ASSUME NEW n \in Node, NEW task \in {"boot", "periodic"}, Announced(n, task)
      PROVE  RendezvousInv'
  <2>1. announce[n] \in [boot : Port, periodic : Port] /\ None \in Port
    BY DEF TypeOK, Port
  <2>2. announce[n][task] \in Port
    BY <2>1
  <2>3. announce' = [announce EXCEPT ![n] = [announce[n] EXCEPT ![task] = None]]
    BY <1>9 DEF Announced
  <2>4. [announce[n] EXCEPT ![task] = None] \in [boot : Port, periodic : Port]
    BY <2>1
  <2>5. announce' \in [Node -> [boot : Port, periodic : Port]]
    BY <2>3, <2>4 DEF TypeOK
  <2>6. TypeOK'
    BY <1>9, <2>2, <2>5 DEF Announced, TypeOK, net, own, peers
  <2> QED
    BY <2>6, <1>9, <1>A DEF Announced
<1>10. ASSUME NEW n \in Node, AskTrackers(n)
       PROVE  RendezvousInv'
  <2>1. TypeOK'
    BY <1>10 DEF AskTrackers, TypeOK, net, own, dht
  <2> QED
    BY <2>1, <1>10, <1>A DEF AskTrackers
<1>11. ASSUME NEW n \in Node, Cycle(n)
       PROVE  RendezvousInv'
  <2>1. socket' \in [Node -> SUBSET Datagram]
    BY <1>11, PublicIsAddr DEF Cycle, Dials, TypeOK
  <2>2. TypeOK'
    BY <1>11, <2>1 DEF Cycle, Dials, TypeOK, own, dht, peers
  <2> QED
    BY <2>2, <1>11, <1>A DEF Cycle, Dials
<1>12. ASSUME NEW n \in Node, Receive(n)
       PROVE  RendezvousInv'
  <2>1. PICK d \in socket[n] :
          /\ Takes(n, d)
          /\ met' = met \cup {{m, n} : m \in {d.from} \ {None}}
          /\ UNCHANGED <<bound, mapped, own, dht, trackers, asked, known, moves>>
    BY <1>12 DEF Receive
  <2>2. socket' \in [Node -> SUBSET Datagram]
    BY <2>1 DEF Takes, TypeOK
  <2>3. d.from \in Node \cup {None}
    BY AnswerHasAddr
  <2>4. met' \subseteq SUBSET Node
    BY <2>1, <2>3 DEF TypeOK
  <2>5. TypeOK'
    BY <2>1, <2>2, <2>4 DEF TypeOK, own, dht
  <2> QED
    BY <2>5, <2>1, <1>A
<1>13. ASSUME NEW n \in Node, Move(n)
       PROVE  RendezvousInv'
  <2>1. mapped' \in [Node -> Port]
    BY <1>13, RendezvousAssumption DEF Move, TypeOK, Port
  <2>2. TypeOK'
    BY <1>13, <2>1 DEF Move, TypeOK, own, dht, peers
  <2> QED
    BY <2>2, <1>13, <1>A DEF Move
<1>14. CASE UNCHANGED vars
  <2>1. TypeOK'
    BY <1>14 DEF vars, net, own, dht, peers, TypeOK
  <2> QED
    BY <2>1, <1>14, <1>A DEF vars
<1> QED
  BY <1>1, <1>2, <1>3, <1>4, <1>4a, <1>5, <1>6, <1>7, <1>8, <1>9, <1>10, <1>11, <1>12, <1>13, <1>14
     DEF Next, Main, BootTask, PeriodicTask

\* For any devices, hosts, NATs and ports: whichever of its tasks stored them,
\* in whichever order with announcements and discovery, the relay flag of a
\* device agrees with the public address it has stored, except between the two
\* stores of one task (lib.rs:227-232, 634-647).
THEOREM RendezvousInvariant == Spec => []RendezvousInv
BY InitInv, StepInv, PTL DEF Spec
=============================================================================
