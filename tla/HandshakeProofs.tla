-------------------------- MODULE HandshakeProofs ---------------------------
(***************************************************************************)
(* Proofs about Handshake: the inductive invariant HandshakeInv, and from  *)
(* it that no handshake yields a node's transport twice, that two sessions *)
(* of one attempt are the two ends of one handshake, and that no task      *)
(* leaves an entry of pending behind; AddressInv, and from it that every   *)
(* session is found by its address; and that a node meets itself only by   *)
(* attempts older than STUN's answer.  They hold for any number of nodes,  *)
(* addresses and ephemerals, any bounds on faults, and links that reorder, *)
(* lose and repeat datagrams.                                              *)
(***************************************************************************)
EXTENDS Handshake, TLAPS

(* Small facts *)

\* An ephemeral names its node.
LEMMA EphHasNode ==
  ASSUME NEW k \in Eph
  PROVE  k[1] \in Node
BY DEF Eph

\* None is no value of any table.
LEMMA NoneIsNothing ==
  /\ None \notin Eph
  /\ None \notin Key
  /\ None \notin Offer
  /\ None \notin Session
  /\ None \notin Greeting
  /\ None \notin Msg
  /\ None \notin Node
  /\ None \notin Addr
BY HandshakeAssumption DEF HandshakeAssumption

\* A datagram is well formed when its ends are.
LEMMA PacketType ==
  ASSUME NEW t \in {"A", "B", "C", "D"}, NEW i \in Eph, NEW r \in Eph \cup {None},
         NEW n \in Node, NEW x \in Addr
  PROVE  Packet(t, i, r, n, x) \in Msg
BY HandshakeAssumption DEF HandshakeAssumption, Packet, Msg

\* So is a SessionInit on a session that exists.
LEMMA SessionInitType ==
  ASSUME TypeOK, NEW n \in Node, NEW p \in Node, NEW x \in Addr, sessions[n][p] # None
  PROVE  SessionInit(n, p, x) \in Msg
<1>1. sessions[n][p] \in Session
  BY DEF TypeOK
<1> QED
  BY <1>1, PacketType DEF SessionInit, Session

\* Counting a fault keeps the counters counters.
LEMMA CountType ==
  ASSUME NEW u \in [loss : Nat, dup : Nat, restart : Nat]
  PROVE  /\ [u EXCEPT !.loss = @ + 1] \in [loss : Nat, dup : Nat, restart : Nat]
         /\ [u EXCEPT !.dup = @ + 1] \in [loss : Nat, dup : Nat, restart : Nat]
         /\ [u EXCEPT !.restart = @ + 1] \in [loss : Nat, dup : Nat, restart : Nat]
OBVIOUS

LEMMA FaultsType ==
  ASSUME TypeOK
  PROVE  /\ [faults EXCEPT !.loss = @ + 1] \in [loss : Nat, dup : Nat, restart : Nat]
         /\ [faults EXCEPT !.dup = @ + 1] \in [loss : Nat, dup : Nat, restart : Nat]
         /\ [faults EXCEPT !.restart = @ + 1] \in [loss : Nat, dup : Nat, restart : Nat]
<1>1. faults \in [loss : Nat, dup : Nat, restart : Nat]
  BY DEF TypeOK
<1> QED
  BY <1>1, CountType

\* Reading a datagram adds to the network what the reader sends at most, and
\* counts faults.
LEMMA ExchangeType ==
  ASSUME TypeOK, NEW m \in net, NEW out, out \subseteq Msg, Exchange(m, out)
  PROVE  /\ net' \subseteq Msg
         /\ faults' \in [loss : Nat, dup : Nat, restart : Nat]
         /\ net' \subseteq net \cup out
<1>1. net \subseteq Msg /\ faults \in [loss : Nat, dup : Nat, restart : Nat]
  BY DEF TypeOK
<1> QED
  BY <1>1, CountType DEF Exchange

\* What the prune of pending_responders leaves was there before, and fresh.
LEMMA RetainedType ==
  ASSUME TypeOK, NEW n \in Node
  PROVE  /\ Retained(n) \in [Addr -> Offer \cup {None}]
         /\ \A x \in Addr : Retained(n)[x] # None => Retained(n)[x] = responders[n][x]
BY DEF TypeOK, Retained

\* A new session leaves all three of its tables well typed.
LEMMA StoreType ==
  ASSUME TypeOK, NEW n \in Node, NEW p \in Node, NEW i \in Eph, NEW r \in Eph,
         NEW x \in Addr, StoreSession(n, p, i, r, x)
  PROVE  /\ sessions' \in [Node -> [Node -> Session \cup {None}]]
         /\ installed' \in [Node -> SUBSET Key]
         /\ reinstalled' \subseteq Key
<1>1. /\ [i |-> i, r |-> r, underlay |-> x, deaf |-> FALSE] \in Session
      /\ [i |-> i, r |-> r] \in Key
  BY DEF Session, Key
<1> QED
  BY <1>1 DEF StoreSession, TypeOK

\* Indexing keeps the index an index.
LEMMA IndexType ==
  ASSUME TypeOK, NEW n \in Node, NEW p \in Node, NEW x \in Addr, IndexSession(n, p, x)
  PROVE  /\ addrIndex' \in [Node -> [Addr -> Node \cup {None}]]
         /\ addrIndex'[n][x] = p
         /\ \A m \in Node, y \in Addr : m # n \/ y # x => addrIndex'[m][y] = addrIndex[m][y]
BY DEF IndexSession, TypeOK

\* Drawing an ephemeral anew only shortens the history.
LEMMA ForgetType ==
  ASSUME TypeOK, NEW k
  PROVE  /\ Forget(k) \in [Node -> SUBSET Key]
         /\ \A n \in Node : Forget(k)[n] \subseteq installed[n]
         /\ \A n \in Node : \A key \in Forget(k)[n] : key.i # k /\ key.r # k
<1>1. \A n \in Node : \A key \in installed[n] : key \in Key /\ key # None
  BY NoneIsNothing DEF TypeOK
<1> QED
  BY <1>1 DEF TypeOK, Forget, Mentions

-----------------------------------------------------------------------------
(* Types *)

LEMMA InitInv == Init => HandshakeInv
<1> SUFFICES ASSUME Init PROVE HandshakeInv
  OBVIOUS
<1>1. TypeOK
  BY DEF Init, tasks, TypeOK, Progress
<1>2. TaskData /\ GreetingHasSession /\ MessagesNameResponder /\ TransportIsFresh
  BY DEF Init, TaskData, Past, GreetingHasSession, MessagesNameResponder, TransportIsFresh
<1>3. PendingIsOwned /\ AttemptsAreFresh /\ SessionsAreKeyed
  BY DEF Init, PendingIsOwned, AttemptsAreFresh, SessionsAreKeyed
<1>4. RespondersAreFresh
  BY DEF Init, RespondersAreFresh, Retained
<1>5. Committed = {}
  BY DEF Init, Committed, Past
<1> QED
  BY <1>1, <1>2, <1>3, <1>4, <1>5 DEF HandshakeInv, CommitsAreUnique

\* Every action keeps the tables well typed.
LEMMA StepType ==
  ASSUME TypeOK, TaskData, GreetingHasSession, MessagesNameResponder, [Next]_vars
  PROVE  TypeOK'
<1>1. ASSUME NEW n \in Node, NEW x \in Addr, NEW k \in Eph, Discover(n, x, k)
      PROVE  TypeOK'
  BY <1>1, ForgetType DEF Discover, TypeOK, Progress, self
<1>2. ASSUME NEW k \in Eph, SendA(k)
      PROVE  TypeOK'
  <2>1. target[k] \in Addr /\ k[1] \in Node
    BY <1>2, EphHasNode DEF SendA, TaskData, Past
  <2>2. Packet("A", k, None, k[1], target[k]) \in Msg
    BY <2>1, PacketType
  <2>3. net' \subseteq Msg
    BY <1>2, <2>2 DEF SendA, TypeOK
  <2>4. pending' \in [Node -> [Addr -> Eph \cup {None}]]
    <3>1. pending' = pending \/ pending' = [pending EXCEPT ![k[1]][target[k]] = k]
      BY <1>2 DEF SendA
    <3>2. pending \in [Node -> [Addr -> Eph \cup {None}]]
      BY DEF TypeOK
    <3>3. [pending[k[1]] EXCEPT ![target[k]] = k] \in [Addr -> Eph \cup {None}]
      BY <2>1, <3>2
    <3> QED
      BY <2>1, <3>1, <3>2, <3>3
  <2>5. /\ pc' \in [Eph -> Progress]
        /\ target' \in [Eph -> Addr \cup {None}]
        /\ reply' \in [Eph -> Key \cup {None}]
    BY <1>2 DEF SendA, End, TypeOK, Progress
  <2> QED
    BY <1>2, <2>3, <2>4, <2>5 DEF SendA, TypeOK, history, self
<1>3. ASSUME NEW k \in Eph, SendC(k)
      PROVE  TypeOK'
  <2>1. target[k] \in Addr /\ k[1] \in Node /\ reply[k] \in Key
    BY <1>3, EphHasNode DEF SendC, TaskData, Past
  <2>2. Packet("C", k, reply[k].r, k[1], target[k]) \in Msg
    BY <2>1, PacketType DEF Key
  <2>3. /\ pc' \in [Eph -> Progress]
        /\ target' \in [Eph -> Addr \cup {None}]
        /\ reply' \in [Eph -> Key \cup {None}]
    <3>1. CASE End(k)
      BY <3>1 DEF End, TypeOK, Progress
    <3>2. CASE ~End(k)
      <4>1. pc' = [pc EXCEPT ![k] = "finished"] /\ UNCHANGED <<target, reply>>
        BY <1>3, <3>2 DEF SendC
      <4> QED
        BY <4>1 DEF TypeOK, Progress
    <3> QED
      BY <3>1, <3>2
  <2>4. net' \subseteq Msg
    BY <1>3, <2>2 DEF SendC, TypeOK
  <2>5. UNCHANGED <<tables, history, self, faults>>
    BY <1>3 DEF SendC
  <2> QED
    BY <2>3, <2>4, <2>5 DEF TypeOK, history, tables, self
<1>4. ASSUME NEW k \in Eph, Install(k)
      PROVE  TypeOK'
  <2>1. /\ target[k] \in Addr /\ k[1] \in Node
        /\ reply[k].r \in Eph /\ reply[k].r[1] \in Node
    BY <1>4, EphHasNode DEF Install, TaskData, Key, Past
  <2>2. StoreSession(k[1], reply[k].r[1], k, reply[k].r, target[k])
    BY <1>4 DEF Install
  <2>3. /\ sessions' \in [Node -> [Node -> Session \cup {None}]]
        /\ installed' \in [Node -> SUBSET Key]
        /\ reinstalled' \subseteq Key
    BY <2>1, <2>2, StoreType
  <2> QED
    BY <1>4, <2>3 DEF Install, TypeOK, Progress, self
<1>5. ASSUME NEW k \in Eph, Greet(k)
      PROVE  TypeOK'
  <2>1. /\ target[k] \in Addr /\ k[1] \in Node /\ reply[k].r[1] \in Node
        /\ sessions[k[1]][reply[k].r[1]] # None
    BY <1>5, EphHasNode DEF Greet, TaskData, Key, Past
  <2>2. SessionInit(k[1], reply[k].r[1], target[k]) \in Msg
    BY <2>1, SessionInitType
  <2> QED
    BY <1>5, <2>2 DEF Greet, End, TypeOK, Progress, tables, history, self
<1>6. ASSUME NEW k \in Eph, Timeout(k)
      PROVE  TypeOK'
  BY <1>6 DEF Timeout, TypeOK, Progress, tables, history, self
<1>7. ASSUME NEW k \in Eph, Expire(k)
      PROVE  TypeOK'
  BY <1>7 DEF Expire, End, TypeOK, Progress, history, self
<1>8. ASSUME NEW k \in Eph, ChannelDropped(k)
      PROVE  TypeOK'
  BY <1>8 DEF ChannelDropped, End, TypeOK, Progress, tables, history, self
<1>9. ASSUME NEW k \in Eph, SendFails(k)
      PROVE  TypeOK'
  <2>1. /\ End(k)
        /\ faults' = [faults EXCEPT !.loss = @ + 1]
        /\ UNCHANGED <<net, tables, history, self>>
    BY <1>9 DEF SendFails
  <2> QED
    BY <2>1, FaultsType DEF End, TypeOK, Progress, tables, history, self
<1>10. ASSUME NEW n \in Node, NEW m \in net, DispatchB(n, m)
       PROVE  TypeOK'
  <2>1. /\ m \in Msg /\ m.type = "B" /\ m.r \in Eph
        /\ [i |-> m.i, r |-> m.r] \in Key
    BY <1>10 DEF DispatchB, ForInitiator, TypeOK, MessagesNameResponder, Msg, Key
  <2>2. m.src \in Addr /\ pending[n][m.src] \in Eph
    BY <1>10, <2>1 DEF DispatchB, ForInitiator, TypeOK, Msg
  <2>3. net' \subseteq Msg /\ faults' \in [loss : Nat, dup : Nat, restart : Nat]
    BY <1>10, ExchangeType DEF DispatchB
  <2>4. responders' \in [Node -> [Addr -> Offer \cup {None}]]
    BY <1>10, RetainedType DEF DispatchB, TypeOK
  <2>5. pc' \in [Eph -> Progress] /\ reply' \in [Eph -> Key \cup {None}]
    <3>1. \/ /\ pc' = [pc EXCEPT ![pending[n][m.src]] = "replied"]
             /\ reply' = [reply EXCEPT ![pending[n][m.src]] = [i |-> m.i, r |-> m.r]]
          \/ UNCHANGED <<pc, reply>>
      BY <1>10 DEF DispatchB
    <3>2. pc \in [Eph -> Progress] /\ reply \in [Eph -> Key \cup {None}]
      BY DEF TypeOK
    <3>3. "replied" \in Progress /\ [i |-> m.i, r |-> m.r] \in Key
      BY <2>1 DEF Progress
    <3> DEFINE K == pending[n][m.src]
               R == [i |-> m.i, r |-> m.r]
    <3> HIDE DEF K, R
    <3>4. CASE /\ pc' = [pc EXCEPT ![K] = "replied"]
               /\ reply' = [reply EXCEPT ![K] = R]
      BY <3>2, <3>3, <3>4 DEF R
    <3>5. CASE UNCHANGED <<pc, reply>>
      BY <3>2, <3>5
    <3> QED
      BY <3>1, <3>4, <3>5 DEF K, R
  <2>6. pending' \in [Node -> [Addr -> Eph \cup {None}]]
    BY <1>10, <2>2 DEF DispatchB, TypeOK
  <2> QED
    BY <1>10, <2>3, <2>4, <2>5, <2>6 DEF DispatchB, TypeOK, history, self
<1>11. ASSUME NEW n \in Node, NEW m \in net, FinishC(n, m)
       PROVE  TypeOK'
  <2>1. m \in Msg /\ m.src \in Addr
    BY DEF TypeOK, Msg
  <2>2. /\ Retained(n)[m.src] = responders[n][m.src]
        /\ responders[n][m.src] \in Offer
    BY <1>11, <2>1, RetainedType DEF FinishC, ForResponder, TypeOK
  <2>3. net' \subseteq Msg /\ faults' \in [loss : Nat, dup : Nat, restart : Nat]
    BY <1>11, ExchangeType DEF FinishC
  <2>4. responders' \in [Node -> [Addr -> Offer \cup {None}]]
    BY <1>11, RetainedType DEF FinishC, TypeOK
  <2>5. /\ responders[n][m.src].i \in Eph /\ responders[n][m.src].i[1] \in Node
        /\ responders[n][m.src].r \in Eph
    BY <2>2, EphHasNode DEF Offer
  <2>6. /\ sessions' \in [Node -> [Node -> Session \cup {None}]]
        /\ installed' \in [Node -> SUBSET Key]
        /\ reinstalled' \subseteq Key
        /\ greeting' \in [Node -> Greeting \cup {None}]
    <3>1. CASE Completes(m, responders[n][m.src])
      <4>1. StoreSession(n, responders[n][m.src].i[1], responders[n][m.src].i,
                          responders[n][m.src].r, m.src)
        BY <1>11, <3>1 DEF FinishC
      <4>2. greeting' \in [Node -> Greeting \cup {None}]
        <5>1. [peer |-> responders[n][m.src].i[1], to |-> m.src, indexed |-> FALSE] \in Greeting
          BY <2>1, <2>5 DEF Greeting
        <5> QED
          BY <1>11, <3>1, <5>1 DEF FinishC, TypeOK
      <4> QED
        BY <4>1, <4>2, <2>1, <2>5, StoreType
    <3>2. CASE ~Completes(m, responders[n][m.src])
      BY <1>11, <3>2 DEF FinishC, TypeOK, history
    <3> QED
      BY <3>1, <3>2
  <2> QED
    BY <1>11, <2>3, <2>4, <2>6 DEF FinishC, TypeOK, tasks, self
<1>12. ASSUME NEW n \in Node, GreetBack(n)
       PROVE  TypeOK'
  <2>1. /\ greeting[n].peer \in Node /\ greeting[n].to \in Addr
        /\ sessions[n][greeting[n].peer] # None
    BY <1>12 DEF GreetBack, GreetingHasSession, TypeOK, Greeting
  <2>2. SessionInit(n, greeting[n].peer, greeting[n].to) \in Msg
    BY <2>1, SessionInitType
  <2> QED
    BY <1>12, <2>2 DEF GreetBack, TypeOK, tasks, history, self
<1>13. ASSUME NEW n \in Node, NEW m \in net, Decrypt(n, m)
       PROVE  TypeOK'
  <2>1. m \in Msg /\ m.src \in Addr
    BY DEF TypeOK, Msg
  <2>2. addrIndex[n][m.src] \in Node
    BY <1>13, <2>1 DEF Decrypt, ForSession, TypeOK
  <2>3. net' \subseteq Msg /\ faults' \in [loss : Nat, dup : Nat, restart : Nat]
    BY <1>13, ExchangeType DEF Decrypt
  <2>4. responders' \in [Node -> [Addr -> Offer \cup {None}]]
    BY <1>13, RetainedType DEF Decrypt, TypeOK
  <2>5. sessions' \in [Node -> [Node -> Session \cup {None}]]
    <3>1. CASE sessions[n][addrIndex[n][m.src]] # None /\ m.type # "D"
      <4>1. sessions[n][addrIndex[n][m.src]] \in Session
        BY <3>1, <2>2 DEF TypeOK
      <4>2. [sessions[n][addrIndex[n][m.src]] EXCEPT !.deaf = TRUE] \in Session
        BY <4>1 DEF Session
      <4>3. sessions' = [sessions EXCEPT ![n][addrIndex[n][m.src]] = [@ EXCEPT !.deaf = TRUE]]
        BY <1>13, <3>1 DEF Decrypt
      <4> QED
        BY <2>2, <4>2, <4>3 DEF TypeOK
    <3>2. CASE ~(sessions[n][addrIndex[n][m.src]] # None /\ m.type # "D")
      BY <1>13, <3>2 DEF Decrypt, TypeOK
    <3> QED
      BY <3>1, <3>2
  <2> QED
    BY <1>13, <2>3, <2>4, <2>5 DEF Decrypt, TypeOK, tasks, history, self
<1>14. ASSUME NEW n \in Node, NEW m \in net, NEW e \in Eph, AcceptA(n, m, e)
       PROVE  TypeOK'
  <2>1. m \in Msg /\ m.src \in Addr /\ m.i \in Eph
    BY DEF TypeOK, Msg
  <2>2. Packet("B", m.i, e, n, m.src) \in Msg
    BY <2>1, PacketType
  <2>3. net' \subseteq Msg /\ faults' \in [loss : Nat, dup : Nat, restart : Nat]
    BY <1>14, <2>2, ExchangeType DEF AcceptA
  <2>4. responders' \in [Node -> [Addr -> Offer \cup {None}]]
    BY <1>14, <2>1, RetainedType DEF AcceptA, TypeOK, Offer
  <2> QED
    BY <1>14, <2>3, <2>4, ForgetType DEF AcceptA, TypeOK, tasks, self
<1>15. ASSUME NEW n \in Node, NEW m \in net, Ignore(n, m)
       PROVE  TypeOK'
  <2>1. net' \subseteq Msg /\ faults' \in [loss : Nat, dup : Nat, restart : Nat]
    BY <1>15, ExchangeType DEF Ignore
  <2>2. responders' \in [Node -> [Addr -> Offer \cup {None}]]
    BY <1>15, RetainedType DEF Ignore, TypeOK
  <2> QED
    BY <1>15, <2>1, <2>2 DEF Ignore, TypeOK, tasks, history, self
<1>16. ASSUME NEW n \in Node, NEW x \in Addr, Stale(n, x)
       PROVE  TypeOK'
  <2>1. responders' \in [Node -> [Addr -> Offer \cup {None}]]
    <3>1. responders[n][x] \in Offer
      BY <1>16 DEF Stale, TypeOK
    <3>2. [responders[n][x] EXCEPT !.stale = TRUE] \in Offer
      BY <3>1 DEF Offer
    <3> QED
      BY <1>16, <3>2 DEF Stale, TypeOK
  <2> QED
    BY <1>16, <2>1 DEF Stale, TypeOK, tasks, history, self
<1>17. ASSUME NEW m \in net, Lose(m)
       PROVE  TypeOK'
  <2>1. net' \subseteq Msg
    BY <1>17 DEF Lose, TypeOK
  <2>2. faults' \in [loss : Nat, dup : Nat, restart : Nat]
    BY <1>17, FaultsType DEF Lose
  <2>3. UNCHANGED <<tasks, tables, history, self>>
    BY <1>17 DEF Lose
  <2> QED
    BY <2>1, <2>2, <2>3 DEF TypeOK, tasks, tables, history, self
<1>18. ASSUME NEW n \in Node, Restart(n)
       PROVE  TypeOK'
  <2>1. /\ pc' \in [Eph -> Progress]
        /\ target' \in [Eph -> Addr \cup {None}]
        /\ reply' \in [Eph -> Key \cup {None}]
    BY <1>18 DEF Restart, TypeOK, Progress
  <2>2. /\ pending' \in [Node -> [Addr -> Eph \cup {None}]]
        /\ responders' \in [Node -> [Addr -> Offer \cup {None}]]
    BY <1>18 DEF Restart, TypeOK
  <2>3. /\ sessions' \in [Node -> [Node -> Session \cup {None}]]
        /\ addrIndex' \in [Node -> [Addr -> Node \cup {None}]]
        /\ greeting' \in [Node -> Greeting \cup {None}]
    BY <1>18 DEF Restart, TypeOK
  <2>4. faults' \in [loss : Nat, dup : Nat, restart : Nat]
    BY <1>18, FaultsType DEF Restart
  <2> QED
    BY <1>18, <2>1, <2>2, <2>3, <2>4 DEF Restart, TypeOK, history, self
<1>19. CASE UNCHANGED vars
  BY <1>19 DEF vars, TypeOK, tasks, tables, history, self
<1>20. ASSUME NEW k \in Eph, Index(k)
       PROVE  TypeOK'
  <2>1. target[k] \in Addr /\ k[1] \in Node /\ reply[k].r[1] \in Node
    BY <1>20, EphHasNode DEF Index, TaskData, Key, Past
  <2>2. addrIndex' \in [Node -> [Addr -> Node \cup {None}]]
    BY <1>20, <2>1, IndexType DEF Index
  <2> QED
    BY <1>20, <2>2 DEF Index, TypeOK, Progress, history, self
<1>21. ASSUME NEW n \in Node, IndexBack(n)
       PROVE  TypeOK'
  <2>1. greeting[n] \in Greeting
    BY <1>21 DEF IndexBack, TypeOK
  <2>2. addrIndex' \in [Node -> [Addr -> Node \cup {None}]]
    BY <1>21, <2>1, IndexType DEF IndexBack, Greeting
  <2>3. [greeting[n] EXCEPT !.indexed = TRUE] \in Greeting
    BY <2>1 DEF Greeting
  <2>4. greeting' \in [Node -> Greeting \cup {None}]
    BY <1>21, <2>3 DEF IndexBack, TypeOK
  <2> QED
    BY <1>21, <2>2, <2>4 DEF IndexBack, TypeOK, tasks, history, self
<1>22. ASSUME NEW n \in Node, StunAnswers(n)
       PROVE  TypeOK'
  <2>1. stun' \in [Node -> Addr \cup {None}]
    <3>1. StunFinds[n] \subseteq Addr
      BY HandshakeAssumption DEF HandshakeAssumption
    <3>2. PICK x \in Addr : stun' = [stun EXCEPT ![n] = x]
      BY <1>22, <3>1 DEF StunAnswers
    <3>3. stun \in [Node -> Addr \cup {None}]
      BY DEF TypeOK
    <3> QED
      BY <3>2, <3>3
  <2>2. UNCHANGED <<net, tasks, tables, history, blind, faults>>
    BY <1>22 DEF StunAnswers
  <2> QED
    BY <2>1, <2>2 DEF TypeOK, tasks, tables, history
<1> QED
  BY <1>1, <1>2, <1>3, <1>4, <1>5, <1>6, <1>7, <1>8, <1>9, <1>10, <1>11, <1>12,
     <1>13, <1>14, <1>15, <1>16, <1>17, <1>18, <1>19, <1>20, <1>21, <1>22
     DEF Next, Attempt, Receive

-----------------------------------------------------------------------------
(* What the actions do to sessions *)

\* A datagram for a responder finds a well-formed one, as retain left it.
LEMMA OfferAtHand ==
  ASSUME TypeOK, NEW n \in Node, NEW m \in net, ForResponder(n, m)
  PROVE  /\ m.src \in Addr
         /\ responders[n][m.src] \in Offer
         /\ responders[n][m.src].i \in Eph
         /\ responders[n][m.src].r \in Eph
         /\ Retained(n)[m.src] = responders[n][m.src]
<1>1. m.src \in Addr
  BY DEF TypeOK, Msg
<1>2. /\ Retained(n)[m.src] = responders[n][m.src]
      /\ responders[n][m.src] \in Offer
  BY <1>1, RetainedType DEF ForResponder, TypeOK
<1> QED
  BY <1>1, <1>2 DEF Offer

\* A new session takes no other away.
LEMMA StoreKeeps ==
  ASSUME TypeOK, NEW n \in Node, NEW p \in Node, NEW i \in Eph, NEW r \in Eph,
         NEW x \in Addr, StoreSession(n, p, i, r, x)
  PROVE  /\ sessions'[n][p] # None
         /\ sessions'[n][p].i = i
         /\ sessions'[n][p].r = r
         /\ \A m, q \in Node : m # n \/ q # p => sessions'[m][q] = sessions[m][q]
         /\ \A m, q \in Node : sessions[m][q] # None => sessions'[m][q] # None
<1>1. [i |-> i, r |-> r, underlay |-> x, deaf |-> FALSE] \in Session
  BY DEF Session
<1>2. [i |-> i, r |-> r, underlay |-> x, deaf |-> FALSE] # None
  BY <1>1, NoneIsNothing
<1> QED
  BY <1>2 DEF StoreSession, TypeOK

\* It adds its transport, and nothing else, to the history.
LEMMA StoreHistory ==
  ASSUME TypeOK, NEW n \in Node, NEW p, NEW i, NEW r, NEW x, StoreSession(n, p, i, r, x)
  PROVE  \A q \in Node : \A key \in installed'[q] :
           key \in installed[q] \/ (q = n /\ key.i = i /\ key.r = r)
<1>1. installed' = [installed EXCEPT ![n] = @ \cup {[i |-> i, r |-> r]}]
  BY DEF StoreSession
<1>2. installed \in [Node -> SUBSET Key]
  BY DEF TypeOK
<1>3. /\ \A q \in Node : q # n => installed'[q] = installed[q]
      /\ installed'[n] = installed[n] \cup {[i |-> i, r |-> r]}
  BY <1>1, <1>2
<1> QED
  BY <1>3

\* Nor does a datagram that fails to decrypt.
LEMMA DecryptKeeps ==
  ASSUME TypeOK, NEW n \in Node, NEW m \in net, Decrypt(n, m)
  PROVE  \A p, q \in Node :
           /\ sessions[p][q] # None <=> sessions'[p][q] # None
           /\ sessions[p][q] # None => /\ sessions'[p][q].i = sessions[p][q].i
                                      /\ sessions'[p][q].r = sessions[p][q].r
<1>1. m.src \in Addr
  BY DEF TypeOK, Msg
<1>2. addrIndex[n][m.src] \in Node
  BY <1>1 DEF Decrypt, ForSession, TypeOK
<1>3. CASE sessions[n][addrIndex[n][m.src]] # None /\ m.type # "D"
  <2> DEFINE s == sessions[n][addrIndex[n][m.src]]
  <2>1. s \in Session
    BY <1>2, <1>3 DEF TypeOK
  <2>2. sessions' = [sessions EXCEPT ![n][addrIndex[n][m.src]] = [@ EXCEPT !.deaf = TRUE]]
    BY <1>3 DEF Decrypt
  <2>3. /\ [s EXCEPT !.deaf = TRUE] \in Session
        /\ [s EXCEPT !.deaf = TRUE].i = s.i
        /\ [s EXCEPT !.deaf = TRUE].r = s.r
    BY <2>1 DEF Session
  <2>4. [s EXCEPT !.deaf = TRUE] # None
    BY <2>3, NoneIsNothing
  <2> QED
    BY <1>2, <1>3, <2>2, <2>3, <2>4 DEF TypeOK
<1>4. CASE ~(sessions[n][addrIndex[n][m.src]] # None /\ m.type # "D")
  BY <1>4 DEF Decrypt
<1> QED
  BY <1>3, <1>4

-----------------------------------------------------------------------------
\* No action orphans an entry of pending: whatever ends a task's wait also takes
\* its entry away.
LEMMA StepPending ==
  ASSUME TypeOK, TaskData, PendingIsOwned,
         [Next]_vars
  PROVE  PendingIsOwned'
<1>1. ASSUME NEW n \in Node, NEW x \in Addr, NEW k \in Eph, Discover(n, x, k)
      PROVE  PendingIsOwned'
  <2>1. \A p \in Node, y \in Addr : pending[p][y] # k
    BY <1>1 DEF Discover, Free
  <2> QED
    BY <1>1, <2>1 DEF Discover, PendingIsOwned, TypeOK
<1>2. ASSUME NEW k \in Eph, SendA(k)
      PROVE  PendingIsOwned'
  <2>1. \A p \in Node, y \in Addr : pending[p][y] # k
    BY <1>2, NoneIsNothing DEF SendA, PendingIsOwned
  <2>2. CASE pending[k[1]][target[k]] # None
    BY <1>2, <2>1, <2>2 DEF SendA, End, PendingIsOwned, TypeOK
  <2>3. CASE pending[k[1]][target[k]] = None
    <3>1. /\ pc' = [pc EXCEPT ![k] = "waiting"]
          /\ pending' = [pending EXCEPT ![k[1]][target[k]] = k]
          /\ UNCHANGED target
      BY <1>2, <2>3 DEF SendA
    <3> QED
      BY <2>1, <3>1 DEF PendingIsOwned, TypeOK
  <2> QED
    BY <2>2, <2>3
<1>3. ASSUME NEW k \in Eph, SendC(k)
      PROVE  PendingIsOwned'
  <2>1. \A p \in Node, y \in Addr : pending[p][y] # k
    BY <1>3, NoneIsNothing DEF SendC, PendingIsOwned
  <2> QED
    BY <1>3, <2>1 DEF SendC, End, PendingIsOwned, TypeOK, tables
<1>4. ASSUME NEW k \in Eph, Install(k)
      PROVE  PendingIsOwned'
  <2>1. \A p \in Node, y \in Addr : pending[p][y] # k
    BY <1>4, NoneIsNothing DEF Install, PendingIsOwned
  <2> QED
    BY <1>4, <2>1 DEF Install, End, PendingIsOwned, TypeOK, tables
<1>5. ASSUME NEW k \in Eph, Greet(k)
      PROVE  PendingIsOwned'
  <2>1. \A p \in Node, y \in Addr : pending[p][y] # k
    BY <1>5, NoneIsNothing DEF Greet, PendingIsOwned
  <2> QED
    BY <1>5, <2>1 DEF Greet, End, PendingIsOwned, TypeOK, tables
<1>6. ASSUME NEW k \in Eph, Timeout(k)
      PROVE  PendingIsOwned'
  BY <1>6 DEF Timeout, PendingIsOwned, TypeOK, tables
<1>7. ASSUME NEW k \in Eph, Expire(k)
      PROVE  PendingIsOwned'
  <2>1. \A p \in Node, y \in Addr : pending[p][y] = k => p = k[1] /\ y = target[k]
    BY NoneIsNothing DEF PendingIsOwned
  <2> QED
    BY <1>7, <2>1 DEF Expire, End, PendingIsOwned, TypeOK
<1>8. ASSUME NEW k \in Eph, ChannelDropped(k)
      PROVE  PendingIsOwned'
  <2>1. \A p \in Node, y \in Addr : pending[p][y] # k
    BY <1>8, NoneIsNothing DEF ChannelDropped, PendingIsOwned
  <2> QED
    BY <1>8, <2>1 DEF ChannelDropped, End, PendingIsOwned, TypeOK, tables
<1>9. ASSUME NEW k \in Eph, SendFails(k)
      PROVE  PendingIsOwned'
  <2>1. \A p \in Node, y \in Addr : pending[p][y] # k
    BY <1>9, NoneIsNothing DEF SendFails, PendingIsOwned
  <2>2. End(k) /\ UNCHANGED tables
    BY <1>9 DEF SendFails
  <2> QED
    BY <2>1, <2>2 DEF End, PendingIsOwned, TypeOK, tables
<1>10. ASSUME NEW n \in Node, NEW m \in net, DispatchB(n, m)
       PROVE  PendingIsOwned'
  <2>1. m.src \in Addr
    BY DEF TypeOK, Msg
  <2>2. \A p \in Node, y \in Addr :
          pending[p][y] = pending[n][m.src] /\ pending[p][y] # None => p = n /\ y = m.src
    BY <2>1 DEF PendingIsOwned
  <2> QED
    BY <1>10, <2>1, <2>2 DEF DispatchB, ForInitiator, PendingIsOwned, TypeOK
<1>11. ASSUME NEW n \in Node, NEW m \in net, FinishC(n, m)
       PROVE  PendingIsOwned'
  BY <1>11 DEF FinishC, tasks, tables, history, PendingIsOwned
<1>12. ASSUME NEW n \in Node, GreetBack(n)
       PROVE  PendingIsOwned'
  BY <1>12 DEF GreetBack, tasks, tables, history, PendingIsOwned
<1>13. ASSUME NEW n \in Node, NEW m \in net, Decrypt(n, m)
       PROVE  PendingIsOwned'
  BY <1>13 DEF Decrypt, tasks, tables, history, PendingIsOwned
<1>14. ASSUME NEW n \in Node, NEW m \in net, NEW e \in Eph, AcceptA(n, m, e)
       PROVE  PendingIsOwned'
  BY <1>14 DEF AcceptA, tasks, tables, history, PendingIsOwned
<1>15. ASSUME NEW n \in Node, NEW m \in net, Ignore(n, m)
       PROVE  PendingIsOwned'
  BY <1>15 DEF Ignore, tasks, tables, history, PendingIsOwned
<1>16. ASSUME NEW n \in Node, NEW x \in Addr, Stale(n, x)
       PROVE  PendingIsOwned'
  BY <1>16 DEF Stale, tasks, tables, history, PendingIsOwned
<1>17. ASSUME NEW m \in net, Lose(m)
       PROVE  PendingIsOwned'
  BY <1>17 DEF Lose, tasks, tables, history, PendingIsOwned
<1>18. ASSUME NEW n \in Node, Restart(n)
       PROVE  PendingIsOwned'
  BY <1>18 DEF Restart, PendingIsOwned, TypeOK
<1>19. CASE UNCHANGED vars
  BY <1>19 DEF vars, tasks, tables, history, PendingIsOwned
<1>20. ASSUME NEW k \in Eph, Index(k)
       PROVE  PendingIsOwned'
  <2>1. \A p \in Node, y \in Addr : pending[p][y] # k
    BY <1>20, NoneIsNothing DEF Index, PendingIsOwned
  <2> QED
    BY <1>20, <2>1 DEF Index, PendingIsOwned, TypeOK
<1>21. ASSUME NEW n \in Node, IndexBack(n)
       PROVE  PendingIsOwned'
  BY <1>21 DEF IndexBack, tasks, PendingIsOwned
<1>22. ASSUME NEW n \in Node, StunAnswers(n)
       PROVE  PendingIsOwned'
  BY <1>22 DEF StunAnswers, tasks, tables, PendingIsOwned
<1> QED
  BY <1>1, <1>2, <1>3, <1>4, <1>5, <1>6, <1>7, <1>8, <1>9, <1>10, <1>11, <1>12,
     <1>13, <1>14, <1>15, <1>16, <1>17, <1>18, <1>19, <1>20, <1>21, <1>22
     DEF Next, Attempt, Receive

\* A task has what its next step needs, and no session it relies on goes away
\* under it.
LEMMA StepTaskData ==
  ASSUME TypeOK, TaskData, MessagesNameResponder,
         [Next]_vars
  PROVE  TaskData'
<1>1. ASSUME NEW n \in Node, NEW x \in Addr, NEW k \in Eph, Discover(n, x, k)
      PROVE  TaskData'
  BY <1>1 DEF Discover, tasks, tables, history, TaskData, TypeOK, Past
<1>2. ASSUME NEW k \in Eph, SendA(k)
      PROVE  TaskData'
  <2>1. /\ \A j \in Eph \ {k} : /\ pc'[j] = pc[j]
                              /\ target'[j] = target[j]
                              /\ reply'[j] = reply[j]
        /\ pc'[k] = "done" \/ (pc'[k] = "waiting" /\ target'[k] = target[k])
        /\ UNCHANGED sessions
    BY <1>2 DEF SendA, End, TypeOK
  <2>2. pc[k] = "spawned"
    BY <1>2 DEF SendA
  <2> QED
    BY <2>1, <2>2 DEF TaskData, Past
<1>3. ASSUME NEW k \in Eph, SendC(k)
      PROVE  TaskData'
  <2>1. CASE reply[k].i = k /\ reply[k].r[1] # k[1]
    BY <1>3, <2>1 DEF SendC, TaskData, TypeOK, tables, Past
  <2>2. CASE ~(reply[k].i = k /\ reply[k].r[1] # k[1])
    <3>1. End(k)
      BY <1>3, <2>2 DEF SendC
    <3> QED
      BY <1>3, <3>1 DEF SendC, End, TaskData, TypeOK, tables, Past
  <2> QED
    BY <2>1, <2>2
<1>4. ASSUME NEW k \in Eph, Install(k)
      PROVE  TaskData'
  <2>1. /\ reply[k] \in Key /\ reply[k].r \in Eph /\ target[k] \in Addr
        /\ k[1] \in Node /\ reply[k].r[1] \in Node
    BY <1>4, EphHasNode DEF Install, TaskData, Key, Past
  <2>2. StoreSession(k[1], reply[k].r[1], k, reply[k].r, target[k])
    BY <1>4 DEF Install
  <2>3. /\ sessions'[k[1]][reply[k].r[1]] # None
        /\ \A p, q \in Node : sessions[p][q] # None => sessions'[p][q] # None
    BY <2>1, <2>2, StoreKeeps
  <2> QED
    BY <1>4, <2>3, EphHasNode DEF Install, TaskData, TypeOK, Key, Past
<1>5. ASSUME NEW k \in Eph, Greet(k)
      PROVE  TaskData'
  BY <1>5 DEF Greet, End, TaskData, TypeOK, tables, history, Past
<1>6. ASSUME NEW k \in Eph, Timeout(k)
      PROVE  TaskData'
  BY <1>6 DEF Timeout, tasks, tables, history, TaskData, TypeOK, Past
<1>7. ASSUME NEW k \in Eph, Expire(k)
      PROVE  TaskData'
  BY <1>7 DEF Expire, End, TaskData, TypeOK, tables, history, Past
<1>8. ASSUME NEW k \in Eph, ChannelDropped(k)
      PROVE  TaskData'
  BY <1>8 DEF ChannelDropped, End, TaskData, TypeOK, tables, history, Past
<1>9. ASSUME NEW k \in Eph, SendFails(k)
      PROVE  TaskData'
  <2>1. End(k) /\ UNCHANGED tables
    BY <1>9 DEF SendFails
  <2> QED
    BY <2>1 DEF End, TaskData, TypeOK, tables, Past
<1>10. ASSUME NEW n \in Node, NEW m \in net, DispatchB(n, m)
       PROVE  TaskData'
  <2>1. m \in Msg /\ m.type = "B" /\ m.r \in Eph
    BY <1>10 DEF DispatchB, ForInitiator, TypeOK, MessagesNameResponder
  <2>2. [i |-> m.i, r |-> m.r] \in Key
    BY <2>1 DEF Msg, Key
  <2> QED
    BY <1>10, <2>2 DEF DispatchB, TaskData, TypeOK, Past
<1>11. ASSUME NEW n \in Node, NEW m \in net, FinishC(n, m)
       PROVE  TaskData'
  <2>1. CASE Completes(m, responders[n][m.src])
    <3>1. /\ StoreSession(n, responders[n][m.src].i[1], responders[n][m.src].i,
                           responders[n][m.src].r, m.src)
      BY <1>11, <2>1 DEF FinishC
    <3>2. /\ responders[n][m.src].i \in Eph /\ responders[n][m.src].r \in Eph
          /\ m.src \in Addr
      BY <1>11, OfferAtHand DEF FinishC
    <3>3. \A p, q \in Node : sessions[p][q] # None => sessions'[p][q] # None
      BY <3>1, <3>2, EphHasNode, StoreKeeps
    <3> QED
      BY <1>11, <3>3, EphHasNode DEF FinishC, TaskData, tasks, Key, Past
  <2>2. CASE ~Completes(m, responders[n][m.src])
    BY <1>11, <2>2 DEF FinishC, TaskData, tasks, Past
  <2> QED
    BY <2>1, <2>2
<1>12. ASSUME NEW n \in Node, GreetBack(n)
       PROVE  TaskData'
  BY <1>12 DEF GreetBack, tasks, tables, history, TaskData, TypeOK, Past
<1>13. ASSUME NEW n \in Node, NEW m \in net, Decrypt(n, m)
       PROVE  TaskData'
  <2>1. \A p, q \in Node : sessions[p][q] # None => sessions'[p][q] # None
    BY <1>13, DecryptKeeps
  <2> QED
    BY <1>13, <2>1, EphHasNode DEF Decrypt, TaskData, tasks, Key, Past
<1>14. ASSUME NEW n \in Node, NEW m \in net, NEW e \in Eph, AcceptA(n, m, e)
       PROVE  TaskData'
  BY <1>14 DEF AcceptA, tasks, tables, history, TaskData, TypeOK, Past
<1>15. ASSUME NEW n \in Node, NEW m \in net, Ignore(n, m)
       PROVE  TaskData'
  BY <1>15 DEF Ignore, tasks, tables, history, TaskData, TypeOK, Past
<1>16. ASSUME NEW n \in Node, NEW x \in Addr, Stale(n, x)
       PROVE  TaskData'
  BY <1>16 DEF Stale, tasks, tables, history, TaskData, TypeOK, Past
<1>17. ASSUME NEW m \in net, Lose(m)
       PROVE  TaskData'
  BY <1>17 DEF Lose, tasks, tables, history, TaskData, TypeOK, Past
<1>18. ASSUME NEW n \in Node, Restart(n)
       PROVE  TaskData'
  BY <1>18 DEF Restart, tasks, tables, history, TaskData, TypeOK, Past
<1>19. CASE UNCHANGED vars
  BY <1>19 DEF vars, tasks, tables, history, TaskData
<1>20. ASSUME NEW k \in Eph, Index(k)
       PROVE  TaskData'
  BY <1>20 DEF Index, TaskData, TypeOK, Past
<1>21. ASSUME NEW n \in Node, IndexBack(n)
       PROVE  TaskData'
  BY <1>21 DEF IndexBack, tasks, TaskData
<1>22. ASSUME NEW n \in Node, StunAnswers(n)
       PROVE  TaskData'
  BY <1>22 DEF StunAnswers, tasks, tables, TaskData
<1> QED
  BY <1>1, <1>2, <1>3, <1>4, <1>5, <1>6, <1>7, <1>8, <1>9, <1>10, <1>11, <1>12,
     <1>13, <1>14, <1>15, <1>16, <1>17, <1>18, <1>19, <1>20, <1>21, <1>22
     DEF Next, Attempt, Receive

\* The session the inbound loop is about to greet on stays until it does.
LEMMA StepGreeting ==
  ASSUME TypeOK, TaskData, GreetingHasSession,
         [Next]_vars
  PROVE  GreetingHasSession'
<1>1. ASSUME NEW n \in Node, NEW x \in Addr, NEW k \in Eph, Discover(n, x, k)
      PROVE  GreetingHasSession'
  BY <1>1 DEF Discover, tasks, tables, history, GreetingHasSession
<1>2. ASSUME NEW k \in Eph, SendA(k)
      PROVE  GreetingHasSession'
  BY <1>2 DEF SendA, tasks, tables, history, GreetingHasSession
<1>3. ASSUME NEW k \in Eph, SendC(k)
      PROVE  GreetingHasSession'
  BY <1>3 DEF SendC, tasks, tables, history, GreetingHasSession
<1>4. ASSUME NEW k \in Eph, Install(k)
      PROVE  GreetingHasSession'
  <2>1. /\ reply[k].r \in Eph /\ target[k] \in Addr
        /\ k[1] \in Node /\ reply[k].r[1] \in Node
    BY <1>4, EphHasNode DEF Install, TaskData, Key, Past
  <2>2. \A p, q \in Node : sessions[p][q] # None => sessions'[p][q] # None
    BY <1>4, <2>1, StoreKeeps DEF Install
  <2> QED
    BY <1>4, <2>2 DEF Install, GreetingHasSession, TypeOK, Greeting
<1>5. ASSUME NEW k \in Eph, Greet(k)
      PROVE  GreetingHasSession'
  BY <1>5 DEF Greet, tasks, tables, history, GreetingHasSession
<1>6. ASSUME NEW k \in Eph, Timeout(k)
      PROVE  GreetingHasSession'
  BY <1>6 DEF Timeout, tasks, tables, history, GreetingHasSession
<1>7. ASSUME NEW k \in Eph, Expire(k)
      PROVE  GreetingHasSession'
  BY <1>7 DEF Expire, tasks, tables, history, GreetingHasSession
<1>8. ASSUME NEW k \in Eph, ChannelDropped(k)
      PROVE  GreetingHasSession'
  BY <1>8 DEF ChannelDropped, tasks, tables, history, GreetingHasSession
<1>9. ASSUME NEW k \in Eph, SendFails(k)
      PROVE  GreetingHasSession'
  BY <1>9 DEF SendFails, tasks, tables, history, GreetingHasSession
<1>10. ASSUME NEW n \in Node, NEW m \in net, DispatchB(n, m)
       PROVE  GreetingHasSession'
  BY <1>10 DEF DispatchB, tasks, tables, history, GreetingHasSession
<1>11. ASSUME NEW n \in Node, NEW m \in net, FinishC(n, m)
       PROVE  GreetingHasSession'
  <2>1. CASE Completes(m, responders[n][m.src])
    <3> DEFINE o == responders[n][m.src]
    <3>1. o.i \in Eph /\ o.i[1] \in Node /\ o.r \in Eph /\ m.src \in Addr
      BY <1>11, OfferAtHand, EphHasNode DEF FinishC
    <3>2. /\ StoreSession(n, o.i[1], o.i, o.r, m.src)
          /\ greeting' = [greeting EXCEPT ![n] =
                           [peer |-> o.i[1], to |-> m.src, indexed |-> FALSE]]
      BY <1>11, <2>1 DEF FinishC
    <3>3. /\ sessions'[n][o.i[1]] # None
          /\ \A p, q \in Node : sessions[p][q] # None => sessions'[p][q] # None
      BY <3>1, <3>2, StoreKeeps
    <3> QED
      BY <3>1, <3>2, <3>3 DEF GreetingHasSession, TypeOK, Greeting
  <2>2. CASE ~Completes(m, responders[n][m.src])
    BY <1>11, <2>2 DEF FinishC, GreetingHasSession
  <2> QED
    BY <2>1, <2>2
<1>12. ASSUME NEW n \in Node, GreetBack(n)
       PROVE  GreetingHasSession'
  BY <1>12 DEF GreetBack, GreetingHasSession, TypeOK
<1>13. ASSUME NEW n \in Node, NEW m \in net, Decrypt(n, m)
       PROVE  GreetingHasSession'
  <2>1. \A p, q \in Node : sessions[p][q] # None => sessions'[p][q] # None
    BY <1>13, DecryptKeeps
  <2> QED
    BY <1>13, <2>1 DEF Decrypt, GreetingHasSession, TypeOK, Greeting
<1>14. ASSUME NEW n \in Node, NEW m \in net, NEW e \in Eph, AcceptA(n, m, e)
       PROVE  GreetingHasSession'
  BY <1>14 DEF AcceptA, tasks, tables, history, GreetingHasSession
<1>15. ASSUME NEW n \in Node, NEW m \in net, Ignore(n, m)
       PROVE  GreetingHasSession'
  BY <1>15 DEF Ignore, tasks, tables, history, GreetingHasSession
<1>16. ASSUME NEW n \in Node, NEW x \in Addr, Stale(n, x)
       PROVE  GreetingHasSession'
  BY <1>16 DEF Stale, tasks, tables, history, GreetingHasSession
<1>17. ASSUME NEW m \in net, Lose(m)
       PROVE  GreetingHasSession'
  BY <1>17 DEF Lose, tasks, tables, history, GreetingHasSession
<1>18. ASSUME NEW n \in Node, Restart(n)
       PROVE  GreetingHasSession'
  BY <1>18 DEF Restart, GreetingHasSession, TypeOK
<1>19. CASE UNCHANGED vars
  BY <1>19 DEF vars, tasks, tables, history, GreetingHasSession
<1>20. ASSUME NEW k \in Eph, Index(k)
       PROVE  GreetingHasSession'
  BY <1>20 DEF Index, GreetingHasSession
<1>21. ASSUME NEW n \in Node, IndexBack(n)
       PROVE  GreetingHasSession'
  <2>1. greeting[n] \in Greeting
    BY <1>21 DEF IndexBack, TypeOK
  <2>2. [greeting[n] EXCEPT !.indexed = TRUE].peer = greeting[n].peer
    BY <2>1 DEF Greeting
  <2> QED
    BY <1>21, <2>2 DEF IndexBack, GreetingHasSession, TypeOK
<1>22. ASSUME NEW n \in Node, StunAnswers(n)
       PROVE  GreetingHasSession'
  BY <1>22 DEF StunAnswers, tables, GreetingHasSession
<1> QED
  BY <1>1, <1>2, <1>3, <1>4, <1>5, <1>6, <1>7, <1>8, <1>9, <1>10, <1>11, <1>12,
     <1>13, <1>14, <1>15, <1>16, <1>17, <1>18, <1>19, <1>20, <1>21, <1>22
     DEF Next, Attempt, Receive

\* Every message B, C and D that is sent names a responder.
LEMMA StepMessages ==
  ASSUME TypeOK, TaskData, GreetingHasSession, MessagesNameResponder,
         [Next]_vars
  PROVE  MessagesNameResponder'
<1>1. ASSUME NEW n \in Node, NEW x \in Addr, NEW k \in Eph, Discover(n, x, k)
      PROVE  MessagesNameResponder'
  BY <1>1 DEF Discover, MessagesNameResponder
<1>2. ASSUME NEW k \in Eph, SendA(k)
      PROVE  MessagesNameResponder'
  BY <1>2 DEF SendA, Packet, MessagesNameResponder
<1>3. ASSUME NEW k \in Eph, SendC(k)
      PROVE  MessagesNameResponder'
  BY <1>3 DEF SendC, Packet, MessagesNameResponder, TaskData, Key, Past
<1>4. ASSUME NEW k \in Eph, Install(k)
      PROVE  MessagesNameResponder'
  BY <1>4 DEF Install, MessagesNameResponder
<1>5. ASSUME NEW k \in Eph, Greet(k)
      PROVE  MessagesNameResponder'
  <2>1. /\ k[1] \in Node /\ reply[k].r[1] \in Node
        /\ sessions[k[1]][reply[k].r[1]] # None
    BY <1>5, EphHasNode DEF Greet, TaskData, Key, Past
  <2>2. sessions[k[1]][reply[k].r[1]].r \in Eph
    BY <2>1 DEF TypeOK, Session
  <2> QED
    BY <1>5, <2>2 DEF Greet, SessionInit, Packet, MessagesNameResponder
<1>6. ASSUME NEW k \in Eph, Timeout(k)
      PROVE  MessagesNameResponder'
  BY <1>6 DEF Timeout, MessagesNameResponder
<1>7. ASSUME NEW k \in Eph, Expire(k)
      PROVE  MessagesNameResponder'
  BY <1>7 DEF Expire, MessagesNameResponder
<1>8. ASSUME NEW k \in Eph, ChannelDropped(k)
      PROVE  MessagesNameResponder'
  BY <1>8 DEF ChannelDropped, MessagesNameResponder
<1>9. ASSUME NEW k \in Eph, SendFails(k)
      PROVE  MessagesNameResponder'
  BY <1>9 DEF SendFails, MessagesNameResponder
<1>10. ASSUME NEW n \in Node, NEW m \in net, DispatchB(n, m)
       PROVE  MessagesNameResponder'
  BY <1>10 DEF DispatchB, Exchange, MessagesNameResponder
<1>11. ASSUME NEW n \in Node, NEW m \in net, FinishC(n, m)
       PROVE  MessagesNameResponder'
  BY <1>11 DEF FinishC, Exchange, MessagesNameResponder
<1>12. ASSUME NEW n \in Node, GreetBack(n)
       PROVE  MessagesNameResponder'
  <2>1. greeting[n].peer \in Node /\ sessions[n][greeting[n].peer] # None
    BY <1>12 DEF GreetBack, GreetingHasSession, TypeOK, Greeting
  <2>2. sessions[n][greeting[n].peer].r \in Eph
    BY <2>1 DEF TypeOK, Session
  <2> QED
    BY <1>12, <2>2 DEF GreetBack, SessionInit, Packet, MessagesNameResponder
<1>13. ASSUME NEW n \in Node, NEW m \in net, Decrypt(n, m)
       PROVE  MessagesNameResponder'
  BY <1>13 DEF Decrypt, Exchange, MessagesNameResponder
<1>14. ASSUME NEW n \in Node, NEW m \in net, NEW e \in Eph, AcceptA(n, m, e)
       PROVE  MessagesNameResponder'
  BY <1>14 DEF AcceptA, Exchange, Packet, MessagesNameResponder
<1>15. ASSUME NEW n \in Node, NEW m \in net, Ignore(n, m)
       PROVE  MessagesNameResponder'
  BY <1>15 DEF Ignore, Exchange, MessagesNameResponder
<1>16. ASSUME NEW n \in Node, NEW x \in Addr, Stale(n, x)
       PROVE  MessagesNameResponder'
  BY <1>16 DEF Stale, MessagesNameResponder
<1>17. ASSUME NEW m \in net, Lose(m)
       PROVE  MessagesNameResponder'
  BY <1>17 DEF Lose, MessagesNameResponder
<1>18. ASSUME NEW n \in Node, Restart(n)
       PROVE  MessagesNameResponder'
  BY <1>18 DEF Restart, MessagesNameResponder
<1>19. CASE UNCHANGED vars
  BY <1>19 DEF vars, MessagesNameResponder
<1>20. ASSUME NEW k \in Eph, Index(k)
       PROVE  MessagesNameResponder'
  BY <1>20 DEF Index, MessagesNameResponder
<1>21. ASSUME NEW n \in Node, IndexBack(n)
       PROVE  MessagesNameResponder'
  BY <1>21 DEF IndexBack, MessagesNameResponder
<1>22. ASSUME NEW n \in Node, StunAnswers(n)
       PROVE  MessagesNameResponder'
  BY <1>22 DEF StunAnswers, MessagesNameResponder
<1> QED
  BY <1>1, <1>2, <1>3, <1>4, <1>5, <1>6, <1>7, <1>8, <1>9, <1>10, <1>11, <1>12,
     <1>13, <1>14, <1>15, <1>16, <1>17, <1>18, <1>19, <1>20, <1>21, <1>22
     DEF Next, Attempt, Receive

\* A session is filed under the identity the handshake authenticated.
LEMMA StepKeyed ==
  ASSUME TypeOK, TaskData, RespondersAreFresh, SessionsAreKeyed,
         [Next]_vars
  PROVE  SessionsAreKeyed'
<1>1. ASSUME NEW n \in Node, NEW x \in Addr, NEW k \in Eph, Discover(n, x, k)
      PROVE  SessionsAreKeyed'
  BY <1>1 DEF Discover, tables, SessionsAreKeyed
<1>2. ASSUME NEW k \in Eph, SendA(k)
      PROVE  SessionsAreKeyed'
  BY <1>2 DEF SendA, tables, SessionsAreKeyed
<1>3. ASSUME NEW k \in Eph, SendC(k)
      PROVE  SessionsAreKeyed'
  BY <1>3 DEF SendC, tables, SessionsAreKeyed
<1>4. ASSUME NEW k \in Eph, Install(k)
      PROVE  SessionsAreKeyed'
  <2>1. /\ reply[k].r \in Eph /\ target[k] \in Addr
        /\ k[1] \in Node /\ reply[k].r[1] \in Node
    BY <1>4, EphHasNode DEF Install, TaskData, Key, Past
  <2>2. /\ sessions'[k[1]][reply[k].r[1]].i = k
        /\ sessions'[k[1]][reply[k].r[1]].r = reply[k].r
        /\ \A p, q \in Node :
             p # k[1] \/ q # reply[k].r[1] => sessions'[p][q] = sessions[p][q]
    BY <1>4, <2>1, StoreKeeps DEF Install
  <2> QED
    BY <2>2 DEF SessionsAreKeyed
<1>5. ASSUME NEW k \in Eph, Greet(k)
      PROVE  SessionsAreKeyed'
  BY <1>5 DEF Greet, tables, SessionsAreKeyed
<1>6. ASSUME NEW k \in Eph, Timeout(k)
      PROVE  SessionsAreKeyed'
  BY <1>6 DEF Timeout, tables, SessionsAreKeyed
<1>7. ASSUME NEW k \in Eph, Expire(k)
      PROVE  SessionsAreKeyed'
  BY <1>7 DEF Expire, tables, SessionsAreKeyed
<1>8. ASSUME NEW k \in Eph, ChannelDropped(k)
      PROVE  SessionsAreKeyed'
  BY <1>8 DEF ChannelDropped, tables, SessionsAreKeyed
<1>9. ASSUME NEW k \in Eph, SendFails(k)
      PROVE  SessionsAreKeyed'
  BY <1>9 DEF SendFails, tables, SessionsAreKeyed
<1>10. ASSUME NEW n \in Node, NEW m \in net, DispatchB(n, m)
       PROVE  SessionsAreKeyed'
  BY <1>10 DEF DispatchB, tables, SessionsAreKeyed
<1>11. ASSUME NEW n \in Node, NEW m \in net, FinishC(n, m)
       PROVE  SessionsAreKeyed'
  <2>1. CASE Completes(m, responders[n][m.src])
    <3> DEFINE o == responders[n][m.src]
    <3>1. o.i \in Eph /\ o.i[1] \in Node /\ o.r \in Eph /\ m.src \in Addr
      BY <1>11, OfferAtHand, EphHasNode DEF FinishC
    <3>2. StoreSession(n, o.i[1], o.i, o.r, m.src)
      BY <1>11, <2>1 DEF FinishC
    <3>3. /\ sessions'[n][o.i[1]].i = o.i
          /\ sessions'[n][o.i[1]].r = o.r
          /\ \A p, q \in Node :
               p # n \/ q # o.i[1] => sessions'[p][q] = sessions[p][q]
      BY <3>1, <3>2, StoreKeeps
    <3>4. o.r[1] = n
      BY <1>11, OfferAtHand, NoneIsNothing DEF FinishC, RespondersAreFresh
    <3> QED
      BY <3>3, <3>4 DEF SessionsAreKeyed
  <2>2. CASE ~Completes(m, responders[n][m.src])
    BY <1>11, <2>2 DEF FinishC, SessionsAreKeyed
  <2> QED
    BY <2>1, <2>2
<1>12. ASSUME NEW n \in Node, GreetBack(n)
       PROVE  SessionsAreKeyed'
  BY <1>12 DEF GreetBack, tables, SessionsAreKeyed
<1>13. ASSUME NEW n \in Node, NEW m \in net, Decrypt(n, m)
       PROVE  SessionsAreKeyed'
  BY <1>13, DecryptKeeps DEF SessionsAreKeyed
<1>14. ASSUME NEW n \in Node, NEW m \in net, NEW e \in Eph, AcceptA(n, m, e)
       PROVE  SessionsAreKeyed'
  BY <1>14 DEF AcceptA, tables, SessionsAreKeyed
<1>15. ASSUME NEW n \in Node, NEW m \in net, Ignore(n, m)
       PROVE  SessionsAreKeyed'
  BY <1>15 DEF Ignore, tables, SessionsAreKeyed
<1>16. ASSUME NEW n \in Node, NEW x \in Addr, Stale(n, x)
       PROVE  SessionsAreKeyed'
  BY <1>16 DEF Stale, tables, SessionsAreKeyed
<1>17. ASSUME NEW m \in net, Lose(m)
       PROVE  SessionsAreKeyed'
  BY <1>17 DEF Lose, tables, SessionsAreKeyed
<1>18. ASSUME NEW n \in Node, Restart(n)
       PROVE  SessionsAreKeyed'
  BY <1>18 DEF Restart, SessionsAreKeyed, TypeOK
<1>19. CASE UNCHANGED vars
  BY <1>19 DEF vars, tables, SessionsAreKeyed
<1>20. ASSUME NEW k \in Eph, Index(k)
       PROVE  SessionsAreKeyed'
  BY <1>20 DEF Index, SessionsAreKeyed
<1>21. ASSUME NEW n \in Node, IndexBack(n)
       PROVE  SessionsAreKeyed'
  BY <1>21 DEF IndexBack, SessionsAreKeyed
<1>22. ASSUME NEW n \in Node, StunAnswers(n)
       PROVE  SessionsAreKeyed'
  BY <1>22 DEF StunAnswers, tables, SessionsAreKeyed
<1> QED
  BY <1>1, <1>2, <1>3, <1>4, <1>5, <1>6, <1>7, <1>8, <1>9, <1>10, <1>11, <1>12,
     <1>13, <1>14, <1>15, <1>16, <1>17, <1>18, <1>19, <1>20, <1>21, <1>22
     DEF Next, Attempt, Receive

-----------------------------------------------------------------------------
(* Responders *)

\* Pruning is idempotent: a responder that is filed or taken is the only
\* difference the next prune can see.
LEMMA RetainedAfter ==
  ASSUME TypeOK, NEW n \in Node, NEW x \in Addr, NEW o \in Offer \cup {None},
         o # None => o.stale = FALSE,
         responders' = [responders EXCEPT ![n] = [Retained(n) EXCEPT ![x] = o]]
  PROVE  /\ \A p \in Node, y \in Addr :
              p # n \/ y # x => Retained(p)'[y] = Retained(p)[y]
         /\ Retained(n)'[x] = o
<1>1. /\ responders \in [Node -> [Addr -> Offer \cup {None}]]
      /\ Retained(n) \in [Addr -> Offer \cup {None}]
  BY RetainedType DEF TypeOK
<1>2. /\ \A p \in Node : p # n => responders'[p] = responders[p]
      /\ responders'[n][x] = o
      /\ \A y \in Addr : y # x => responders'[n][y] = Retained(n)[y]
  BY <1>1
<1>3. \A p \in Node, y \in Addr :
        p # n \/ y # x => Retained(p)'[y] = Retained(p)[y]
  BY <1>2 DEF Retained
<1>4. Retained(n)'[x] = o
  BY <1>2 DEF Retained
<1> QED
  BY <1>3, <1>4

\* Freshness of responders survives whatever takes responders and history
\* away.
LEMMA ShrinkKeepsFresh ==
  ASSUME RespondersAreFresh,
         \A n \in Node : installed'[n] \subseteq installed[n],
         \A n \in Node, x \in Addr :
           Retained(n)'[x] = Retained(n)[x] \/ Retained(n)'[x] = None
  PROVE  RespondersAreFresh'
BY DEF RespondersAreFresh

\* So does a step that leaves the table of responders alone.
LEMMA QuietKeepsFresh ==
  ASSUME RespondersAreFresh, UNCHANGED responders,
         \A n \in Node : installed'[n] \subseteq installed[n]
  PROVE  RespondersAreFresh'
<1>1. \A n \in Node : Retained(n)' = Retained(n)
  BY DEF Retained
<1> QED
  BY <1>1 DEF RespondersAreFresh

\* So does one that only prunes it.
LEMMA PruneKeepsFresh ==
  ASSUME TypeOK, RespondersAreFresh, NEW n \in Node,
         responders' = [responders EXCEPT ![n] = Retained(n)],
         UNCHANGED installed
  PROVE  RespondersAreFresh'
<1>1. \A p \in Node, y \in Addr : Retained(p)'[y] = Retained(p)[y]
  BY RetainedType DEF Retained, TypeOK
<1> QED
  BY <1>1, ShrinkKeepsFresh

\* A waiting responder has its ephemeral to itself and has produced nothing.
LEMMA StepResponders ==
  ASSUME TypeOK, TaskData, RespondersAreFresh,
         [Next]_vars
  PROVE  RespondersAreFresh'
<1>1. ASSUME NEW n \in Node, NEW x \in Addr, NEW k \in Eph, Discover(n, x, k)
      PROVE  RespondersAreFresh'
  BY <1>1, ForgetType, QuietKeepsFresh DEF Discover
<1>2. ASSUME NEW k \in Eph, SendA(k)
      PROVE  RespondersAreFresh'
  BY <1>2, QuietKeepsFresh DEF SendA, tables, history
<1>3. ASSUME NEW k \in Eph, SendC(k)
      PROVE  RespondersAreFresh'
  BY <1>3, QuietKeepsFresh DEF SendC, tables, history
<1>4. ASSUME NEW k \in Eph, Install(k)
      PROVE  RespondersAreFresh'
  <2>1. reply[k].r[1] # k[1]
    BY <1>4 DEF Install, TaskData, Past
  <2>2. /\ UNCHANGED responders
        /\ StoreSession(k[1], reply[k].r[1], k, reply[k].r, target[k])
    BY <1>4 DEF Install
  <2>3. \A n \in Node : Retained(n)' = Retained(n)
    BY <2>2 DEF Retained
  <2>4. \A n \in Node : \A key \in installed'[n] :
          key \in installed[n] \/ (n = k[1] /\ key.r = reply[k].r)
    BY <2>2, EphHasNode, StoreHistory
  <2> QED
    BY <2>1, <2>3, <2>4 DEF RespondersAreFresh
<1>5. ASSUME NEW k \in Eph, Greet(k)
      PROVE  RespondersAreFresh'
  BY <1>5, QuietKeepsFresh DEF Greet, tables, history
<1>6. ASSUME NEW k \in Eph, Timeout(k)
      PROVE  RespondersAreFresh'
  BY <1>6, QuietKeepsFresh DEF Timeout, tables, history
<1>7. ASSUME NEW k \in Eph, Expire(k)
      PROVE  RespondersAreFresh'
  BY <1>7, QuietKeepsFresh DEF Expire, tables, history
<1>8. ASSUME NEW k \in Eph, ChannelDropped(k)
      PROVE  RespondersAreFresh'
  BY <1>8, QuietKeepsFresh DEF ChannelDropped, tables, history
<1>9. ASSUME NEW k \in Eph, SendFails(k)
      PROVE  RespondersAreFresh'
  <2>1. UNCHANGED <<tables, history>>
    BY <1>9 DEF SendFails
  <2> QED
    BY <2>1, QuietKeepsFresh DEF tables, history
<1>10. ASSUME NEW n \in Node, NEW m \in net, DispatchB(n, m)
       PROVE  RespondersAreFresh'
  BY <1>10, PruneKeepsFresh DEF DispatchB, history
<1>11. ASSUME NEW n \in Node, NEW m \in net, FinishC(n, m)
       PROVE  RespondersAreFresh'
  <2> DEFINE o == responders[n][m.src]
  <2>1. /\ o \in Offer /\ m.src \in Addr /\ Retained(n)[m.src] = o
        /\ o # None
    BY <1>11, OfferAtHand, NoneIsNothing DEF FinishC
  <2>2. /\ \A p \in Node, y \in Addr :
             p # n \/ y # m.src => Retained(p)'[y] = Retained(p)[y]
        /\ Retained(n)'[m.src] = None
    BY <1>11, <2>1, RetainedAfter DEF FinishC
  <2>3. \A p \in Node : \A key \in installed'[p] :
          key \in installed[p] \/ (p = n /\ key.r = o.r)
    <3>1. CASE Completes(m, o)
      <4>1. StoreSession(n, o.i[1], o.i, o.r, m.src)
        BY <1>11, <3>1 DEF FinishC
      <4> QED
        BY <4>1, StoreHistory
    <3>2. CASE ~Completes(m, o)
      BY <1>11, <3>2 DEF FinishC, history
    <3> QED
      BY <3>1, <3>2
  <2>4. \A y \in Addr : y # m.src /\ Retained(n)[y] # None => Retained(n)[y].r # o.r
    BY <2>1 DEF RespondersAreFresh
  <2> QED
    BY <2>2, <2>3, <2>4 DEF RespondersAreFresh
<1>12. ASSUME NEW n \in Node, GreetBack(n)
       PROVE  RespondersAreFresh'
  BY <1>12, QuietKeepsFresh DEF GreetBack, tables, history
<1>13. ASSUME NEW n \in Node, NEW m \in net, Decrypt(n, m)
       PROVE  RespondersAreFresh'
  BY <1>13, PruneKeepsFresh DEF Decrypt, history
<1>14. ASSUME NEW n \in Node, NEW m \in net, NEW e \in Eph, AcceptA(n, m, e)
       PROVE  RespondersAreFresh'
  <2> DEFINE o == [i |-> m.i, r |-> e, stale |-> FALSE]
  <2>1. m.src \in Addr /\ o \in Offer
    BY DEF TypeOK, Msg, Offer
  <2>2. responders' = [responders EXCEPT ![n] = [Retained(n) EXCEPT ![m.src] = o]]
    BY <1>14 DEF AcceptA
  <2>3. o.r = e /\ o.stale = FALSE /\ e[1] = n
    BY <1>14 DEF AcceptA
  <2> HIDE DEF o
  <2>4. /\ \A p \in Node, y \in Addr :
             p # n \/ y # m.src => Retained(p)'[y] = Retained(p)[y]
        /\ Retained(n)'[m.src] = o
    <3>1. o \in Offer \cup {None}
      BY <2>1
    <3>2. o # None => o.stale = FALSE
      BY <2>3
    <3> QED
      BY <2>1, <2>2, <3>1, <3>2, RetainedAfter
  <2>5. \A p \in Node, y \in Addr : Retained(p)[y] # None => Retained(p)[y].r # e
    BY <1>14 DEF AcceptA, Free, Mentions
  <2>6. \A p \in Node : /\ installed'[p] \subseteq installed[p]
                        /\ \A key \in installed'[p] : key.r # e
    BY <1>14, ForgetType DEF AcceptA
  <2> QED
    BY <2>3, <2>4, <2>5, <2>6 DEF RespondersAreFresh
<1>15. ASSUME NEW n \in Node, NEW m \in net, Ignore(n, m)
       PROVE  RespondersAreFresh'
  BY <1>15, PruneKeepsFresh DEF Ignore, history
<1>16. ASSUME NEW n \in Node, NEW x \in Addr, Stale(n, x)
       PROVE  RespondersAreFresh'
  <2>1. \A p \in Node, y \in Addr :
          Retained(p)'[y] = Retained(p)[y] \/ Retained(p)'[y] = None
    BY <1>16 DEF Stale, Retained, TypeOK
  <2> QED
    BY <1>16, <2>1, ShrinkKeepsFresh DEF Stale, history
<1>17. ASSUME NEW m \in net, Lose(m)
       PROVE  RespondersAreFresh'
  BY <1>17, QuietKeepsFresh DEF Lose, tables, history
<1>18. ASSUME NEW n \in Node, Restart(n)
       PROVE  RespondersAreFresh'
  <2>1. \A p \in Node, y \in Addr :
          Retained(p)'[y] = Retained(p)[y] \/ Retained(p)'[y] = None
    BY <1>18 DEF Restart, Retained, TypeOK
  <2> QED
    BY <1>18, <2>1, ShrinkKeepsFresh DEF Restart, history
<1>19. CASE UNCHANGED vars
  BY <1>19, QuietKeepsFresh DEF vars, tables, history
<1>20. ASSUME NEW k \in Eph, Index(k)
       PROVE  RespondersAreFresh'
  BY <1>20, QuietKeepsFresh DEF Index, history
<1>21. ASSUME NEW n \in Node, IndexBack(n)
       PROVE  RespondersAreFresh'
  BY <1>21, QuietKeepsFresh DEF IndexBack, history
<1>22. ASSUME NEW n \in Node, StunAnswers(n)
       PROVE  RespondersAreFresh'
  BY <1>22, QuietKeepsFresh DEF StunAnswers, tables, history
<1> QED
  BY <1>1, <1>2, <1>3, <1>4, <1>5, <1>6, <1>7, <1>8, <1>9, <1>10, <1>11, <1>12,
     <1>13, <1>14, <1>15, <1>16, <1>17, <1>18, <1>19, <1>20, <1>21, <1>22
     DEF Next, Attempt, Receive

-----------------------------------------------------------------------------
(* Commitments *)

\* Where a commitment shows, before and after a step.
LEMMA CommittedIs ==
  \A key :
    /\ key \in Committed <=>
         \/ \E m \in net : m.type = "C" /\ key = [i |-> m.i, r |-> m.r]
         \/ \E k \in Eph : pc[k] \in Past /\ key = reply[k]
         \/ \E n, p \in Node :
              /\ sessions[n][p] # None
              /\ key = [i |-> sessions[n][p].i, r |-> sessions[n][p].r]
    /\ key \in Committed' <=>
         \/ \E m \in net' : m.type = "C" /\ key = [i |-> m.i, r |-> m.r]
         \/ \E k \in Eph : pc'[k] \in Past /\ key = reply'[k]
         \/ \E n, p \in Node :
              /\ sessions'[n][p] # None
              /\ key = [i |-> sessions'[n][p].i, r |-> sessions'[n][p].r]
BY DEF Committed

\* A commitment names two ephemerals.
LEMMA CommittedType ==
  ASSUME TypeOK, TaskData, MessagesNameResponder, NEW key \in Committed
  PROVE  key \in Key
<1>1. CASE \E m \in net : m.type = "C" /\ key = [i |-> m.i, r |-> m.r]
  BY <1>1 DEF TypeOK, MessagesNameResponder, Msg, Key
<1>2. CASE \E k \in Eph : pc[k] \in Past /\ key = reply[k]
  BY <1>2 DEF TaskData, Past
<1>3. CASE \E n, p \in Node : /\ sessions[n][p] # None
                              /\ key = [i |-> sessions[n][p].i, r |-> sessions[n][p].r]
  <2>1. PICK n \in Node, p \in Node :
          /\ sessions[n][p] # None
          /\ key = [i |-> sessions[n][p].i, r |-> sessions[n][p].r]
    BY <1>3
  <2>2. sessions[n][p] \in Session
    BY <2>1 DEF TypeOK
  <2> QED
    BY <2>1, <2>2 DEF Session, Key
<1> QED
  BY <1>1, <1>2, <1>3, CommittedIs

\* An attempt that has not finished committed to nothing, and nor did a free
\* ephemeral.
LEMMA Uncommitted ==
  ASSUME TypeOK, TaskData, CommitsAreUnique, NEW k \in Eph,
         pc[k] \in {"spawned", "waiting", "replied", "expired"} \/ Free(k)
  PROVE  \A key \in Committed : key.i # k
<1>1. CASE pc[k] \in {"spawned", "waiting", "replied", "expired"}
  BY <1>1 DEF CommitsAreUnique, Past
<1>2. CASE Free(k)
  <2> SUFFICES ASSUME NEW key \in Committed, key.i = k PROVE FALSE
    OBVIOUS
  <2>1. /\ pc[k] = "done"
        /\ \A m \in net : m.i # k
        /\ \A n, p \in Node : sessions[n][p] # None => sessions[n][p].i # k
    BY <1>2, NoneIsNothing DEF Free, Mentions, TypeOK
  <2> QED
    BY <2>1, CommittedIs DEF TaskData, Past
<1> QED
  BY <1>1, <1>2

\* A step that commits nobody, and takes no committed attempt back, keeps
\* commitments unique.
LEMMA QuietKeepsUnique ==
  ASSUME CommitsAreUnique,
         \A m \in net' : m.type = "C" => m \in net,
         \A k \in Eph : pc'[k] \in Past =>
           pc[k] \in Past /\ reply'[k] = reply[k],
         \A n, p \in Node : sessions'[n][p] # None =>
           [i |-> sessions'[n][p].i, r |-> sessions'[n][p].r] \in Committed,
         \A key \in Committed : pc'[key.i] \in Past \cup {"done"}
  PROVE  CommitsAreUnique'
<1>1. Committed' \subseteq Committed
  <2> SUFFICES ASSUME NEW key \in Committed' PROVE key \in Committed
    OBVIOUS
  <2>1. CASE \E m \in net' : m.type = "C" /\ key = [i |-> m.i, r |-> m.r]
    BY <2>1, CommittedIs
  <2>2. CASE \E k \in Eph : pc'[k] \in Past /\ key = reply'[k]
    BY <2>2, CommittedIs
  <2>3. CASE \E n, p \in Node : /\ sessions'[n][p] # None
                                /\ key = [i |-> sessions'[n][p].i, r |-> sessions'[n][p].r]
    BY <2>3
  <2> QED
    BY <2>1, <2>2, <2>3, CommittedIs
<1> QED
  BY <1>1 DEF CommitsAreUnique

\* An attempt commits to one responder: once it has, it is past doing it again.
LEMMA StepUnique ==
  ASSUME TypeOK, TaskData, MessagesNameResponder, CommitsAreUnique,
         [Next]_vars
  PROVE  CommitsAreUnique'
<1>a. /\ \A p, q \in Node : sessions[p][q] # None =>
           [i |-> sessions[p][q].i, r |-> sessions[p][q].r] \in Committed
      /\ \A j \in Eph : pc[j] \in Past => reply[j] \in Committed
      /\ \A m \in net : m.type = "C" => [i |-> m.i, r |-> m.r] \in Committed
  BY CommittedIs
<1>b. \A key \in Committed : /\ key \in Key /\ key.i \in Eph
                             /\ pc[key.i] \in Past \cup {"done"}
  BY CommittedType DEF Key, CommitsAreUnique
<1>c. ASSUME \A m \in net' : m.type = "C" => m \in net, UNCHANGED <<pc, reply, sessions>>
      PROVE  CommitsAreUnique'
  BY <1>a, <1>b, <1>c, QuietKeepsUnique DEF Past
<1>1. ASSUME NEW n \in Node, NEW x \in Addr, NEW k \in Eph, Discover(n, x, k)
      PROVE  CommitsAreUnique'
  <2>1. \A key \in Committed : key.i # k
    BY <1>1, Uncommitted DEF Discover
  <2> QED
    BY <1>1, <2>1, <1>a, <1>b, QuietKeepsUnique DEF Past, Discover, TypeOK
<1>2. ASSUME NEW k \in Eph, SendA(k)
      PROVE  CommitsAreUnique'
  <2>1. \A key \in Committed : key.i # k
    BY <1>2, Uncommitted DEF SendA
  <2>2. /\ \A m \in net' : m.type = "C" => m \in net
        /\ UNCHANGED sessions
    BY <1>2 DEF SendA, Packet
  <2>3. \A j \in Eph : pc'[j] \in Past =>
          pc[j] \in Past /\ reply'[j] = reply[j]
    BY <1>2 DEF SendA, End, TypeOK, Past
  <2>4. \A j \in Eph : j # k => pc'[j] = pc[j]
    BY <1>2 DEF SendA, End, TypeOK, Past
  <2> QED
    BY <2>1, <2>2, <2>3, <2>4, <1>a, <1>b, QuietKeepsUnique DEF Past
<1>3. ASSUME NEW k \in Eph, SendC(k)
      PROVE  CommitsAreUnique'
  <2>1. \A key \in Committed : key.i # k
    BY <1>3, Uncommitted DEF SendC
  <2>2. /\ reply[k] \in Key
        /\ pc[k] = "replied"
        /\ UNCHANGED sessions
        /\ \A j \in Eph : j # k => pc'[j] = pc[j] /\ reply'[j] = reply[j]
    BY <1>3 DEF SendC, End, TaskData, TypeOK, tables
  <2>3. CASE reply[k].i # k
    <3>1. End(k) /\ UNCHANGED net
      BY <1>3, <2>3 DEF SendC
    <3>2. pc'[k] = "done"
      BY <3>1 DEF End, TypeOK
    <3> QED
      BY <2>1, <2>2, <3>1, <3>2, <1>a, <1>b, QuietKeepsUnique DEF Past
  <2>4. CASE reply[k].i = k
    <3>1. net' = net \cup {Packet("C", k, reply[k].r, k[1], target[k])}
      BY <1>3, <2>4 DEF SendC
    <3>2. pc'[k] \in {"done", "finished"} /\ (pc'[k] = "finished" => reply'[k] = reply[k])
      BY <1>3, <2>4 DEF SendC, End, TypeOK
    <3>3. [i |-> k, r |-> reply[k].r] = reply[k]
      BY <2>2, <2>4 DEF Key
    <3>4. ASSUME NEW key \in Committed'
          PROVE  key \in Committed \/ key = reply[k]
      <4>1. CASE \E m \in net' : m.type = "C" /\ key = [i |-> m.i, r |-> m.r]
        BY <4>1, <3>1, <3>3, CommittedIs DEF Packet
      <4>2. CASE \E j \in Eph : pc'[j] \in Past /\ key = reply'[j]
        BY <4>2, <2>2, <3>2, CommittedIs DEF Past
      <4>3. CASE \E n, p \in Node :
                   /\ sessions'[n][p] # None
                   /\ key = [i |-> sessions'[n][p].i, r |-> sessions'[n][p].r]
        BY <4>3, <2>2, <1>a
      <4> QED
        BY <3>4, <4>1, <4>2, <4>3, CommittedIs
    <3>5. ASSUME NEW key \in Committed'
          PROVE  pc'[key.i] \in Past \cup {"done"}
      BY <3>4, <2>1, <2>2, <2>4, <3>2, <1>b DEF Past
    <3>6. ASSUME NEW key \in Committed', NEW other \in Committed', other.i = key.i
          PROVE  other.r = key.r
      BY <3>4, <3>6, <2>1, <2>4 DEF CommitsAreUnique
    <3> QED
      BY <3>5, <3>6 DEF CommitsAreUnique
  <2> QED
    BY <2>3, <2>4
<1>4. ASSUME NEW k \in Eph, Install(k)
      PROVE  CommitsAreUnique'
  <2>1. /\ reply[k] \in Key /\ reply[k].i = k /\ target[k] \in Addr
        /\ reply[k].r \in Eph /\ k[1] \in Node /\ reply[k].r[1] \in Node
        /\ reply[k] \in Committed
    BY <1>4, <1>a, EphHasNode DEF Install, TaskData, Key, Past
  <2>2. /\ sessions'[k[1]][reply[k].r[1]].i = k
        /\ sessions'[k[1]][reply[k].r[1]].r = reply[k].r
        /\ \A p, q \in Node :
             p # k[1] \/ q # reply[k].r[1] => sessions'[p][q] = sessions[p][q]
    BY <1>4, <2>1, StoreKeeps DEF Install
  <2>3. [i |-> k, r |-> reply[k].r] = reply[k]
    BY <2>1 DEF Key
  <2>4. \A p, q \in Node : sessions'[p][q] # None =>
          [i |-> sessions'[p][q].i, r |-> sessions'[p][q].r] \in Committed
    BY <2>1, <2>2, <2>3, <1>a
  <2>5. /\ UNCHANGED <<net, reply>>
        /\ pc[k] = "finished" /\ pc'[k] = "stored"
        /\ \A j \in Eph : j # k => pc'[j] = pc[j]
    BY <1>4 DEF Install, TypeOK
  <2> QED
    BY <2>4, <2>5, <1>b, QuietKeepsUnique DEF Past
<1>5. ASSUME NEW k \in Eph, Greet(k)
      PROVE  CommitsAreUnique'
  <2>1. End(k) /\ UNCHANGED sessions
    BY <1>5 DEF Greet, tables
  <2>2. \A m \in net' : m.type = "C" => m \in net
    BY <1>5 DEF Greet, SessionInit, Packet
  <2>3. \A j \in Eph : /\ j # k => pc'[j] = pc[j] /\ reply'[j] = reply[j]
                       /\ pc'[k] = "done"
    BY <2>1 DEF End, TypeOK
  <2> QED
    BY <2>1, <2>2, <2>3, <1>a, <1>b, QuietKeepsUnique DEF Past
<1>6. ASSUME NEW k \in Eph, Timeout(k)
      PROVE  CommitsAreUnique'
  <2>1. \A key \in Committed : key.i # k
    BY <1>6, Uncommitted DEF Timeout
  <2> QED
    BY <1>6, <2>1, <1>a, <1>b, QuietKeepsUnique DEF Past, Timeout, TypeOK, tables
<1>7. ASSUME NEW k \in Eph, Expire(k)
      PROVE  CommitsAreUnique'
  <2>1. End(k) /\ UNCHANGED sessions
    BY <1>7 DEF Expire, tables
  <2>2. \A m \in net' : m.type = "C" => m \in net
    BY <1>7 DEF Expire
  <2>3. \A j \in Eph : /\ j # k => pc'[j] = pc[j] /\ reply'[j] = reply[j]
                       /\ pc'[k] = "done"
    BY <2>1 DEF End, TypeOK
  <2> QED
    BY <2>1, <2>2, <2>3, <1>a, <1>b, QuietKeepsUnique DEF Past
<1>8. ASSUME NEW k \in Eph, ChannelDropped(k)
      PROVE  CommitsAreUnique'
  <2>1. End(k) /\ UNCHANGED sessions
    BY <1>8 DEF ChannelDropped, tables
  <2>2. \A m \in net' : m.type = "C" => m \in net
    BY <1>8 DEF ChannelDropped
  <2>3. \A j \in Eph : /\ j # k => pc'[j] = pc[j] /\ reply'[j] = reply[j]
                       /\ pc'[k] = "done"
    BY <2>1 DEF End, TypeOK
  <2> QED
    BY <2>1, <2>2, <2>3, <1>a, <1>b, QuietKeepsUnique DEF Past
<1>9. ASSUME NEW k \in Eph, SendFails(k)
      PROVE  CommitsAreUnique'
  <2>1. End(k) /\ UNCHANGED <<net, tables>>
    BY <1>9 DEF SendFails
  <2>2. \A j \in Eph : /\ j # k => pc'[j] = pc[j] /\ reply'[j] = reply[j]
                       /\ pc'[k] = "done"
    BY <2>1 DEF End, TypeOK
  <2> QED
    BY <2>1, <2>2, <1>a, <1>b, QuietKeepsUnique DEF Past, tables
<1>10. ASSUME NEW n \in Node, NEW m \in net, DispatchB(n, m)
       PROVE  CommitsAreUnique'
  <2> DEFINE k == pending[n][m.src]
  <2>1. k \in Eph
    BY <1>10 DEF DispatchB, ForInitiator, TypeOK, Msg
  <2>2. \A o \in net' : o \in net
    BY <1>10 DEF DispatchB, Exchange
  <2>3. UNCHANGED sessions
    BY <1>10 DEF DispatchB
  <2>4. CASE pc[k] = "waiting"
    <3>1. \A key \in Committed : key.i # k
      BY <2>1, <2>4, Uncommitted
    <3>2. /\ pc' = [pc EXCEPT ![k] = "replied"]
          /\ \A j \in Eph : j # k => reply'[j] = reply[j]
      BY <1>10, <2>1, <2>4 DEF DispatchB, TypeOK
    <3> HIDE DEF k
    <3> QED
      BY <2>1, <2>2, <2>3, <3>1, <3>2, <1>a, <1>b, QuietKeepsUnique DEF Past, TypeOK
  <2>5. CASE pc[k] # "waiting"
    <3>1. UNCHANGED <<pc, reply>>
      BY <1>10, <2>5 DEF DispatchB
    <3> QED
      BY <2>2, <2>3, <3>1, <1>c
  <2> QED
    BY <2>4, <2>5
<1>11. ASSUME NEW n \in Node, NEW m \in net, FinishC(n, m)
       PROVE  CommitsAreUnique'
  <2> DEFINE o == responders[n][m.src]
  <2>1. /\ \A j \in net' : j \in net
        /\ UNCHANGED <<pc, reply>>
    BY <1>11 DEF FinishC, Exchange, tasks
  <2>2. CASE Completes(m, o)
    <3>1. o.i \in Eph /\ o.i[1] \in Node /\ o.r \in Eph /\ m.src \in Addr
      BY <1>11, OfferAtHand, EphHasNode DEF FinishC
    <3>2. StoreSession(n, o.i[1], o.i, o.r, m.src)
      BY <1>11, <2>2 DEF FinishC
    <3>3. /\ sessions'[n][o.i[1]].i = o.i
          /\ sessions'[n][o.i[1]].r = o.r
          /\ \A p, q \in Node :
               p # n \/ q # o.i[1] => sessions'[p][q] = sessions[p][q]
      BY <3>1, <3>2, StoreKeeps
    <3>4. [i |-> o.i, r |-> o.r] \in Committed
      BY <2>2, <1>a DEF Completes
    <3>5. \A p, q \in Node : sessions'[p][q] # None =>
            [i |-> sessions'[p][q].i, r |-> sessions'[p][q].r] \in Committed
      BY <3>3, <3>4, <1>a
    <3> QED
      BY <2>1, <3>5, <1>b, QuietKeepsUnique DEF Past
  <2>3. CASE ~Completes(m, o)
    BY <1>11, <2>1, <2>3, <1>c DEF FinishC
  <2> QED
    BY <2>2, <2>3
<1>12. ASSUME NEW n \in Node, GreetBack(n)
       PROVE  CommitsAreUnique'
  BY <1>12, <1>c DEF GreetBack, SessionInit, Packet, tasks
<1>13. ASSUME NEW n \in Node, NEW m \in net, Decrypt(n, m)
       PROVE  CommitsAreUnique'
  <2>1. /\ \A j \in net' : j \in net
        /\ UNCHANGED <<pc, reply>>
    BY <1>13 DEF Decrypt, Exchange, tasks
  <2>2. \A p, q \in Node : sessions'[p][q] # None =>
          /\ sessions[p][q] # None
          /\ sessions'[p][q].i = sessions[p][q].i
          /\ sessions'[p][q].r = sessions[p][q].r
    BY <1>13, DecryptKeeps
  <2>3. \A p, q \in Node : sessions'[p][q] # None =>
          [i |-> sessions'[p][q].i, r |-> sessions'[p][q].r] \in Committed
    BY <2>2, <1>a
  <2> QED
    BY <2>1, <2>3, <1>b, QuietKeepsUnique DEF Past
<1>14. ASSUME NEW n \in Node, NEW m \in net, NEW e \in Eph, AcceptA(n, m, e)
       PROVE  CommitsAreUnique'
  BY <1>14, <1>c DEF AcceptA, Exchange, Packet, tasks
<1>15. ASSUME NEW n \in Node, NEW m \in net, Ignore(n, m)
       PROVE  CommitsAreUnique'
  BY <1>15, <1>c DEF Ignore, Exchange, tasks
<1>16. ASSUME NEW n \in Node, NEW x \in Addr, Stale(n, x)
       PROVE  CommitsAreUnique'
  BY <1>16, <1>c DEF Stale, tasks, tables
<1>17. ASSUME NEW m \in net, Lose(m)
       PROVE  CommitsAreUnique'
  BY <1>17, <1>c DEF Lose, tasks, tables
<1>18. ASSUME NEW n \in Node, Restart(n)
       PROVE  CommitsAreUnique'
  <2>1. /\ UNCHANGED net
        /\ \A j \in Eph : /\ j[1] = n => pc'[j] = "done"
                          /\ j[1] # n => pc'[j] = pc[j] /\ reply'[j] = reply[j]
        /\ \A p, q \in Node : sessions'[p][q] # None => sessions'[p][q] = sessions[p][q]
    BY <1>18 DEF Restart, TypeOK
  <2> QED
    BY <2>1, <1>a, <1>b, QuietKeepsUnique DEF Past
<1>19. CASE UNCHANGED vars
  BY <1>19, <1>c DEF vars, tasks, tables
<1>20. ASSUME NEW k \in Eph, Index(k)
       PROVE  CommitsAreUnique'
  <2>1. \A j \in Eph : pc'[j] \in Past \cup {"done"} <=> pc[j] \in Past \cup {"done"}
    BY <1>20 DEF Index, TypeOK, Past
  <2>2. \A j \in Eph : pc'[j] \in Past => pc[j] \in Past
    BY <1>20 DEF Index, TypeOK, Past
  <2> QED
    BY <1>20, <2>1, <2>2, <1>a, <1>b, QuietKeepsUnique DEF Past, Index
<1>21. ASSUME NEW n \in Node, IndexBack(n)
       PROVE  CommitsAreUnique'
  BY <1>21, <1>c DEF IndexBack, tasks
<1>22. ASSUME NEW n \in Node, StunAnswers(n)
       PROVE  CommitsAreUnique'
  BY <1>22, <1>c DEF StunAnswers, tasks, tables
<1> QED
  BY <1>1, <1>2, <1>3, <1>4, <1>5, <1>6, <1>7, <1>8, <1>9, <1>10, <1>11, <1>12,
     <1>13, <1>14, <1>15, <1>16, <1>17, <1>18, <1>19, <1>20, <1>21, <1>22
     DEF Next, Attempt, Receive

-----------------------------------------------------------------------------
(* Transports *)

\* An initiator that completed n's handshake o has not got that transport yet
\* if it is n itself: a node that reached itself installs only once.
LEMMA CompletedElsewhere ==
  ASSUME TypeOK, TaskData, MessagesNameResponder, RespondersAreFresh, CommitsAreUnique,
         NEW n \in Node, NEW m \in net, ForResponder(n, m),
         Completes(m, responders[n][m.src]), responders[n][m.src].i[1] = n
  PROVE  pc[responders[n][m.src].i] \in {"stored", "installed", "done"}
<1> DEFINE o == responders[n][m.src]
<1>1. /\ o.i \in Eph /\ o.r \in Eph /\ o.r[1] = n
      /\ m.type = "C" /\ m.i = o.i /\ m.r = o.r
  BY OfferAtHand, NoneIsNothing DEF Completes, RespondersAreFresh
<1>2. [i |-> o.i, r |-> o.r] \in Committed
  BY <1>1, CommittedIs
<1>3. pc[o.i] \in Past \cup {"done"}
  BY <1>2 DEF CommitsAreUnique
<1>4. CASE pc[o.i] = "finished"
  <2>1. reply[o.i] \in Committed /\ reply[o.i].i = o.i /\ reply[o.i].r[1] # n
    BY <1>1, <1>4, CommittedIs DEF TaskData, Past
  <2>2. reply[o.i].r = o.r
    BY <1>2, <2>1 DEF CommitsAreUnique
  <2> QED
    BY <1>1, <2>1, <2>2
<1> QED
  BY <1>3, <1>4 DEF Past

\* A step that adds nothing to the history and lets no attempt back in keeps
\* the attempts fresh.
LEMMA QuietKeepsAttempts ==
  ASSUME AttemptsAreFresh,
         \A n \in Node : installed'[n] \subseteq installed[n],
         \A k \in Eph :
           \/ pc'[k] \notin {"spawned", "waiting", "replied", "expired", "finished"}
           \/ pc[k] \in {"spawned", "waiting", "replied", "expired", "finished"}
  PROVE  AttemptsAreFresh'
BY EphHasNode DEF AttemptsAreFresh

\* An attempt that has not installed its transport never did.
LEMMA StepAttempts ==
  ASSUME TypeOK, TaskData, MessagesNameResponder, RespondersAreFresh, CommitsAreUnique,
         AttemptsAreFresh,
         [Next]_vars
  PROVE  AttemptsAreFresh'
<1>1. ASSUME NEW n \in Node, NEW x \in Addr, NEW k \in Eph, Discover(n, x, k)
      PROVE  AttemptsAreFresh'
  <2>1. \A p \in Node : /\ installed'[p] \subseteq installed[p]
                        /\ \A key \in installed'[p] : key.i # k
    BY <1>1, ForgetType DEF Discover
  <2>2. \A j \in Eph : j # k => pc'[j] = pc[j]
    BY <1>1 DEF Discover, TypeOK
  <2> QED
    BY <2>1, <2>2, EphHasNode DEF AttemptsAreFresh
<1>2. ASSUME NEW k \in Eph, SendA(k)
      PROVE  AttemptsAreFresh'
  BY <1>2, QuietKeepsAttempts DEF SendA, End, TypeOK, history
<1>3. ASSUME NEW k \in Eph, SendC(k)
      PROVE  AttemptsAreFresh'
  BY <1>3, QuietKeepsAttempts DEF SendC, End, TypeOK, history
<1>4. ASSUME NEW k \in Eph, Install(k)
      PROVE  AttemptsAreFresh'
  <2>1. StoreSession(k[1], reply[k].r[1], k, reply[k].r, target[k])
    BY <1>4 DEF Install
  <2>2. \A p \in Node : \A key \in installed'[p] :
          key \in installed[p] \/ (p = k[1] /\ key.i = k)
    BY <2>1, EphHasNode, StoreHistory
  <2>3. pc'[k] = "stored" /\ \A j \in Eph : j # k => pc'[j] = pc[j]
    BY <1>4 DEF Install, TypeOK
  <2> QED
    BY <2>2, <2>3, EphHasNode DEF AttemptsAreFresh
<1>5. ASSUME NEW k \in Eph, Greet(k)
      PROVE  AttemptsAreFresh'
  BY <1>5, QuietKeepsAttempts DEF Greet, End, TypeOK, history
<1>6. ASSUME NEW k \in Eph, Timeout(k)
      PROVE  AttemptsAreFresh'
  BY <1>6, QuietKeepsAttempts DEF Timeout, TypeOK, history
<1>7. ASSUME NEW k \in Eph, Expire(k)
      PROVE  AttemptsAreFresh'
  BY <1>7, QuietKeepsAttempts DEF Expire, End, TypeOK, history
<1>8. ASSUME NEW k \in Eph, ChannelDropped(k)
      PROVE  AttemptsAreFresh'
  BY <1>8, QuietKeepsAttempts DEF ChannelDropped, End, TypeOK, history
<1>9. ASSUME NEW k \in Eph, SendFails(k)
      PROVE  AttemptsAreFresh'
  <2>1. End(k) /\ UNCHANGED history
    BY <1>9 DEF SendFails
  <2> QED
    BY <2>1, QuietKeepsAttempts DEF End, TypeOK, history
<1>10. ASSUME NEW n \in Node, NEW m \in net, DispatchB(n, m)
       PROVE  AttemptsAreFresh'
  BY <1>10, QuietKeepsAttempts DEF DispatchB, TypeOK, history
<1>11. ASSUME NEW n \in Node, NEW m \in net, FinishC(n, m)
       PROVE  AttemptsAreFresh'
  <2> DEFINE o == responders[n][m.src]
  <2>1. UNCHANGED pc
    BY <1>11 DEF FinishC, tasks
  <2>2. CASE Completes(m, o)
    <3>1. StoreSession(n, o.i[1], o.i, o.r, m.src)
      BY <1>11, <2>2 DEF FinishC
    <3>2. \A p \in Node : \A key \in installed'[p] :
            key \in installed[p] \/ (p = n /\ key.i = o.i)
      BY <3>1, StoreHistory
    <3>3. o.i[1] = n => pc[o.i] \in {"stored", "installed", "done"}
      BY <1>11, <2>2, CompletedElsewhere DEF FinishC
    <3> QED
      BY <2>1, <3>2, <3>3, EphHasNode DEF AttemptsAreFresh
  <2>3. CASE ~Completes(m, o)
    BY <1>11, <2>1, <2>3, QuietKeepsAttempts DEF FinishC, history
  <2> QED
    BY <2>2, <2>3
<1>12. ASSUME NEW n \in Node, GreetBack(n)
       PROVE  AttemptsAreFresh'
  BY <1>12, QuietKeepsAttempts DEF GreetBack, tasks, history
<1>13. ASSUME NEW n \in Node, NEW m \in net, Decrypt(n, m)
       PROVE  AttemptsAreFresh'
  BY <1>13, QuietKeepsAttempts DEF Decrypt, tasks, history
<1>14. ASSUME NEW n \in Node, NEW m \in net, NEW e \in Eph, AcceptA(n, m, e)
       PROVE  AttemptsAreFresh'
  BY <1>14, ForgetType, QuietKeepsAttempts DEF AcceptA, tasks
<1>15. ASSUME NEW n \in Node, NEW m \in net, Ignore(n, m)
       PROVE  AttemptsAreFresh'
  BY <1>15, QuietKeepsAttempts DEF Ignore, tasks, history
<1>16. ASSUME NEW n \in Node, NEW x \in Addr, Stale(n, x)
       PROVE  AttemptsAreFresh'
  BY <1>16, QuietKeepsAttempts DEF Stale, tasks, history
<1>17. ASSUME NEW m \in net, Lose(m)
       PROVE  AttemptsAreFresh'
  BY <1>17, QuietKeepsAttempts DEF Lose, tasks, history
<1>18. ASSUME NEW n \in Node, Restart(n)
       PROVE  AttemptsAreFresh'
  BY <1>18, QuietKeepsAttempts DEF Restart, TypeOK, history
<1>19. CASE UNCHANGED vars
  BY <1>19, QuietKeepsAttempts DEF vars, tasks, history
<1>20. ASSUME NEW k \in Eph, Index(k)
       PROVE  AttemptsAreFresh'
  BY <1>20, QuietKeepsAttempts DEF Index, TypeOK, history
<1>21. ASSUME NEW n \in Node, IndexBack(n)
       PROVE  AttemptsAreFresh'
  BY <1>21, QuietKeepsAttempts DEF IndexBack, tasks, history
<1>22. ASSUME NEW n \in Node, StunAnswers(n)
       PROVE  AttemptsAreFresh'
  BY <1>22, QuietKeepsAttempts DEF StunAnswers, tasks, history
<1> QED
  BY <1>1, <1>2, <1>3, <1>4, <1>5, <1>6, <1>7, <1>8, <1>9, <1>10, <1>11, <1>12,
     <1>13, <1>14, <1>15, <1>16, <1>17, <1>18, <1>19, <1>20, <1>21, <1>22
     DEF Next, Attempt, Receive

\* So neither end installs a transport it had before.
LEMMA StepTransport ==
  ASSUME TypeOK, RespondersAreFresh, AttemptsAreFresh, TransportIsFresh,
         [Next]_vars
  PROVE  TransportIsFresh'
<1>1. ASSUME NEW n \in Node, NEW x \in Addr, NEW k \in Eph, Discover(n, x, k)
      PROVE  TransportIsFresh'
  BY <1>1 DEF Discover, history, TransportIsFresh
<1>2. ASSUME NEW k \in Eph, SendA(k)
      PROVE  TransportIsFresh'
  BY <1>2 DEF SendA, history, TransportIsFresh
<1>3. ASSUME NEW k \in Eph, SendC(k)
      PROVE  TransportIsFresh'
  BY <1>3 DEF SendC, history, TransportIsFresh
<1>4. ASSUME NEW k \in Eph, Install(k)
      PROVE  TransportIsFresh'
  <2>1. [i |-> k, r |-> reply[k].r] \notin installed[k[1]]
    BY <1>4 DEF Install, AttemptsAreFresh
  <2> QED
    BY <1>4, <2>1 DEF Install, StoreSession, TransportIsFresh
<1>5. ASSUME NEW k \in Eph, Greet(k)
      PROVE  TransportIsFresh'
  BY <1>5 DEF Greet, history, TransportIsFresh
<1>6. ASSUME NEW k \in Eph, Timeout(k)
      PROVE  TransportIsFresh'
  BY <1>6 DEF Timeout, history, TransportIsFresh
<1>7. ASSUME NEW k \in Eph, Expire(k)
      PROVE  TransportIsFresh'
  BY <1>7 DEF Expire, history, TransportIsFresh
<1>8. ASSUME NEW k \in Eph, ChannelDropped(k)
      PROVE  TransportIsFresh'
  BY <1>8 DEF ChannelDropped, history, TransportIsFresh
<1>9. ASSUME NEW k \in Eph, SendFails(k)
      PROVE  TransportIsFresh'
  <2>1. UNCHANGED history
    BY <1>9 DEF SendFails
  <2> QED
    BY <2>1 DEF history, TransportIsFresh
<1>10. ASSUME NEW n \in Node, NEW m \in net, DispatchB(n, m)
       PROVE  TransportIsFresh'
  BY <1>10 DEF DispatchB, history, TransportIsFresh
<1>11. ASSUME NEW n \in Node, NEW m \in net, FinishC(n, m)
       PROVE  TransportIsFresh'
  <2> DEFINE o == responders[n][m.src]
  <2>1. [i |-> o.i, r |-> o.r] \notin installed[n]
    BY <1>11, OfferAtHand, NoneIsNothing DEF FinishC, RespondersAreFresh
  <2>2. CASE Completes(m, o)
    <3>1. StoreSession(n, o.i[1], o.i, o.r, m.src)
      BY <1>11, <2>2 DEF FinishC
    <3> QED
      BY <2>1, <3>1 DEF StoreSession, TransportIsFresh
  <2>3. CASE ~Completes(m, o)
    BY <1>11, <2>3 DEF FinishC, history, TransportIsFresh
  <2> QED
    BY <2>2, <2>3
<1>12. ASSUME NEW n \in Node, GreetBack(n)
       PROVE  TransportIsFresh'
  BY <1>12 DEF GreetBack, history, TransportIsFresh
<1>13. ASSUME NEW n \in Node, NEW m \in net, Decrypt(n, m)
       PROVE  TransportIsFresh'
  BY <1>13 DEF Decrypt, history, TransportIsFresh
<1>14. ASSUME NEW n \in Node, NEW m \in net, NEW e \in Eph, AcceptA(n, m, e)
       PROVE  TransportIsFresh'
  BY <1>14 DEF AcceptA, history, TransportIsFresh
<1>15. ASSUME NEW n \in Node, NEW m \in net, Ignore(n, m)
       PROVE  TransportIsFresh'
  BY <1>15 DEF Ignore, history, TransportIsFresh
<1>16. ASSUME NEW n \in Node, NEW x \in Addr, Stale(n, x)
       PROVE  TransportIsFresh'
  BY <1>16 DEF Stale, history, TransportIsFresh
<1>17. ASSUME NEW m \in net, Lose(m)
       PROVE  TransportIsFresh'
  BY <1>17 DEF Lose, history, TransportIsFresh
<1>18. ASSUME NEW n \in Node, Restart(n)
       PROVE  TransportIsFresh'
  BY <1>18 DEF Restart, history, TransportIsFresh
<1>19. CASE UNCHANGED vars
  BY <1>19 DEF vars, history, TransportIsFresh
<1>20. ASSUME NEW k \in Eph, Index(k)
       PROVE  TransportIsFresh'
  BY <1>20 DEF Index, history, TransportIsFresh
<1>21. ASSUME NEW n \in Node, IndexBack(n)
       PROVE  TransportIsFresh'
  BY <1>21 DEF IndexBack, history, TransportIsFresh
<1>22. ASSUME NEW n \in Node, StunAnswers(n)
       PROVE  TransportIsFresh'
  BY <1>22 DEF StunAnswers, history, TransportIsFresh
<1> QED
  BY <1>1, <1>2, <1>3, <1>4, <1>5, <1>6, <1>7, <1>8, <1>9, <1>10, <1>11, <1>12,
     <1>13, <1>14, <1>15, <1>16, <1>17, <1>18, <1>19, <1>20, <1>21, <1>22
     DEF Next, Attempt, Receive

-----------------------------------------------------------------------------
(* Addresses *)

\* A new session has the address it was made with, and no other session
\* changes.
LEMMA StoreUnderlay ==
  ASSUME TypeOK, NEW n \in Node, NEW p \in Node, NEW i \in Eph, NEW r \in Eph,
         NEW x \in Addr, StoreSession(n, p, i, r, x)
  PROVE  /\ \A m, q \in Node :
              \/ sessions'[m][q] = sessions[m][q]
              \/ m = n /\ q = p /\ sessions'[m][q].underlay = x
         /\ sessions'[n][p].underlay = x
BY DEF StoreSession, TypeOK

\* Storing a session keeps the index right if the one who does will index it.
LEMMA StoreKeepsIndex ==
  ASSUME TypeOK, UnderlayIsIndexed, UNCHANGED addrIndex,
         NEW n \in Node, NEW p \in Node, NEW i \in Eph, NEW r \in Eph,
         NEW x \in Addr, StoreSession(n, p, i, r, x), BetweenInserts(n, p, x)',
         \A m, q \in Node, y \in Addr : BetweenInserts(m, q, y) => BetweenInserts(m, q, y)'
  PROVE  UnderlayIsIndexed'
<1>1. ASSUME NEW m \in Node, NEW q \in Node, NEW y \in Addr,
             sessions'[m][q] # None, sessions'[m][q].underlay = y
      PROVE  addrIndex'[m][y] = q \/ BetweenInserts(m, q, y)'
  <2>1. CASE sessions'[m][q] = sessions[m][q]
    <3>1. addrIndex[m][y] = q \/ BetweenInserts(m, q, y)
      BY <1>1, <2>1 DEF UnderlayIsIndexed
    <3> QED
      BY <3>1
  <2>2. CASE m = n /\ q = p /\ sessions'[m][q].underlay = x
    BY <1>1, <2>2
  <2> QED
    BY <2>1, <2>2, StoreUnderlay
<1>2. \A m, q \in Node : sessions[m][q] # None => sessions'[m][q] # None
  BY StoreKeeps
<1>3. ASSUME NEW m \in Node, NEW y \in Addr, addrIndex'[m][y] # None
      PROVE  sessions'[m][addrIndex'[m][y]] # None
  <2>1. addrIndex[m][y] \in Node /\ sessions[m][addrIndex[m][y]] # None
    BY <1>3 DEF TypeOK, UnderlayIsIndexed
  <2> QED
    BY <1>2, <2>1
<1> QED
  BY <1>1, <1>3 DEF UnderlayIsIndexed

\* Indexing it makes the index lead from its address to it, and takes no other
\* session's address away: no other peer of n appears at x.
LEMMA IndexKeepsIndex ==
  ASSUME SourcesDiffer, TypeOK, AddressesAreTrue, UnderlayIsIndexed, UNCHANGED sessions,
         NEW n \in Node, NEW p \in Node, NEW x \in Addr,
         AppearsAt(p, x), sessions[n][p] # None, IndexSession(n, p, x),
         \A m, q \in Node, y \in Addr :
           BetweenInserts(m, q, y) => BetweenInserts(m, q, y)' \/ (m = n /\ q = p /\ y = x)
  PROVE  UnderlayIsIndexed'
<1>1. ASSUME NEW m \in Node, NEW q \in Node, NEW y \in Addr,
             sessions[m][q] # None, sessions[m][q].underlay = y
      PROVE  addrIndex'[m][y] = q \/ BetweenInserts(m, q, y)'
  <2>1. addrIndex[m][y] = q \/ BetweenInserts(m, q, y)
    BY <1>1 DEF UnderlayIsIndexed
  <2>2. CASE m = n /\ y = x
    <3>1. AppearsAt(q, x)
      BY <1>1, <2>2 DEF AddressesAreTrue
    <3>2. q = p
      BY <3>1 DEF AppearsAt, SourcesDiffer
    <3> QED
      BY <2>2, <3>2, IndexType
  <2>3. CASE ~(m = n /\ y = x)
    <3>1. addrIndex'[m][y] = addrIndex[m][y]
      BY <2>3, IndexType
    <3> QED
      BY <2>1, <2>3, <3>1
  <2> QED
    BY <2>2, <2>3
<1>2. ASSUME NEW m \in Node, NEW y \in Addr, addrIndex'[m][y] # None
      PROVE  sessions[m][addrIndex'[m][y]] # None
  BY <1>2, IndexType DEF UnderlayIsIndexed
<1> QED
  BY <1>1, <1>2 DEF UnderlayIsIndexed

\* A step keeps the index right that changes neither table and ends nobody's
\* stay between the two inserts.
LEMMA QuietKeepsIndex ==
  ASSUME UnderlayIsIndexed, UNCHANGED <<sessions, addrIndex>>,
         \A n, p \in Node, x \in Addr : BetweenInserts(n, p, x) => BetweenInserts(n, p, x)'
  PROVE  UnderlayIsIndexed'
BY DEF UnderlayIsIndexed

\* Nobody between the inserts is disturbed by a step that moves no stored
\* attempt and no greeting.
LEMMA BetweenStays ==
  ASSUME \A k \in Eph : pc[k] = "stored" =>
           pc'[k] = "stored" /\ reply'[k] = reply[k] /\ target'[k] = target[k],
         \A n \in Node : greeting[n] # None => greeting'[n] = greeting[n]
  PROVE  \A n, p \in Node, x \in Addr : BetweenInserts(n, p, x) => BetweenInserts(n, p, x)'
<1> SUFFICES ASSUME NEW n \in Node, NEW p \in Node, NEW x \in Addr, BetweenInserts(n, p, x)
             PROVE  BetweenInserts(n, p, x)'
  OBVIOUS
<1>1. CASE \E k \in Eph : /\ k[1] = n /\ pc[k] = "stored"
                          /\ reply[k].r[1] = p /\ target[k] = x
  <2>1. PICK k \in Eph : /\ k[1] = n /\ pc[k] = "stored"
                         /\ reply[k].r[1] = p /\ target[k] = x
    BY <1>1
  <2>2. pc'[k] = "stored" /\ reply'[k].r[1] = p /\ target'[k] = x
    BY <2>1
  <2> QED
    BY <2>1, <2>2 DEF BetweenInserts
<1>2. CASE greeting[n] = [peer |-> p, to |-> x, indexed |-> FALSE]
  <2>1. [peer |-> p, to |-> x, indexed |-> FALSE] \in Greeting
    BY DEF Greeting
  <2>2. greeting[n] # None
    BY <1>2, <2>1, NoneIsNothing
  <2> QED
    BY <1>2, <2>2 DEF BetweenInserts
<1> QED
  BY <1>1, <1>2 DEF BetweenInserts

\* Nor does a datagram that fails to decrypt move a session.
LEMMA DecryptKeepsUnderlay ==
  ASSUME TypeOK, NEW n \in Node, NEW m \in net, Decrypt(n, m)
  PROVE  \A p, q \in Node :
           sessions[p][q] # None => sessions'[p][q].underlay = sessions[p][q].underlay
<1>1. m.src \in Addr
  BY DEF TypeOK, Msg
<1>2. addrIndex[n][m.src] \in Node
  BY <1>1 DEF Decrypt, ForSession, TypeOK
<1>3. CASE sessions[n][addrIndex[n][m.src]] # None /\ m.type # "D"
  <2> DEFINE s == sessions[n][addrIndex[n][m.src]]
  <2>1. s \in Session
    BY <1>2, <1>3 DEF TypeOK
  <2>2. sessions' = [sessions EXCEPT ![n][addrIndex[n][m.src]] = [@ EXCEPT !.deaf = TRUE]]
    BY <1>3 DEF Decrypt
  <2>3. [s EXCEPT !.deaf = TRUE].underlay = s.underlay
    BY <2>1 DEF Session
  <2> QED
    BY <1>2, <2>2, <2>3 DEF TypeOK
<1>4. CASE ~(sessions[n][addrIndex[n][m.src]] # None /\ m.type # "D")
  BY <1>4 DEF Decrypt
<1> QED
  BY <1>3, <1>4

\* Peers stay filed under addresses they appear at.
LEMMA StepAddresses ==
  ASSUME TypeOK, TaskData, PendingIsOwned, AddressesAreTrue,
         [Next]_vars
  PROVE  AddressesAreTrue'
<1>1. ASSUME NEW n \in Node, NEW x \in Addr, NEW k \in Eph, Discover(n, x, k)
      PROVE  AddressesAreTrue'
  <2>1. \A j \in Eph : reply'[j] # None => reply'[j] = reply[j] /\ target'[j] = target[j]
    BY <1>1 DEF Discover, TypeOK
  <2> QED
    BY <1>1, <2>1 DEF Discover, AddressesAreTrue
<1>2. ASSUME NEW k \in Eph, SendA(k)
      PROVE  AddressesAreTrue'
  <2>1. target[k] \in Addr
    BY <1>2 DEF SendA, TaskData, Past
  <2>2. \A m \in net' \ net : m.type = "A" /\ m.i = k /\ m.src = Source[k[1]][target[k]]
    BY <1>2 DEF SendA, Packet
  <2>3. \A m \in net' \ net : AppearsAt(m.i[1], m.src)
    BY <2>1, <2>2 DEF AppearsAt
  <2>4. \A j \in Eph : reply'[j] # None => reply'[j] = reply[j] /\ target'[j] = target[j]
    BY <1>2 DEF SendA, End, TypeOK
  <2> QED
    BY <1>2, <2>2, <2>3, <2>4 DEF SendA, AddressesAreTrue
<1>3. ASSUME NEW k \in Eph, SendC(k)
      PROVE  AddressesAreTrue'
  <2>1. target[k] \in Addr
    BY <1>3 DEF SendC, TaskData, Past
  <2>2. \A m \in net' \ net : m.type = "C" /\ m.i = k /\ m.src = Source[k[1]][target[k]]
    BY <1>3 DEF SendC, Packet
  <2>3. \A m \in net' \ net : AppearsAt(m.i[1], m.src)
    BY <2>1, <2>2 DEF AppearsAt
  <2>4. \A j \in Eph : reply'[j] # None => reply'[j] = reply[j] /\ target'[j] = target[j]
    BY <1>3 DEF SendC, End, TypeOK
  <2> QED
    BY <1>3, <2>2, <2>3, <2>4 DEF SendC, tables, AddressesAreTrue
<1>4. ASSUME NEW k \in Eph, Install(k)
      PROVE  AddressesAreTrue'
  <2>1. /\ reply[k].r \in Eph /\ target[k] \in Addr /\ reply[k] # None
        /\ k[1] \in Node /\ reply[k].r[1] \in Node
    BY <1>4, EphHasNode, NoneIsNothing DEF Install, TaskData, Key, Past
  <2>2. StoreSession(k[1], reply[k].r[1], k, reply[k].r, target[k])
    BY <1>4 DEF Install
  <2>3. \A p, q \in Node :
          \/ sessions'[p][q] = sessions[p][q]
          \/ q = reply[k].r[1] /\ sessions'[p][q].underlay = target[k]
    BY <2>1, <2>2, StoreUnderlay
  <2>4. AppearsAt(reply[k].r[1], target[k])
    BY <2>1 DEF AddressesAreTrue
  <2> QED
    BY <1>4, <2>3, <2>4 DEF Install, AddressesAreTrue
<1>5. ASSUME NEW k \in Eph, Greet(k)
      PROVE  AddressesAreTrue'
  <2>1. \A m \in net' \ net : m.type = "D"
    BY <1>5 DEF Greet, SessionInit, Packet
  <2>2. \A j \in Eph : reply'[j] # None => reply'[j] = reply[j] /\ target'[j] = target[j]
    BY <1>5 DEF Greet, End, TypeOK
  <2> QED
    BY <1>5, <2>1, <2>2 DEF Greet, tables, AddressesAreTrue
<1>6. ASSUME NEW k \in Eph, Timeout(k)
      PROVE  AddressesAreTrue'
  BY <1>6 DEF Timeout, tables, AddressesAreTrue
<1>7. ASSUME NEW k \in Eph, Expire(k)
      PROVE  AddressesAreTrue'
  BY <1>7 DEF Expire, End, TypeOK, AddressesAreTrue
<1>8. ASSUME NEW k \in Eph, ChannelDropped(k)
      PROVE  AddressesAreTrue'
  BY <1>8 DEF ChannelDropped, End, TypeOK, tables, AddressesAreTrue
<1>9. ASSUME NEW k \in Eph, SendFails(k)
      PROVE  AddressesAreTrue'
  BY <1>9 DEF SendFails, End, TypeOK, tables, AddressesAreTrue
<1>10. ASSUME NEW n \in Node, NEW m \in net, DispatchB(n, m)
       PROVE  AddressesAreTrue'
  <2>1. /\ m \in Msg /\ m.type = "B" /\ m.src \in Addr
        /\ pending[n][m.src] \in Eph
    BY <1>10 DEF DispatchB, ForInitiator, TypeOK, Msg
  <2>2. target[pending[n][m.src]] = m.src
    BY <2>1, NoneIsNothing DEF PendingIsOwned
  <2>3. AppearsAt(m.r[1], m.src)
    BY <2>1 DEF AddressesAreTrue
  <2>4. \A j \in Eph : \/ reply'[j] = reply[j]
                       \/ j = pending[n][m.src] /\ reply'[j].r = m.r
    BY <1>10, <2>1 DEF DispatchB, TypeOK
  <2>5. \A j \in Eph : reply'[j] # None => AppearsAt(reply'[j].r[1], target[j])
    BY <2>2, <2>3, <2>4 DEF AddressesAreTrue
  <2>6. net' \subseteq net
    BY <1>10, ExchangeType DEF DispatchB
  <2>7. \A p \in Node, y \in Addr : responders'[p][y] \in {responders[p][y], None}
    BY <1>10, RetainedType DEF DispatchB, TypeOK
  <2> QED
    BY <1>10, <2>5, <2>6, <2>7 DEF DispatchB, AddressesAreTrue
<1>11. ASSUME NEW n \in Node, NEW m \in net, FinishC(n, m)
       PROVE  AddressesAreTrue'
  <2>1. net' \subseteq net
    BY <1>11, ExchangeType DEF FinishC
  <2>2. \A p \in Node, y \in Addr : responders'[p][y] \in {responders[p][y], None}
    BY <1>11, RetainedType DEF FinishC, TypeOK
  <2> DEFINE o == responders[n][m.src]
  <2>3. o \in Offer /\ o.i \in Eph /\ o.i[1] \in Node /\ o.r \in Eph /\ m.src \in Addr
    BY <1>11, OfferAtHand, EphHasNode DEF FinishC
  <2>4. AppearsAt(o.i[1], m.src)
    BY <2>3, NoneIsNothing DEF AddressesAreTrue
  <2>5. \A p, q \in Node :
          \/ sessions'[p][q] = sessions[p][q]
          \/ q = o.i[1] /\ sessions'[p][q].underlay = m.src
    <3>1. CASE Completes(m, o)
      <4>1. StoreSession(n, o.i[1], o.i, o.r, m.src)
        BY <1>11, <3>1 DEF FinishC
      <4> QED
        BY <2>3, <4>1, StoreUnderlay
    <3>2. CASE ~Completes(m, o)
      BY <1>11, <3>2 DEF FinishC
    <3> QED
      BY <3>1, <3>2
  <2>6. \A p, q \in Node : sessions'[p][q] # None => AppearsAt(q, sessions'[p][q].underlay)
    BY <2>4, <2>5 DEF AddressesAreTrue
  <2>7. UNCHANGED <<reply, target>>
    BY <1>11 DEF FinishC, tasks
  <2>8. \A p \in Node : \/ greeting'[p] = greeting[p]
                       \/ /\ greeting'[p].peer = o.i[1]
                          /\ greeting'[p].to = m.src
    BY <1>11 DEF FinishC, TypeOK
  <2>9. \A p \in Node : greeting'[p] # None => AppearsAt(greeting'[p].peer, greeting'[p].to)
    BY <2>4, <2>8 DEF AddressesAreTrue
  <2> QED
    BY <2>1, <2>2, <2>6, <2>7, <2>9 DEF AddressesAreTrue
<1>12. ASSUME NEW n \in Node, GreetBack(n)
       PROVE  AddressesAreTrue'
  <2>1. \A m \in net' \ net : m.type = "D"
    BY <1>12 DEF GreetBack, SessionInit, Packet
  <2> QED
    BY <1>12, <2>1 DEF GreetBack, tasks, TypeOK, AddressesAreTrue
<1>13. ASSUME NEW n \in Node, NEW m \in net, Decrypt(n, m)
       PROVE  AddressesAreTrue'
  <2>1. net' \subseteq net
    BY <1>13, ExchangeType DEF Decrypt
  <2>2. \A p \in Node, y \in Addr : responders'[p][y] \in {responders[p][y], None}
    BY <1>13, RetainedType DEF Decrypt, TypeOK
  <2>3. \A p, q \in Node :
          sessions'[p][q] # None =>
            sessions[p][q] # None /\ sessions'[p][q].underlay = sessions[p][q].underlay
    BY <1>13, DecryptKeeps, DecryptKeepsUnderlay
  <2> QED
    BY <1>13, <2>1, <2>2, <2>3 DEF Decrypt, tasks, AddressesAreTrue
<1>14. ASSUME NEW n \in Node, NEW m \in net, NEW e \in Eph, AcceptA(n, m, e)
       PROVE  AddressesAreTrue'
  <2>1. m \in Msg /\ m.src \in Addr /\ m.type = "A" /\ e[1] = n
    BY <1>14 DEF AcceptA, TypeOK, Msg
  <2>2. AppearsAt(m.i[1], m.src) /\ AppearsAt(n, Source[n][m.src])
    BY <2>1 DEF AddressesAreTrue, AppearsAt
  <2>3. \A o \in net' \ net : o.type = "B" /\ o.r = e /\ o.src = Source[n][m.src]
    BY <1>14 DEF AcceptA, Exchange, Packet
  <2>4. \A p \in Node, y \in Addr :
          responders'[p][y] # None =>
            responders'[p][y] = responders[p][y] \/ (y = m.src /\ responders'[p][y].i = m.i)
    BY <1>14, <2>1, RetainedType DEF AcceptA, TypeOK
  <2>5. \A p \in Node, y \in Addr :
          responders'[p][y] # None => AppearsAt(responders'[p][y].i[1], y)
    BY <2>2, <2>4 DEF AddressesAreTrue
  <2>6. UNCHANGED <<reply, target, sessions, greeting>>
    BY <1>14 DEF AcceptA, tasks
  <2> QED
    BY <2>1, <2>2, <2>3, <2>5, <2>6 DEF AddressesAreTrue
<1>15. ASSUME NEW n \in Node, NEW m \in net, Ignore(n, m)
       PROVE  AddressesAreTrue'
  <2>1. net' \subseteq net
    BY <1>15, ExchangeType DEF Ignore
  <2>2. \A p \in Node, y \in Addr : responders'[p][y] \in {responders[p][y], None}
    BY <1>15, RetainedType DEF Ignore, TypeOK
  <2> QED
    BY <1>15, <2>1, <2>2 DEF Ignore, tasks, AddressesAreTrue
<1>16. ASSUME NEW n \in Node, NEW x \in Addr, Stale(n, x)
       PROVE  AddressesAreTrue'
  <2>1. \A p \in Node, y \in Addr :
          responders'[p][y] # None =>
            responders[p][y] # None /\ responders'[p][y].i = responders[p][y].i
    <3>1. responders[n][x] \in Offer
      BY <1>16 DEF Stale, TypeOK
    <3>2. [responders[n][x] EXCEPT !.stale = TRUE].i = responders[n][x].i
      BY <3>1 DEF Offer
    <3> QED
      BY <1>16, <3>2 DEF Stale, TypeOK
  <2> QED
    BY <1>16, <2>1 DEF Stale, tasks, AddressesAreTrue
<1>17. ASSUME NEW m \in net, Lose(m)
       PROVE  AddressesAreTrue'
  BY <1>17 DEF Lose, tasks, tables, AddressesAreTrue
<1>18. ASSUME NEW n \in Node, Restart(n)
       PROVE  AddressesAreTrue'
  BY <1>18 DEF Restart, TypeOK, AddressesAreTrue
<1>19. CASE UNCHANGED vars
  BY <1>19 DEF vars, tasks, tables, AddressesAreTrue
<1>20. ASSUME NEW k \in Eph, Index(k)
       PROVE  AddressesAreTrue'
  BY <1>20 DEF Index, AddressesAreTrue
<1>21. ASSUME NEW n \in Node, IndexBack(n)
       PROVE  AddressesAreTrue'
  <2>1. greeting[n] \in Greeting
    BY <1>21 DEF IndexBack, TypeOK
  <2>2. /\ [greeting[n] EXCEPT !.indexed = TRUE].peer = greeting[n].peer
        /\ [greeting[n] EXCEPT !.indexed = TRUE].to = greeting[n].to
    BY <2>1 DEF Greeting
  <2>3. \A p \in Node : greeting'[p] # None => AppearsAt(greeting'[p].peer, greeting'[p].to)
    BY <1>21, <2>2 DEF IndexBack, TypeOK, AddressesAreTrue
  <2> QED
    BY <1>21, <2>3 DEF IndexBack, tasks, AddressesAreTrue
<1>22. ASSUME NEW n \in Node, StunAnswers(n)
       PROVE  AddressesAreTrue'
  BY <1>22 DEF StunAnswers, tasks, tables, AddressesAreTrue
<1> QED
  BY <1>1, <1>2, <1>3, <1>4, <1>5, <1>6, <1>7, <1>8, <1>9, <1>10, <1>11, <1>12,
     <1>13, <1>14, <1>15, <1>16, <1>17, <1>18, <1>19, <1>20, <1>21, <1>22
     DEF Next, Attempt, Receive

\* Every session keeps its entry in addr_index, or gets it in the next step of
\* whoever stored it.
LEMMA StepIndex ==
  ASSUME SourcesDiffer, TypeOK, TaskData, GreetingHasSession, AddressesAreTrue,
         UnderlayIsIndexed,
         [Next]_vars
  PROVE  UnderlayIsIndexed'
<1>1. ASSUME NEW n \in Node, NEW x \in Addr, NEW k \in Eph, Discover(n, x, k)
      PROVE  UnderlayIsIndexed'
  <2>1. /\ addrIndex' = [addrIndex EXCEPT ![n][x] = None]
        /\ UNCHANGED sessions
        /\ ~Connected(n, x)
    BY <1>1 DEF Discover, Skip
  <2>2. addrIndex[n][x] = None
    BY <2>1 DEF Connected, UnderlayIsIndexed
  <2>3. UNCHANGED addrIndex
    BY <2>1, <2>2 DEF TypeOK
  <2>4. pc[k] = "done"
    BY <1>1 DEF Discover, Free
  <2>5. \A m, p \in Node, y \in Addr : BetweenInserts(m, p, y) => BetweenInserts(m, p, y)'
    BY <1>1, <2>4, BetweenStays DEF Discover, TypeOK
  <2> QED
    BY <2>1, <2>3, <2>5, QuietKeepsIndex
<1>2. ASSUME NEW k \in Eph, SendA(k)
      PROVE  UnderlayIsIndexed'
  BY <1>2, BetweenStays, QuietKeepsIndex DEF SendA, End, TypeOK
<1>3. ASSUME NEW k \in Eph, SendC(k)
      PROVE  UnderlayIsIndexed'
  BY <1>3, BetweenStays, QuietKeepsIndex DEF SendC, End, TypeOK, tables
<1>4. ASSUME NEW k \in Eph, Install(k)
      PROVE  UnderlayIsIndexed'
  <2>1. /\ reply[k].r \in Eph /\ target[k] \in Addr
        /\ k[1] \in Node /\ reply[k].r[1] \in Node
    BY <1>4, EphHasNode DEF Install, TaskData, Key, Past
  <2>2. PICK r \in Eph, p \in Node, x \in Addr :
          r = reply[k].r /\ p = reply[k].r[1] /\ x = target[k]
    BY <2>1
  <2>3. StoreSession(k[1], p, k, r, x)
    BY <1>4, <2>2 DEF Install
  <2>4. /\ pc'[k] = "stored" /\ UNCHANGED <<reply, target, greeting, addrIndex>>
        /\ \A j \in Eph : j # k => pc'[j] = pc[j]
    BY <1>4 DEF Install, TypeOK
  <2>5. BetweenInserts(k[1], p, x)'
    BY <2>2, <2>4 DEF BetweenInserts
  <2>6. \A m, q \in Node, y \in Addr : BetweenInserts(m, q, y) => BetweenInserts(m, q, y)'
    BY <2>4, BetweenStays
  <2> QED
    BY <2>1, <2>3, <2>4, <2>5, <2>6, StoreKeepsIndex
<1>5. ASSUME NEW k \in Eph, Greet(k)
      PROVE  UnderlayIsIndexed'
  BY <1>5, BetweenStays, QuietKeepsIndex DEF Greet, End, TypeOK, tables
<1>6. ASSUME NEW k \in Eph, Timeout(k)
      PROVE  UnderlayIsIndexed'
  BY <1>6, BetweenStays, QuietKeepsIndex DEF Timeout, TypeOK, tables
<1>7. ASSUME NEW k \in Eph, Expire(k)
      PROVE  UnderlayIsIndexed'
  BY <1>7, BetweenStays, QuietKeepsIndex DEF Expire, End, TypeOK
<1>8. ASSUME NEW k \in Eph, ChannelDropped(k)
      PROVE  UnderlayIsIndexed'
  BY <1>8, BetweenStays, QuietKeepsIndex DEF ChannelDropped, End, TypeOK, tables
<1>9. ASSUME NEW k \in Eph, SendFails(k)
      PROVE  UnderlayIsIndexed'
  <2>1. End(k) /\ UNCHANGED tables /\ pc[k] # "stored"
    BY <1>9 DEF SendFails
  <2> QED
    BY <2>1, BetweenStays, QuietKeepsIndex DEF End, TypeOK, tables
<1>10. ASSUME NEW n \in Node, NEW m \in net, DispatchB(n, m)
       PROVE  UnderlayIsIndexed'
  <2>1. \A j \in Eph : pc[j] = "stored" => pc'[j] = "stored" /\ reply'[j] = reply[j]
    BY <1>10 DEF DispatchB, TypeOK
  <2> QED
    BY <1>10, <2>1, BetweenStays, QuietKeepsIndex DEF DispatchB
<1>11. ASSUME NEW n \in Node, NEW m \in net, FinishC(n, m)
       PROVE  UnderlayIsIndexed'
  <2> DEFINE o == responders[n][m.src]
  <2>1. o \in Offer /\ o.i \in Eph /\ o.i[1] \in Node /\ o.r \in Eph /\ m.src \in Addr
    BY <1>11, OfferAtHand, EphHasNode DEF FinishC
  <2>2. greeting[n] = None /\ UNCHANGED <<pc, reply, target, addrIndex>>
    BY <1>11 DEF FinishC, Reads, tasks
  <2>3. \A p \in Node : greeting[p] # None => greeting'[p] = greeting[p]
    BY <1>11, <2>2 DEF FinishC, TypeOK
  <2>4. \A p, q \in Node, y \in Addr : BetweenInserts(p, q, y) => BetweenInserts(p, q, y)'
    BY <2>2, <2>3, BetweenStays
  <2>5. CASE Completes(m, o)
    <3>1. PICK i \in Eph, r \in Eph, p \in Node, x \in Addr :
            i = o.i /\ r = o.r /\ p = o.i[1] /\ x = m.src
      BY <2>1
    <3>2. StoreSession(n, p, i, r, x)
      BY <1>11, <2>5, <3>1 DEF FinishC
    <3>3. greeting' = [greeting EXCEPT ![n] = [peer |-> o.i[1], to |-> m.src, indexed |-> FALSE]]
      BY <1>11, <2>5 DEF FinishC
    <3>4. greeting'[n] = [peer |-> p, to |-> x, indexed |-> FALSE]
      BY <3>1, <3>3 DEF TypeOK
    <3>5. BetweenInserts(n, p, x)'
      BY <3>4 DEF BetweenInserts
    <3> QED
      BY <2>2, <2>4, <3>2, <3>5, StoreKeepsIndex
  <2>6. CASE ~Completes(m, o)
    BY <1>11, <2>2, <2>4, <2>6, QuietKeepsIndex DEF FinishC
  <2> QED
    BY <2>5, <2>6
<1>12. ASSUME NEW n \in Node, GreetBack(n)
       PROVE  UnderlayIsIndexed'
  <2>1. ASSUME NEW p \in Node, NEW q \in Node, NEW y \in Addr, BetweenInserts(p, q, y)
        PROVE  BetweenInserts(p, q, y)'
    <3>1. CASE p = n /\ greeting[p] = [peer |-> q, to |-> y, indexed |-> FALSE]
      BY <1>12, <3>1 DEF GreetBack
    <3>2. CASE p # n
      BY <1>12, <2>1, <3>2 DEF GreetBack, tasks, TypeOK, BetweenInserts
    <3>3. CASE \E k \in Eph : /\ k[1] = p /\ pc[k] = "stored"
                              /\ reply[k].r[1] = q /\ target[k] = y
      BY <1>12, <3>3 DEF GreetBack, tasks, BetweenInserts
    <3> QED
      BY <2>1, <3>1, <3>2, <3>3 DEF BetweenInserts
  <2> QED
    BY <1>12, <2>1, QuietKeepsIndex DEF GreetBack
<1>13. ASSUME NEW n \in Node, NEW m \in net, Decrypt(n, m)
       PROVE  UnderlayIsIndexed'
  <2>1. \A p, q \in Node :
          /\ sessions[p][q] # None <=> sessions'[p][q] # None
          /\ sessions[p][q] # None => /\ sessions'[p][q].underlay = sessions[p][q].underlay
                                     /\ sessions[p][q].underlay \in Addr
    BY <1>13, DecryptKeeps, DecryptKeepsUnderlay DEF TypeOK, Session
  <2>2. \A p, q \in Node, y \in Addr : BetweenInserts(p, q, y) => BetweenInserts(p, q, y)'
    BY <1>13, BetweenStays DEF Decrypt, tasks
  <2>3. \A p \in Node, y \in Addr : addrIndex[p][y] # None => addrIndex[p][y] \in Node
    BY DEF TypeOK
  <2> QED
    BY <1>13, <2>1, <2>2, <2>3 DEF Decrypt, UnderlayIsIndexed
<1>14. ASSUME NEW n \in Node, NEW m \in net, NEW e \in Eph, AcceptA(n, m, e)
       PROVE  UnderlayIsIndexed'
  BY <1>14, BetweenStays, QuietKeepsIndex DEF AcceptA, tasks
<1>15. ASSUME NEW n \in Node, NEW m \in net, Ignore(n, m)
       PROVE  UnderlayIsIndexed'
  BY <1>15, BetweenStays, QuietKeepsIndex DEF Ignore, tasks
<1>16. ASSUME NEW n \in Node, NEW x \in Addr, Stale(n, x)
       PROVE  UnderlayIsIndexed'
  BY <1>16, BetweenStays, QuietKeepsIndex DEF Stale, tasks
<1>17. ASSUME NEW m \in net, Lose(m)
       PROVE  UnderlayIsIndexed'
  BY <1>17, BetweenStays, QuietKeepsIndex DEF Lose, tasks, tables
<1>18. ASSUME NEW n \in Node, Restart(n)
       PROVE  UnderlayIsIndexed'
  <2>1. /\ \A p \in Node, y \in Addr :
             /\ p = n => addrIndex'[p][y] = None
             /\ p # n => addrIndex'[p][y] = addrIndex[p][y]
        /\ \A p, q \in Node :
             /\ p = n => sessions'[p][q] = None
             /\ p # n => sessions'[p][q] = sessions[p][q]
    BY <1>18 DEF Restart, TypeOK
  <2>2. \A p, q \in Node, y \in Addr :
          p # n /\ BetweenInserts(p, q, y) => BetweenInserts(p, q, y)'
    <3> SUFFICES ASSUME NEW p \in Node, NEW q \in Node, NEW y \in Addr,
                        p # n, BetweenInserts(p, q, y)
                 PROVE  BetweenInserts(p, q, y)'
      OBVIOUS
    <3>1. greeting'[p] = greeting[p]
      BY <1>18 DEF Restart, TypeOK
    <3>2. \A k \in Eph : k[1] = p => /\ pc'[k] = pc[k]
                                     /\ reply'[k] = reply[k]
                                     /\ target'[k] = target[k]
      BY <1>18 DEF Restart
    <3> QED
      BY <3>1, <3>2 DEF BetweenInserts
  <2>3. \A p, q \in Node : sessions[p][q] # None => sessions[p][q].underlay \in Addr
    BY DEF TypeOK, Session
  <2>4. \A p \in Node, y \in Addr : addrIndex[p][y] # None => addrIndex[p][y] \in Node
    BY DEF TypeOK
  <2> QED
    BY <2>1, <2>2, <2>3, <2>4 DEF UnderlayIsIndexed
<1>19. CASE UNCHANGED vars
  BY <1>19, BetweenStays, QuietKeepsIndex DEF vars, tasks, tables
<1>20. ASSUME NEW k \in Eph, Index(k)
       PROVE  UnderlayIsIndexed'
  <2>1. /\ reply[k] \in Key /\ target[k] \in Addr /\ reply[k] # None
        /\ k[1] \in Node /\ reply[k].r[1] \in Node
        /\ sessions[k[1]][reply[k].r[1]] # None
    BY <1>20, EphHasNode, NoneIsNothing DEF Index, TaskData, Key, Past
  <2>2. PICK p \in Node, x \in Addr : p = reply[k].r[1] /\ x = target[k]
    BY <2>1
  <2>3. AppearsAt(p, x)
    BY <2>1, <2>2 DEF AddressesAreTrue
  <2>4. /\ IndexSession(k[1], p, x)
        /\ UNCHANGED <<sessions, reply, target, greeting>>
        /\ \A j \in Eph : j # k => pc'[j] = pc[j]
    BY <1>20, <2>2 DEF Index, TypeOK
  <2>5. \A m, q \in Node, y \in Addr :
          BetweenInserts(m, q, y) => BetweenInserts(m, q, y)' \/ (m = k[1] /\ q = p /\ y = x)
    BY <2>2, <2>4 DEF BetweenInserts
  <2> QED
    BY <2>1, <2>2, <2>3, <2>4, <2>5, IndexKeepsIndex
<1>21. ASSUME NEW n \in Node, IndexBack(n)
       PROVE  UnderlayIsIndexed'
  <2>1. /\ greeting[n].peer \in Node /\ greeting[n].to \in Addr
        /\ AppearsAt(greeting[n].peer, greeting[n].to)
        /\ sessions[n][greeting[n].peer] # None
    BY <1>21 DEF IndexBack, TypeOK, Greeting, GreetingHasSession, AddressesAreTrue
  <2>2. PICK p \in Node, x \in Addr : p = greeting[n].peer /\ x = greeting[n].to
    BY <2>1
  <2>3. /\ IndexSession(n, p, x)
        /\ UNCHANGED <<sessions, reply, target, pc>>
        /\ \A m \in Node : m # n => greeting'[m] = greeting[m]
    BY <1>21, <2>2 DEF IndexBack, tasks, TypeOK
  <2>4. \A m, q \in Node, y \in Addr :
          BetweenInserts(m, q, y) => BetweenInserts(m, q, y)' \/ (m = n /\ q = p /\ y = x)
    BY <2>2, <2>3 DEF BetweenInserts
  <2> QED
    BY <2>1, <2>2, <2>3, <2>4, IndexKeepsIndex
<1>22. ASSUME NEW n \in Node, StunAnswers(n)
       PROVE  UnderlayIsIndexed'
  BY <1>22, BetweenStays, QuietKeepsIndex DEF StunAnswers, tasks, tables
<1> QED
  BY <1>1, <1>2, <1>3, <1>4, <1>5, <1>6, <1>7, <1>8, <1>9, <1>10, <1>11, <1>12,
     <1>13, <1>14, <1>15, <1>16, <1>17, <1>18, <1>19, <1>20, <1>21, <1>22
     DEF Next, Attempt, Receive

\* A step that leaves sessions and responders alone, and sends no message A to
\* its own node but from a blind attempt, leads nobody else to itself.
LEMMA QuietKeepsSelf ==
  ASSUME OnlyBlindMeetSelf, UNCHANGED <<responders, sessions, blind>>,
         \A n \in Node : stun'[n] # None => stun'[n] \in StunFinds[n],
         \A k \in Eph : target'[k] = target[k] \/ target'[k] = None,
         \A m \in net' : m.type = "A" /\ OwnerOf[m.dst] = m.i[1] => m.i \in blind
  PROVE  OnlyBlindMeetSelf'
<1>1. \A n \in Node : Retained(n)' = Retained(n)
  BY DEF Retained
<1> QED
  BY <1>1 DEF OnlyBlindMeetSelf, SelfSessionIsBlind

\* Only blind attempts come to dial, to be answered by or to be filed with
\* their own node.
LEMMA StepMeets ==
  ASSUME OwnAddressesFound, TypeOK, TaskData, OnlyBlindMeetSelf,
         [Next]_vars
  PROVE  OnlyBlindMeetSelf'
<1>1. ASSUME NEW n \in Node, NEW x \in Addr, NEW k \in Eph, Discover(n, x, k)
      PROVE  OnlyBlindMeetSelf'
  <2>1. /\ target' = [target EXCEPT ![k] = x]
        /\ blind' = IF stun[n] = None THEN blind \cup {k} ELSE blind \ {k}
        /\ k[1] = n /\ x \in Discovers[n] /\ x # stun[n]
        /\ UNCHANGED <<net, responders, sessions, stun>>
    BY <1>1 DEF Discover, Skip
  <2>2. OwnerOf[x] = n => stun[n] = None
    BY <2>1 DEF OwnAddressesFound, OnlyBlindMeetSelf
  <2>3. /\ \A m \in net : m.i # k
        /\ \A p \in Node, y \in Addr : Retained(p)[y] # None => Retained(p)[y].i # k
        /\ \A p, q \in Node : sessions[p][q] # None => sessions[p][q].i # k
    <3>1. \A m \in net : m # None
      BY NoneIsNothing DEF TypeOK
    <3> QED
      BY <1>1, <3>1 DEF Discover, Free, Mentions
  <2>4. \A p \in Node : Retained(p)' = Retained(p)
    BY <2>1 DEF Retained
  <2>5. \A j \in Eph : j # k => (j \in blind <=> j \in blind')
    BY <2>1
  <2>6. /\ \A m \in net : m.i \in Eph
        /\ \A p \in Node, y \in Addr : Retained(p)[y] # None => Retained(p)[y].i \in Eph
        /\ \A p, q \in Node : sessions[p][q] # None => sessions[p][q].i \in Eph
    BY RetainedType DEF TypeOK, Msg, Offer, Session
  <2>7. \A j \in Eph : target'[j] # None /\ OwnerOf[target'[j]] = j[1] => j \in blind'
    BY <2>1, <2>2, <2>5 DEF OnlyBlindMeetSelf, TypeOK
  <2> QED
    BY <2>1, <2>3, <2>4, <2>5, <2>6, <2>7 DEF OnlyBlindMeetSelf, SelfSessionIsBlind
<1>2. ASSUME NEW k \in Eph, SendA(k)
      PROVE  OnlyBlindMeetSelf'
  <2>1. target[k] \in Addr /\ target[k] # None
    BY <1>2, NoneIsNothing DEF SendA, TaskData
  <2>2. \A m \in net' \ net : m.dst = target[k] /\ m.i = k
    BY <1>2 DEF SendA, Packet
  <2>3. \A j \in Eph : target'[j] = target[j] \/ target'[j] = None
    BY <1>2 DEF SendA, End, TypeOK
  <2>4. UNCHANGED <<responders, sessions, blind, stun>>
    BY <1>2 DEF SendA, self
  <2>5. \A m \in net' : m.type = "A" /\ OwnerOf[m.dst] = m.i[1] => m.i \in blind
    BY <2>1, <2>2 DEF OnlyBlindMeetSelf
  <2> QED
    BY <2>3, <2>4, <2>5, QuietKeepsSelf DEF OnlyBlindMeetSelf
<1>3. ASSUME NEW k \in Eph, SendC(k)
      PROVE  OnlyBlindMeetSelf'
  <2>1. \A m \in net' \ net : m.type # "A"
    BY <1>3 DEF SendC, Packet
  <2>2. /\ \A j \in Eph : target'[j] = target[j] \/ target'[j] = None
        /\ UNCHANGED <<responders, sessions, blind, stun>>
    BY <1>3 DEF SendC, End, TypeOK, tables, self
  <2>3. \A m \in net' : m.type = "A" /\ OwnerOf[m.dst] = m.i[1] => m.i \in blind
    BY <2>1 DEF OnlyBlindMeetSelf
  <2> QED
    BY <2>2, <2>3, QuietKeepsSelf DEF OnlyBlindMeetSelf
<1>4. ASSUME NEW k \in Eph, Install(k)
      PROVE  OnlyBlindMeetSelf'
  <2>1. /\ reply[k].r \in Eph /\ target[k] \in Addr /\ reply[k].r[1] # k[1]
        /\ k[1] \in Node /\ reply[k].r[1] \in Node
    BY <1>4, EphHasNode DEF Install, TaskData, Key, Past
  <2>2. \A p, q \in Node : p # k[1] \/ q # reply[k].r[1] => sessions'[p][q] = sessions[p][q]
    BY <1>4, <2>1, StoreKeeps DEF Install
  <2>3. \A p \in Node : sessions'[p][p] = sessions[p][p]
    BY <2>1, <2>2
  <2>4. UNCHANGED <<net, target, responders, blind, stun>>
    BY <1>4 DEF Install, self
  <2> QED
    BY <2>3, <2>4 DEF OnlyBlindMeetSelf, SelfSessionIsBlind, Retained
<1>5. ASSUME NEW k \in Eph, Greet(k)
      PROVE  OnlyBlindMeetSelf'
  <2>1. \A m \in net' \ net : m.type # "A"
    BY <1>5 DEF Greet, SessionInit, Packet
  <2>2. /\ \A j \in Eph : target'[j] = target[j] \/ target'[j] = None
        /\ UNCHANGED <<responders, sessions, blind, stun>>
    BY <1>5 DEF Greet, End, TypeOK, tables, self
  <2>3. \A m \in net' : m.type = "A" /\ OwnerOf[m.dst] = m.i[1] => m.i \in blind
    BY <2>1 DEF OnlyBlindMeetSelf
  <2> QED
    BY <2>2, <2>3, QuietKeepsSelf DEF OnlyBlindMeetSelf
<1>6. ASSUME NEW k \in Eph, Timeout(k)
      PROVE  OnlyBlindMeetSelf'
  <2>1. \A m \in net' \ net : m.type # "A"
    BY <1>6 DEF Timeout
  <2>2. /\ \A j \in Eph : target'[j] = target[j] \/ target'[j] = None
        /\ UNCHANGED <<responders, sessions, blind, stun>>
    BY <1>6 DEF Timeout, TypeOK, tables, self
  <2>3. \A m \in net' : m.type = "A" /\ OwnerOf[m.dst] = m.i[1] => m.i \in blind
    BY <2>1 DEF OnlyBlindMeetSelf
  <2> QED
    BY <2>2, <2>3, QuietKeepsSelf DEF OnlyBlindMeetSelf
<1>7. ASSUME NEW k \in Eph, Expire(k)
      PROVE  OnlyBlindMeetSelf'
  <2>1. \A m \in net' \ net : m.type # "A"
    BY <1>7 DEF Expire
  <2>2. /\ \A j \in Eph : target'[j] = target[j] \/ target'[j] = None
        /\ UNCHANGED <<responders, sessions, blind, stun>>
    BY <1>7 DEF Expire, End, TypeOK, self
  <2>3. \A m \in net' : m.type = "A" /\ OwnerOf[m.dst] = m.i[1] => m.i \in blind
    BY <2>1 DEF OnlyBlindMeetSelf
  <2> QED
    BY <2>2, <2>3, QuietKeepsSelf DEF OnlyBlindMeetSelf
<1>8. ASSUME NEW k \in Eph, ChannelDropped(k)
      PROVE  OnlyBlindMeetSelf'
  <2>1. \A m \in net' \ net : m.type # "A"
    BY <1>8 DEF ChannelDropped
  <2>2. /\ \A j \in Eph : target'[j] = target[j] \/ target'[j] = None
        /\ UNCHANGED <<responders, sessions, blind, stun>>
    BY <1>8 DEF ChannelDropped, End, TypeOK, tables, self
  <2>3. \A m \in net' : m.type = "A" /\ OwnerOf[m.dst] = m.i[1] => m.i \in blind
    BY <2>1 DEF OnlyBlindMeetSelf
  <2> QED
    BY <2>2, <2>3, QuietKeepsSelf DEF OnlyBlindMeetSelf
<1>9. ASSUME NEW k \in Eph, SendFails(k)
      PROVE  OnlyBlindMeetSelf'
  <2>1. \A m \in net' \ net : m.type # "A"
    BY <1>9 DEF SendFails
  <2>2. /\ \A j \in Eph : target'[j] = target[j] \/ target'[j] = None
        /\ UNCHANGED <<responders, sessions, blind, stun>>
    BY <1>9 DEF SendFails, End, TypeOK, tables, self
  <2>3. \A m \in net' : m.type = "A" /\ OwnerOf[m.dst] = m.i[1] => m.i \in blind
    BY <2>1 DEF OnlyBlindMeetSelf
  <2> QED
    BY <2>2, <2>3, QuietKeepsSelf DEF OnlyBlindMeetSelf
<1>10. ASSUME NEW n \in Node, NEW m \in net, DispatchB(n, m)
       PROVE  OnlyBlindMeetSelf'
  <2>1. net' \subseteq net /\ UNCHANGED <<target, blind, stun, sessions>>
    BY <1>10, ExchangeType DEF DispatchB, tasks, self
  <2>2. \A p \in Node, y \in Addr : Retained(p)'[y] = Retained(p)[y]
    BY <1>10, RetainedType DEF DispatchB, Retained, TypeOK
  <2> QED
    BY <2>1, <2>2 DEF OnlyBlindMeetSelf, SelfSessionIsBlind
<1>11. ASSUME NEW n \in Node, NEW m \in net, FinishC(n, m)
       PROVE  OnlyBlindMeetSelf'
  <2> DEFINE o == responders[n][m.src]
  <2>1. o \in Offer /\ o.i \in Eph /\ o.i[1] \in Node /\ o.r \in Eph /\ m.src \in Addr
        /\ Retained(n)[m.src] = o /\ o # None
    BY <1>11, OfferAtHand, EphHasNode, NoneIsNothing DEF FinishC
  <2>2. net' \subseteq net /\ UNCHANGED <<target, blind, stun>>
    BY <1>11, ExchangeType DEF FinishC, tasks, self
  <2>3. /\ \A p \in Node, y \in Addr :
             p # n \/ y # m.src => Retained(p)'[y] = Retained(p)[y]
        /\ Retained(n)'[m.src] = None
    BY <1>11, <2>1, RetainedAfter DEF FinishC
  <2>4. o.i[1] = n => o.i \in blind
    BY <2>1 DEF OnlyBlindMeetSelf
  <2>5. \A p \in Node : sessions'[p][p] # None => sessions'[p][p].i \in blind
    <3>1. CASE Completes(m, o)
      <4>1. StoreSession(n, o.i[1], o.i, o.r, m.src)
        BY <1>11, <3>1 DEF FinishC
      <4>2. /\ \A p, q \in Node : p # n \/ q # o.i[1] => sessions'[p][q] = sessions[p][q]
            /\ sessions'[n][o.i[1]].i = o.i
        BY <2>1, <4>1, StoreKeeps
      <4> HIDE DEF o
      <4> QED
        BY <2>4, <4>2 DEF OnlyBlindMeetSelf, SelfSessionIsBlind
    <3>2. CASE ~Completes(m, o)
      BY <1>11, <3>2 DEF FinishC, OnlyBlindMeetSelf, SelfSessionIsBlind
    <3> QED
      BY <3>1, <3>2
  <2> HIDE DEF o
  <2> QED
    BY <2>2, <2>3, <2>5 DEF OnlyBlindMeetSelf, SelfSessionIsBlind
<1>12. ASSUME NEW n \in Node, GreetBack(n)
       PROVE  OnlyBlindMeetSelf'
  <2>1. \A m \in net' \ net : m.type # "A"
    BY <1>12 DEF GreetBack, SessionInit, Packet
  <2>2. /\ \A j \in Eph : target'[j] = target[j] \/ target'[j] = None
        /\ UNCHANGED <<responders, sessions, blind, stun>>
    BY <1>12 DEF GreetBack, tasks, self
  <2>3. \A m \in net' : m.type = "A" /\ OwnerOf[m.dst] = m.i[1] => m.i \in blind
    BY <2>1 DEF OnlyBlindMeetSelf
  <2> QED
    BY <2>2, <2>3, QuietKeepsSelf DEF OnlyBlindMeetSelf
<1>13. ASSUME NEW n \in Node, NEW m \in net, Decrypt(n, m)
       PROVE  OnlyBlindMeetSelf'
  <2>1. net' \subseteq net /\ UNCHANGED <<target, blind, stun>>
    BY <1>13, ExchangeType DEF Decrypt, tasks, self
  <2>2. \A p \in Node, y \in Addr : Retained(p)'[y] = Retained(p)[y]
    BY <1>13, RetainedType DEF Decrypt, Retained, TypeOK
  <2>3. SelfSessionIsBlind'
    BY <1>13, <2>1, DecryptKeeps DEF OnlyBlindMeetSelf, SelfSessionIsBlind
  <2> QED
    BY <2>1, <2>2, <2>3 DEF OnlyBlindMeetSelf
<1>14. ASSUME NEW n \in Node, NEW m \in net, NEW e \in Eph, AcceptA(n, m, e)
       PROVE  OnlyBlindMeetSelf'
  <2> DEFINE o == [i |-> m.i, r |-> e, stale |-> FALSE]
  <2>1. m.src \in Addr /\ o \in Offer /\ m.i \in Eph
    BY DEF TypeOK, Msg, Offer
  <2>2. m.i[1] = n => m.i \in blind
    BY <1>14 DEF AcceptA, Reads, OnlyBlindMeetSelf
  <2>3. /\ \A j \in net' \ net : j.type = "B"
        /\ UNCHANGED <<target, blind, stun, sessions>>
    BY <1>14 DEF AcceptA, Exchange, Packet, tasks, self
  <2>4. /\ responders' = [responders EXCEPT ![n] = [Retained(n) EXCEPT ![m.src] = o]]
        /\ o.i = m.i /\ o.stale = FALSE
    BY <1>14 DEF AcceptA
  <2> HIDE DEF o
  <2>5. o \in Offer \cup {None} /\ (o # None => o.stale = FALSE)
    BY <2>1, <2>4
  <2>6. /\ \A p \in Node, y \in Addr :
             p # n \/ y # m.src => Retained(p)'[y] = Retained(p)[y]
        /\ Retained(n)'[m.src] = o
    BY <2>1, <2>4, <2>5, RetainedAfter
  <2> QED
    BY <2>2, <2>3, <2>4, <2>6 DEF OnlyBlindMeetSelf, SelfSessionIsBlind
<1>15. ASSUME NEW n \in Node, NEW m \in net, Ignore(n, m)
       PROVE  OnlyBlindMeetSelf'
  <2>1. net' \subseteq net /\ UNCHANGED <<target, blind, stun, sessions>>
    BY <1>15, ExchangeType DEF Ignore, tasks, self
  <2>2. \A p \in Node, y \in Addr : Retained(p)'[y] = Retained(p)[y]
    BY <1>15, RetainedType DEF Ignore, Retained, TypeOK
  <2> QED
    BY <2>1, <2>2 DEF OnlyBlindMeetSelf, SelfSessionIsBlind
<1>16. ASSUME NEW n \in Node, NEW x \in Addr, Stale(n, x)
       PROVE  OnlyBlindMeetSelf'
  <2>1. UNCHANGED <<net, target, blind, stun, sessions>>
    BY <1>16 DEF Stale, tasks, self
  <2>2. \A p \in Node, y \in Addr :
          Retained(p)'[y] = Retained(p)[y] \/ Retained(p)'[y] = None
    BY <1>16 DEF Stale, Retained, TypeOK
  <2> QED
    BY <2>1, <2>2 DEF OnlyBlindMeetSelf, SelfSessionIsBlind
<1>17. ASSUME NEW m \in net, Lose(m)
       PROVE  OnlyBlindMeetSelf'
  <2>1. \A d \in net' \ net : d.type # "A"
    BY <1>17 DEF Lose
  <2>2. /\ \A j \in Eph : target'[j] = target[j] \/ target'[j] = None
        /\ UNCHANGED <<responders, sessions, blind, stun>>
    BY <1>17 DEF Lose, tasks, tables, self
  <2>3. \A d \in net' : d.type = "A" /\ OwnerOf[d.dst] = d.i[1] => d.i \in blind
    BY <2>1 DEF OnlyBlindMeetSelf
  <2> QED
    BY <2>2, <2>3, QuietKeepsSelf DEF OnlyBlindMeetSelf
<1>18. ASSUME NEW n \in Node, Restart(n)
       PROVE  OnlyBlindMeetSelf'
  <2>1. /\ UNCHANGED <<net, blind>>
        /\ \A j \in Eph : target'[j] = target[j] \/ target'[j] = None
        /\ \A p \in Node : sessions'[p][p] = sessions[p][p] \/ sessions'[p][p] = None
        /\ \A p \in Node : stun'[p] = stun[p] \/ stun'[p] = None
    BY <1>18 DEF Restart, TypeOK
  <2>2. \A p \in Node, y \in Addr :
          Retained(p)'[y] = Retained(p)[y] \/ Retained(p)'[y] = None
    BY <1>18 DEF Restart, Retained, TypeOK
  <2> QED
    BY <2>1, <2>2 DEF OnlyBlindMeetSelf, SelfSessionIsBlind
<1>19. CASE UNCHANGED vars
  <2>1. \A m \in net' \ net : m.type # "A"
    BY <1>19 DEF vars
  <2>2. /\ \A j \in Eph : target'[j] = target[j] \/ target'[j] = None
        /\ UNCHANGED <<responders, sessions, blind, stun>>
    BY <1>19 DEF vars, tasks, tables, self
  <2>3. \A m \in net' : m.type = "A" /\ OwnerOf[m.dst] = m.i[1] => m.i \in blind
    BY <2>1 DEF OnlyBlindMeetSelf
  <2> QED
    BY <2>2, <2>3, QuietKeepsSelf DEF OnlyBlindMeetSelf
<1>20. ASSUME NEW k \in Eph, Index(k)
       PROVE  OnlyBlindMeetSelf'
  <2>1. \A m \in net' \ net : m.type # "A"
    BY <1>20 DEF Index
  <2>2. /\ \A j \in Eph : target'[j] = target[j] \/ target'[j] = None
        /\ UNCHANGED <<responders, sessions, blind, stun>>
    BY <1>20 DEF Index, self
  <2>3. \A m \in net' : m.type = "A" /\ OwnerOf[m.dst] = m.i[1] => m.i \in blind
    BY <2>1 DEF OnlyBlindMeetSelf
  <2> QED
    BY <2>2, <2>3, QuietKeepsSelf DEF OnlyBlindMeetSelf
<1>21. ASSUME NEW n \in Node, IndexBack(n)
       PROVE  OnlyBlindMeetSelf'
  <2>1. \A m \in net' \ net : m.type # "A"
    BY <1>21 DEF IndexBack
  <2>2. /\ \A j \in Eph : target'[j] = target[j] \/ target'[j] = None
        /\ UNCHANGED <<responders, sessions, blind, stun>>
    BY <1>21 DEF IndexBack, tasks, self
  <2>3. \A m \in net' : m.type = "A" /\ OwnerOf[m.dst] = m.i[1] => m.i \in blind
    BY <2>1 DEF OnlyBlindMeetSelf
  <2> QED
    BY <2>2, <2>3, QuietKeepsSelf DEF OnlyBlindMeetSelf
<1>22. ASSUME NEW n \in Node, StunAnswers(n)
       PROVE  OnlyBlindMeetSelf'
  <2>1. UNCHANGED <<net, target, responders, sessions, blind>>
    BY <1>22 DEF StunAnswers, tasks, tables
  <2>2. \A p \in Node : stun'[p] # None => stun'[p] \in StunFinds[p]
    BY <1>22 DEF StunAnswers, TypeOK, OnlyBlindMeetSelf
  <2>3. \A m \in net : m.type = "A" /\ OwnerOf[m.dst] = m.i[1] => m.i \in blind
    BY DEF OnlyBlindMeetSelf
  <2> QED
    BY <2>1, <2>2, <2>3, QuietKeepsSelf
<1> QED
  BY <1>1, <1>2, <1>3, <1>4, <1>5, <1>6, <1>7, <1>8, <1>9, <1>10, <1>11, <1>12,
     <1>13, <1>14, <1>15, <1>16, <1>17, <1>18, <1>19, <1>20, <1>21, <1>22
     DEF Next, Attempt, Receive

-----------------------------------------------------------------------------
(* Theorems *)

\* The inductive invariant: the data of every task, the owner of every pending
\* entry, the freshness of attempts and responders, and the uniqueness of what
\* an attempt commits to hold in every reachable state (discovery.rs:43-113,
\* handshake.rs:40-265, inbound.rs:42-369).
THEOREM HandshakeInvariant == Spec => []HandshakeInv
<1>1. HandshakeInv /\ [Next]_vars => HandshakeInv'
  BY StepType, StepTaskData, StepGreeting, StepMessages, StepPending, StepResponders,
     StepAttempts, StepUnique, StepKeyed, StepTransport DEF HandshakeInv
<1> QED
  BY InitInv, <1>1, PTL DEF Spec

\* No node ever installs the transport of one handshake twice, whatever is
\* reordered, repeated, lost or restarted (noise.rs:144-149, inbound.rs:100).
THEOREM TransportsAreFresh == Spec => []TransportIsFresh
<1>1. HandshakeInv => TransportIsFresh
  BY DEF HandshakeInv
<1> QED
  BY <1>1, HandshakeInvariant, PTL

\* No address is blocked for ever by a dial nobody waits for any more
\* (handshake.rs:61-73, 221-224; inbound.rs:88-97; discovery.rs:82-84).
THEOREM PendingEntriesAreOwned == Spec => []PendingIsOwned
<1>1. HandshakeInv => PendingIsOwned
  BY DEF HandshakeInv
<1> QED
  BY <1>1, HandshakeInvariant, PTL

\* Sessions that grew from one attempt are the two ends of one handshake, each
\* under the other's identity (inbound.rs:100-127, 334-351; handshake.rs:82-117).
THEOREM SessionEndsMatch == Spec => []EndsMatch
<1>1. HandshakeInv => EndsMatch
  <2> SUFFICES ASSUME HandshakeInv, NEW n \in Node, NEW p \in Node, sessions[n][p] # None
               PROVE  /\ <<n, p>> \in {<<sessions[n][p].i[1], sessions[n][p].r[1]>>,
                                       <<sessions[n][p].r[1], sessions[n][p].i[1]>>}
                      /\ \A m, q \in Node :
                           sessions[m][q] # None /\ sessions[m][q].i = sessions[n][p].i
                             => sessions[m][q].r = sessions[n][p].r
    BY DEF EndsMatch
  <2>1. SessionsAreKeyed /\ CommitsAreUnique
    BY DEF HandshakeInv
  <2>2. <<n, p>> \in {<<sessions[n][p].i[1], sessions[n][p].r[1]>>,
                      <<sessions[n][p].r[1], sessions[n][p].i[1]>>}
    BY <2>1 DEF SessionsAreKeyed
  <2>3. ASSUME NEW m \in Node, NEW q \in Node, sessions[m][q] # None,
               sessions[m][q].i = sessions[n][p].i
        PROVE  sessions[m][q].r = sessions[n][p].r
    <3>1. /\ [i |-> sessions[n][p].i, r |-> sessions[n][p].r] \in Committed
          /\ [i |-> sessions[m][q].i, r |-> sessions[m][q].r] \in Committed
      BY <2>3, CommittedIs
    <3> QED
      BY <2>1, <2>3, <3>1 DEF CommitsAreUnique
  <2> QED
    BY <2>2, <2>3
<1> QED
  BY <1>1, HandshakeInvariant, PTL

\* Where no two devices appear from one address, a datagram from the address of
\* a session is decrypted on that session, save between the two inserts of
\* whoever stored it, and the index leads to no peer without a session: neither
\* another task's inserts nor the discovery loop, at whatever moment, takes the
\* entry of a session away (inbound.rs:121-128, 198; handshake.rs:111-118;
\* discovery.rs:74-89).
THEOREM UnderlaysAreIndexed ==
  ASSUME SourcesDiffer
  PROVE  Spec => []UnderlayIsIndexed
<1>1. Init => AddressInv
  BY DEF Init, tasks, AddressInv, AddressesAreTrue, UnderlayIsIndexed
<1>2. HandshakeInv /\ AddressInv /\ [Next]_vars => AddressInv'
  BY StepAddresses, StepIndex DEF HandshakeInv, AddressInv
<1>3. AddressInv => UnderlayIsIndexed
  BY DEF AddressInv
<1> QED
  BY <1>1, <1>2, <1>3, HandshakeInvariant, PTL DEF Spec

\* Where STUN, whenever it answers, finds the address a device is listed under,
\* a device gets a session with itself by attempts it spawned before the first
\* answer of its daemon's life only (discovery.rs:69-73, inbound.rs:100-127,
\* handshake.rs:103-105, lib.rs:200-236).
THEOREM SelfSessionsAreBlind ==
  ASSUME OwnAddressesFound
  PROVE  Spec => []SelfSessionIsBlind
<1>1. Init => OnlyBlindMeetSelf
  BY DEF Init, tasks, OnlyBlindMeetSelf, SelfSessionIsBlind, Retained
<1>2. HandshakeInv /\ OnlyBlindMeetSelf /\ [Next]_vars => OnlyBlindMeetSelf'
  BY StepMeets DEF HandshakeInv
<1>3. OnlyBlindMeetSelf => SelfSessionIsBlind
  BY DEF OnlyBlindMeetSelf
<1> QED
  BY <1>1, <1>2, <1>3, HandshakeInvariant, PTL DEF Spec

=============================================================================
