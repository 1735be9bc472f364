----------------------------- MODULE RelayProofs ----------------------------
(***************************************************************************)
(* Proofs about Relay for any set of nodes, any topology and any number of *)
(* packets, losses and timeouts: the next hop of a relay path is a         *)
(* neighbour with neighbours of its own, a route leads somewhere, nothing  *)
(* leads a node to itself, and relayed data surfaces where it was sent to. *)
(* The last two have a hypothesis each, a history in the one case and a    *)
(* condition on the state in the other, explained in Relay.                *)
(*                                                                         *)
(* The argument: a step is described once by the datagrams it sends        *)
(* (NewMessages), the paths it learns (PathSteps) and the sessions it      *)
(* opens (SessionSteps), each with its reason; the invariants follow from  *)
(* these descriptions without a look at the actions.                       *)
(***************************************************************************)
EXTENDS Relay, SequenceTheorems, FiniteSetTheorems, TLAPS

\* Each message is of its type.
LEMMA MessageTypes ==
  /\ C \in Msg /\ SessionInit \in Msg /\ Announce \in Msg
  /\ \A E \in SUBSET Entry : Directory(E) \in Msg
  /\ \A d \in Node : Request(d) \in Msg
  /\ \A d \in Node, h \in 0 .. 255 : Ready(d, h) \in Msg
  /\ \A s, d \in Node : Data(s, d) \in Msg
<1>1. C \in Msg /\ SessionInit \in Msg /\ Announce \in Msg
  BY DEF C, SessionInit, Announce, Msg
<1>2. \A E \in SUBSET Entry : Directory(E) \in Msg
  BY DEF Directory, Msg
<1>3. \A d \in Node : Request(d) \in Msg
  BY DEF Request, Msg
<1>4. \A d \in Node, h \in 0 .. 255 : Ready(d, h) \in Msg
  BY DEF Ready, Msg
<1>5. \A s, d \in Node : Data(s, d) \in Msg
  BY DEF Data, Msg
<1> QED
  BY <1>1, <1>2, <1>3, <1>4, <1>5

\* What the fields of a message are.
LEMMA MessageFields ==
  ASSUME NEW m \in Msg
  PROVE  /\ m.type = "PeerDirectory" => m.entries \in SUBSET Entry
         /\ m.type = "RelayRequest" => m.dst \in Node
         /\ m.type = "RelayReady" => m.dst \in Node /\ m.hops \in 0 .. 255
         /\ m.type = "RelayData" => m.src \in Node /\ m.dst \in Node
BY DEF Msg

\* Sequences of one and of two messages.
LEMMA ShortSequences ==
  ASSUME NEW S
  PROVE  /\ <<>> \in Seq(S)
         /\ \A x \in S : <<x>> \in Seq(S)
         /\ \A x, y \in S : <<x, y>> \in Seq(S)
         /\ \A s, t \in Seq(S) : s \o t \in Seq(S)
OBVIOUS

\* What is left of a longer link after taking a datagram off it.
LEMMA RemoveAtType ==
  ASSUME NEW S, NEW q \in Seq(S), NEW i \in 1 .. Len(q), NEW tail \in Seq(S)
  PROVE  RemoveAt(q \o tail, i) \in Seq(S)
<1> DEFINE w == q \o tail
<1>1. w \in Seq(S) /\ Len(w) \in Nat /\ Len(q) \in Nat /\ Len(w) = Len(q) + Len(tail) /\ Len(tail) \in Nat
  BY ConcatProperties, LenProperties
<1>2. \A j \in 1 .. Len(w) : w[j] \in S
  BY <1>1, ElementOfSeq
<1>3. SubSeq(w, 1, i - 1) \in Seq(S)
  <2>1. 1 \in Int /\ i - 1 \in Int /\ \A j \in 1 .. (i - 1) : w[j] \in S
    BY <1>1, <1>2
  <2> QED
    BY <2>1, SubSeqProperties
<1>4. SubSeq(w, i + 1, Len(w)) \in Seq(S)
  <2>1. i + 1 \in Int /\ Len(w) \in Int /\ \A j \in (i + 1) .. Len(w) : w[j] \in S
    BY <1>1, <1>2
  <2> QED
    BY <2>1, SubSeqProperties
<1> QED
  BY <1>3, <1>4, ShortSequences DEF RemoveAt

LEMMA DirectType ==
  ASSUME NEW Q \in SUBSET Node
  PROVE  Direct(Q) \in SUBSET Entry
BY DEF Direct, Entry

LEMMA Succ8Type ==
  ASSUME NEW h \in 0 .. 255
  PROVE  Succ8(h) \in 0 .. 255
BY DEF Succ8

\* A sequence of requests is as good as each of them.
LEMMA RequestsFit ==
  ASSUME NEW D \in SUBSET Node, NEW T, \A d \in D : Request(d) \in T
  PROVE  Requests(D) \in Seq(T)
<1>1. IsFiniteSet(D)
  BY RelayAssumption, FS_Subset
<1>2. Cardinality(D) \in Nat /\ ExistsBijection(1 .. Cardinality(D), D)
  BY <1>1, FS_CardinalityType
<1>3. \E f \in [1 .. Cardinality(D) -> D] : IsInjective(f)
  BY <1>2 DEF ExistsBijection, Bijection, Injection
<1>4. SetToSeq(D) \in [1 .. Cardinality(D) -> D]
  BY <1>3 DEF SetToSeq
<1>5. SetToSeq(D) \in Seq(D)
  BY <1>2, <1>4
<1>6. /\ Len(SetToSeq(D)) \in Nat
      /\ \A j \in 1 .. Len(SetToSeq(D)) : SetToSeq(D)[j] \in D
  BY <1>5, LenProperties, ElementOfSeq
<1>7. \A j \in 1 .. Len(SetToSeq(D)) : Request(SetToSeq(D)[j]) \in T
  BY <1>6
<1> HIDE DEF SetToSeq, Request
<1> QED
  BY <1>6, <1>7 DEF Requests

LEMMA ReachableType ==
  ASSUME TypeOK, NEW n \in Node, NEW x \in Node
  PROVE  Reachable(n, x) \in SUBSET Entry
<1>1. sessions[n] \in SUBSET Node /\ known[n] \in SUBSET Node
  BY DEF TypeOK
<1>2. \A d \in Node : paths[n][d] # None => paths[n][d] \in Path
  BY DEF TypeOK
<1>3. \A d \in Node : paths[n][d] # None => [peer |-> d, hops |-> paths[n][d].hops] \in Entry
  BY <1>2 DEF Path, Entry
<1>4. Direct(sessions[n] \ {x}) \in SUBSET Entry
  BY <1>1, DirectType
<1> QED
  BY <1>1, <1>3, <1>4 DEF Reachable

\* A message n may read is a message.
LEMMA ReadType ==
  ASSUME TypeOK, NEW n \in Node, NEW p \in Node, NEW i \in Readable(p, n)
  PROVE  /\ i \in 1 .. Len(net[<<p, n>>])
         /\ net[<<p, n>>][i] \in Msg
<1>1. net[<<p, n>>] \in Seq(Msg)
  BY DEF TypeOK, Channel
<1>2. i \in 1 .. Len(net[<<p, n>>])
  BY DEF Readable
<1> QED
  BY <1>1, <1>2, ElementOfSeq

LEMMA AddPathType ==
  ASSUME TypeOK, NEW n \in Node, NEW d \in Node, NEW q \in Node, NEW h \in 0 .. 255,
         AddPath(n, d, q, h)
  PROVE  /\ paths' \in [Node -> [Node -> Path \cup {None}]]
         /\ routes' \in [Node -> SUBSET Node]
<1>1. [via |-> q, hops |-> h] \in Path
  BY DEF Path
<1>2. routes' \in [Node -> SUBSET Node]
  BY DEF TypeOK, AddPath
<1>3. paths' \in [Node -> [Node -> Path \cup {None}]]
  BY <1>1 DEF TypeOK, AddPath
<1> QED
  BY <1>2, <1>3

\* The entries n takes from a directory, and those it passes on.
LEMMA AdoptedType ==
  ASSUME NEW n \in Node, NEW E \in SUBSET Entry
  PROVE  /\ Adopted(n, E) \in SUBSET E
         /\ Passed(n, E) \in SUBSET Entry
<1>1. Adopted(n, E) \in SUBSET E
  BY DEF Adopted
<1>2. \A e \in E : [peer |-> e.peer, hops |-> Succ8(e.hops)] \in Entry
  <2> SUFFICES ASSUME NEW e \in E PROVE [peer |-> e.peer, hops |-> Succ8(e.hops)] \in Entry
    OBVIOUS
  <2>1. e.peer \in Node /\ e.hops \in 0 .. 255
    BY DEF Entry
  <2>2. Succ8(e.hops) \in 0 .. 255
    BY <2>1, Succ8Type, Zenon
  <2> QED
    BY <2>1, <2>2 DEF Entry
<1>3. Passed(n, E) \in SUBSET Entry
  BY <1>2 DEF Passed
<1> QED
  BY <1>1, <1>3

-----------------------------------------------------------------------------
(* Hubs *)

\* A node with two neighbours is a hub, and one that is not has no other
\* neighbour than the one it has.
LEMMA TwoNeighbours ==
  ASSUME NEW S \in SUBSET Node, NEW x \in S, NEW y \in S, x # y
  PROVE  Cardinality(S) >= 2
<1>1. IsFiniteSet(S)
  BY RelayAssumption, FS_Subset
<1>2. Cardinality({x, y}) = 2
  <2>1. IsFiniteSet({x}) /\ Cardinality({x}) = 1
    BY FS_Singleton
  <2>2. Cardinality({x} \cup {y}) = 2
    BY <2>1, FS_AddElement
  <2>3. {x} \cup {y} = {x, y}
    OBVIOUS
  <2> QED
    BY <2>2, <2>3
<1>3. {x, y} \subseteq S
  OBVIOUS
<1> QED
  BY <1>1, <1>2, <1>3, FS_Subset, FS_CardinalityType

LEMMA HubStays ==
  ASSUME TypeOK, TypeOK', NEW n \in Node, sessions[n] \subseteq sessions'[n], Hub(n)
  PROVE  Hub(n)'
<1>1. sessions'[n] \subseteq Node
  BY DEF TypeOK
<1>2. IsFiniteSet(sessions'[n])
  BY <1>1, RelayAssumption, FS_Subset
<1>3. Cardinality(sessions[n]) <= Cardinality(sessions'[n])
  BY <1>2, FS_Subset
<1> QED
  BY <1>2, <1>3, FS_Subset, FS_CardinalityType DEF Hub

LEMMA HubOfTwo ==
  ASSUME TypeOK, NEW n \in Node, NEW x \in sessions[n], NEW y \in sessions[n], x # y
  PROVE  Hub(n)
BY TwoNeighbours DEF TypeOK, Hub

-----------------------------------------------------------------------------
(* What a step sends *)

\* Datagrams under way from n to p.
InFlight(n, p) == {net[<<n, p>>][j] : j \in DOMAIN net[<<n, p>>]}

\* The messages n may send to q in a step, each with what n knows then and
\* the step records.
Sends(n, q, m) ==
  \/ m = C /\ q \in Dials[n]
  \/ m \in {SessionInit, Announce}
  \/ m.type = "PeerDirectory" /\ Hub(n)
  \/ /\ m.type = "RelayRequest"
     /\ \/ /\ q \in sessions[n] /\ m.dst \notin sessions[n] \cup {n}
           /\ \E e \in InFlight(q, n) : e.type = "PeerDirectory"
        \/ Hub(n) /\ m.dst \in sessions[n] \ {q}
        \/ /\ Hub(n) /\ m.dst \in sessions[n]
           /\ \E d \in Node : paths[n][d] # None /\ paths[n][d].via = q
        \/ /\ missed[n] # None /\ m.dst = missed[n] /\ q \in candidates[n] \cap sessions[n]
           /\ Selfish(n, q) => used'.selfish
  \/ /\ m.type = "RelayReady" /\ Hub(n)
     /\ \/ /\ m.dst \in sessions[n] \/ paths[n][m.dst] # None
           /\ \E e \in InFlight(q, n) : e.type = "RelayRequest" /\ e.dst = m.dst
        \/ /\ m.dst \in sessions[n]
           /\ \E e \in InFlight(m.dst, n) : e.type = "RelayRequest" /\ e.dst = q
  \/ /\ m.type = "RelayData"
     /\ m.dst = q \/ (paths[n][m.dst] # None /\ paths[n][m.dst].via = q)

Sendable(n, q) == {m \in Msg : Sends(n, q, m)}
Under(n, q) == InFlight(n, q) \cup Sendable(n, q)

Fits(n, out) == \A q \in Node : out[q] \in Seq(Sendable(n, q))

\* Ways of addressing what may be sent.
LEMMA FitsTo ==
  ASSUME NEW n \in Node
  PROVE  /\ Fits(n, Nothing)
         /\ \A p \in Node : \A ms \in Seq(Sendable(n, p)) : Fits(n, To(p, ms))
<1>1. \A q \in Node : <<>> \in Seq(Sendable(n, q))
  BY ShortSequences
<1> QED
  BY <1>1 DEF Fits, Nothing, To

LEMMA FitsToAll ==
  ASSUME NEW n \in Node, NEW Q, NEW ms, \A q \in Q : ms \in Seq(Sendable(n, q))
  PROVE  Fits(n, ToAll(Q, ms))
<1>1. \A q \in Node : <<>> \in Seq(Sendable(n, q))
  BY ShortSequences
<1> QED
  BY <1>1 DEF Fits, ToAll

LEMMA FitsThen ==
  ASSUME NEW n \in Node, NEW out, NEW more, Fits(n, out), Fits(n, more)
  PROVE  Fits(n, Then(out, more))
BY ShortSequences DEF Fits, Then

\* A sequence of items that are all in T.
LEMMA SeqOfItems ==
  ASSUME NEW S, NEW T, NEW w \in Seq(S), \A j \in DOMAIN w : w[j] \in T
  PROVE  w \in Seq(T)
<1>1. Len(w) \in Nat /\ DOMAIN w = 1 .. Len(w) /\ w = [j \in 1 .. Len(w) |-> w[j]]
  BY LenProperties
<1> QED
  BY <1>1

LEMMA SeqOfMore ==
  ASSUME NEW S, NEW T, S \subseteq T, NEW w \in Seq(S)
  PROVE  w \in Seq(T)
BY LenProperties, ElementOfSeq, SeqOfItems

LEMMA InFlightSeq ==
  ASSUME TypeOK, NEW n \in Node, NEW p \in Node
  PROVE  net[<<n, p>>] \in Seq(Under(n, p))
<1>1. net[<<n, p>>] \in Seq(Msg)
  BY DEF TypeOK, Channel
<1>2. \A j \in DOMAIN net[<<n, p>>] : net[<<n, p>>][j] \in Under(n, p)
  BY DEF InFlight, Under
<1> QED
  BY <1>1, <1>2, SeqOfItems

\* f is a network of datagrams that are under way or may be sent.
Carries(f) ==
  /\ f = [c \in Channel |-> f[c]]
  /\ \A k, q \in Node : f[<<k, q>>] \in Seq(Under(k, q))

LEMMA NetCarries ==
  ASSUME TypeOK PROVE Carries(net)
<1>1. net = [c \in Channel |-> net[c]]
  BY DEF TypeOK
<1> QED
  BY <1>1, InFlightSeq DEF Carries

LEMMA SentCarried ==
  ASSUME TypeOK, NEW n \in Node, NEW out, Fits(n, out)
  PROVE  Carries(Sent(n, out))
<1>1. ASSUME NEW k \in Node, NEW q \in Node
      PROVE  Sent(n, out)[<<k, q>>] \in Seq(Under(k, q))
  <2>1. net[<<k, q>>] \in Seq(Under(k, q)) /\ <<k, q>> \in Channel
    BY InFlightSeq DEF Channel
  <2>2. CASE k = n
    <3>1. out[q] \in Seq(Sendable(k, q))
      BY <2>2 DEF Fits
    <3>2. out[q] \in Seq(Under(k, q))
      BY <3>1, SeqOfMore DEF Under
    <3>3. Sent(n, out)[<<k, q>>] = net[<<k, q>>] \o out[q]
      BY <2>1, <2>2 DEF Sent
    <3> QED
      BY <2>1, <3>2, <3>3, ShortSequences
  <2>3. CASE k # n
    BY <2>1, <2>3 DEF Sent
  <2> QED
    BY <2>2, <2>3
<1>2. Sent(n, out) = [c \in Channel |-> Sent(n, out)[c]]
  BY DEF Sent
<1> QED
  BY <1>1, <1>2 DEF Carries

\* Taking a datagram off a link of such a network.
LEMMA TakenCarried ==
  ASSUME NEW f, Carries(f), NEW n \in Node, NEW p \in Node, NEW tail,
         NEW i \in 1 .. Len(net[<<p, n>>]), TypeOK,
         tail \in Seq(Under(p, n)), f[<<p, n>>] = net[<<p, n>>] \o tail
  PROVE  Carries([f EXCEPT ![<<p, n>>] = RemoveAt(@, i)])
<1> DEFINE g == [f EXCEPT ![<<p, n>>] = RemoveAt(@, i)]
<1>1. f = [c \in Channel |-> f[c]]
  BY DEF Carries
<1>2. /\ g = [c \in Channel |-> g[c]]
      /\ \A c \in Channel : g[c] = IF c = <<p, n>> THEN RemoveAt(f[c], i) ELSE f[c]
  BY <1>1
<1>3. RemoveAt(f[<<p, n>>], i) \in Seq(Under(p, n))
  BY InFlightSeq, RemoveAtType
<1>4. \A k, q \in Node : g[<<k, q>>] \in Seq(Under(k, q))
  <2> HIDE DEF g
  <2> QED
    BY <1>2, <1>3 DEF Channel, Carries
<1> HIDE DEF g
<1>5. Carries(g)
  BY <1>2, <1>4 DEF Carries
<1> QED
  BY <1>5 DEF g

LEMMA ExchangeCarried ==
  ASSUME TypeOK, NEW n \in Node, NEW p \in Node, NEW i \in 1 .. Len(net[<<p, n>>]),
         NEW out, Fits(n, out), Exchange(n, p, i, out)
  PROVE  Carries(net')
<1>1. Carries(Sent(n, out))
  BY SentCarried
<1>2. <<p, n>> \in Channel /\ net[<<p, n>>] \in Seq(Under(p, n))
  BY InFlightSeq DEF Channel
<1>3. PICK tail : tail \in Seq(Under(p, n)) /\ Sent(n, out)[<<p, n>>] = net[<<p, n>>] \o tail
  <2>1. CASE p = n
    <3>1. out[n] \in Seq(Under(p, n))
      BY <2>1, SeqOfMore DEF Fits, Under
    <3>2. Sent(n, out)[<<p, n>>] = net[<<p, n>>] \o out[n]
      BY <1>2, <2>1 DEF Sent
    <3> QED
      BY <3>1, <3>2
  <2>2. CASE p # n
    <3>1. Sent(n, out)[<<p, n>>] = net[<<p, n>>]
      BY <1>2, <2>2 DEF Sent
    <3> QED
      BY <1>2, <3>1, ConcatEmptySeq, ShortSequences
  <2> QED
    BY <2>1, <2>2
<1> QED
  BY <1>1, <1>3, TakenCarried DEF Exchange

LEMMA LoseCarried ==
  ASSUME TypeOK, NEW n \in Node, NEW p \in Node, NEW i \in 1 .. Len(net[<<p, n>>]), Lose(p, n, i)
  PROVE  Carries(net')
<1>1. net[<<p, n>>] = net[<<p, n>>] \o <<>> /\ <<>> \in Seq(Under(p, n))
  BY InFlightSeq, ConcatEmptySeq, ShortSequences
<1> QED
  BY <1>1, NetCarries, TakenCarried DEF Lose

\* Directories are sent by hubs, or not at all.
LEMMA ListingFits ==
  ASSUME NEW n \in Node, NEW q \in Node, NEW E \in SUBSET Entry, E # {} => Hub(n)
  PROVE  Listing(E) \in Seq(Sendable(n, q))
<1>1. CASE E = {}
  BY <1>1, ShortSequences DEF Listing
<1>2. CASE E # {}
  <2>1. Directory(E) \in Msg /\ Directory(E).type = "PeerDirectory"
    BY MessageTypes DEF Directory
  <2>2. Directory(E) \in Sendable(n, q)
    BY <1>2, <2>1 DEF Sendable, Sends
  <2> QED
    BY <1>2, <2>2, ShortSequences DEF Listing
<1> QED
  BY <1>1, <1>2

LEMMA DirectoryFits ==
  ASSUME NEW n \in Node, NEW q \in Node, NEW p \in Node, Hub(n)
  PROVE  <<Directory(Direct({p}))>> \in Seq(Sendable(n, q))
<1>1. Direct({p}) \in SUBSET Entry /\ Direct({p}) # {}
  BY DirectType DEF Direct
<1> QED
  BY <1>1, ListingFits DEF Listing

LEMMA GreetingFits ==
  ASSUME NEW n \in Node, NEW q \in Node
  PROVE  <<SessionInit>> \in Seq(Sendable(n, q)) /\ <<SessionInit, Announce>> \in Seq(Sendable(n, q))
<1>1. SessionInit \in Sendable(n, q) /\ Announce \in Sendable(n, q)
  BY MessageTypes DEF Sendable, Sends
<1> QED
  BY <1>1, ShortSequences

LEMMA WelcomeFits ==
  ASSUME TypeOK, NEW n \in Node, NEW p \in Node, p \in sessions[n]
  PROVE  Fits(n, Welcome(n, p))
<1> DEFINE others == sessions[n] \ {p}
           first == <<SessionInit, Announce>> \o Listing(Direct(others))
<1>1. others \in SUBSET Node /\ (others # {} => Hub(n))
  BY HubOfTwo DEF TypeOK
<1>2. Direct(others) \in SUBSET Entry /\ (Direct(others) # {} => others # {})
  BY <1>1, DirectType DEF Direct
<1>3. Fits(n, To(p, <<SessionInit>>)) /\ Fits(n, To(p, <<SessionInit, Announce>>))
  BY GreetingFits, FitsTo
<1>4. Fits(n, To(p, first))
  <2>1. Listing(Direct(others)) \in Seq(Sendable(n, p))
    BY <1>1, <1>2, ListingFits
  <2>2. first \in Seq(Sendable(n, p))
    BY <2>1, GreetingFits, ShortSequences
  <2> QED
    BY <2>2, FitsTo
<1>5. Fits(n, ToAll(others, <<Directory(Direct({p}))>>))
  <2>1. \A q \in others : <<Directory(Direct({p}))>> \in Seq(Sendable(n, q))
    BY <1>1, DirectoryFits
  <2> QED
    BY <2>1, FitsToAll
<1>6. Fits(n, Then(To(p, first), ToAll(others, <<Directory(Direct({p}))>>)))
  BY <1>4, <1>5, FitsThen
<1> QED
  BY <1>3, <1>6 DEF Welcome

LEMMA RequestFits ==
  ASSUME NEW n \in Node, NEW q \in Node, NEW d \in Node,
         \/ /\ q \in sessions[n] /\ d \notin sessions[n] \cup {n}
            /\ \E e \in InFlight(q, n) : e.type = "PeerDirectory"
         \/ Hub(n) /\ d \in sessions[n] \ {q}
         \/ /\ Hub(n) /\ d \in sessions[n]
            /\ \E x \in Node : paths[n][x] # None /\ paths[n][x].via = q
         \/ /\ missed[n] # None /\ d = missed[n] /\ q \in candidates[n] \cap sessions[n]
            /\ Selfish(n, q) => used'.selfish
  PROVE  Request(d) \in Sendable(n, q) /\ <<Request(d)>> \in Seq(Sendable(n, q))
<1>1. Request(d) \in Msg /\ Request(d).type = "RelayRequest" /\ Request(d).dst = d
  BY MessageTypes DEF Request
<1>2. Request(d) \in Sendable(n, q)
  BY <1>1 DEF Sendable, Sends
<1> QED
  BY <1>2, ShortSequences

LEMMA ReadyFits ==
  ASSUME NEW n \in Node, NEW q \in Node, NEW d \in Node, NEW h \in 0 .. 255, Hub(n),
         \/ /\ d \in sessions[n] \/ paths[n][d] # None
            /\ \E e \in InFlight(q, n) : e.type = "RelayRequest" /\ e.dst = d
         \/ /\ d \in sessions[n]
            /\ \E e \in InFlight(d, n) : e.type = "RelayRequest" /\ e.dst = q
  PROVE  <<Ready(d, h)>> \in Seq(Sendable(n, q))
<1>1. Ready(d, h) \in Msg
  BY MessageTypes
<1>2. Ready(d, h).type = "RelayReady" /\ Ready(d, h).dst = d
  BY DEF Ready
<1>3. Ready(d, h) \in Sendable(n, q)
  BY <1>1, <1>2 DEF Sendable, Sends
<1> QED
  BY <1>3, ShortSequences

LEMMA DataFits ==
  ASSUME NEW n \in Node, NEW q \in Node, NEW m \in Msg, m.type = "RelayData",
         m.dst = q \/ (paths[n][m.dst] # None /\ paths[n][m.dst].via = q)
  PROVE  <<m>> \in Seq(Sendable(n, q))
<1>1. m \in Sendable(n, q)
  BY DEF Sendable, Sends
<1> QED
  BY <1>1, ShortSequences

\* The datagram a handler has read was under way.
LEMMA ReadInFlight ==
  ASSUME TypeOK, NEW n \in Node, NEW p \in Node, NEW i \in Readable(p, n)
  PROVE  net[<<p, n>>][i] \in InFlight(p, n)
<1>1. net[<<p, n>>] \in Seq(Msg) /\ i \in 1 .. Len(net[<<p, n>>])
  BY DEF TypeOK, Channel, Readable
<1>2. i \in DOMAIN net[<<p, n>>]
  BY <1>1, LenProperties
<1> QED
  BY <1>2 DEF InFlight

LEMMA TaskCarried ==
  ASSUME TypeOK, JoinsHaveSession, NEW n \in Node, NEW p \in Node,
         Dial(n, p) \/ Register(n, p) \/ AskRelays(n, p)
  PROVE  Carries(net')
<1>1. CASE Dial(n, p)
  <2>1. C \in Sendable(n, p)
    BY <1>1, MessageTypes DEF Dial, Sendable, Sends
  <2>2. Fits(n, To(p, <<C>>))
    BY <2>1, ShortSequences, FitsTo
  <2> QED
    BY <1>1, <2>2, SentCarried DEF Dial
<1>2. CASE Register(n, p)
  <2>1. p \in sessions[n]
    BY <1>2 DEF Register, JoinsHaveSession
  <2>2. Fits(n, Welcome(n, p))
    BY <2>1, WelcomeFits
  <2> QED
    BY <1>2, <2>2, SentCarried DEF Register
<1>3. CASE AskRelays(n, p)
  <2> DEFINE Q == (candidates[n] \ {p}) \cap sessions[n]
  <2>1. Q \in SUBSET Node /\ p \in sessions[n]
    BY <1>3 DEF AskRelays, TypeOK
  <2>2. \A q \in Q : <<Request(p)>> \in Seq(Sendable(n, q))
    <3> SUFFICES ASSUME NEW q \in Q PROVE <<Request(p)>> \in Seq(Sendable(n, q))
      OBVIOUS
    <3>1. Hub(n)
      BY <2>1, HubOfTwo
    <3> QED
      BY <2>1, <3>1, RequestFits
  <2>3. Fits(n, ToAll(Q, <<Request(p)>>))
    BY <2>2, FitsToAll
  <2> QED
    BY <1>3, <2>3, SentCarried DEF AskRelays
<1> QED
  BY <1>1, <1>2, <1>3

LEMMA DirectoryCarried ==
  ASSUME TypeOK, NEW n \in Node, NEW p \in Node, NEW i \in Readable(p, n),
         HandleDirectory(n, p, i)
  PROVE  Carries(net')
<1> DEFINE E == net[<<p, n>>][i].entries
           better == Adopted(n, E)
           on == Passed(n, E)
           others == sessions[n] \ {p}
           out == Then(To(p, Requests({e.peer : e \in better})), ToAll(others, Listing(on)))
<1>1. /\ p \in sessions[n] /\ others \in SUBSET Node
      /\ \E e \in InFlight(p, n) : e.type = "PeerDirectory"
  BY ReadInFlight DEF HandleDirectory, Reads, TypeOK
<1>2. E \in SUBSET Entry
  BY ReadType, MessageFields DEF HandleDirectory, Reads
<1>3. better \in SUBSET Entry /\ on \in SUBSET Entry
  BY <1>2, AdoptedType
<1>4. {e.peer : e \in better} \in SUBSET Node
  BY <1>3 DEF Entry
<1>5. \A d \in {e.peer : e \in better} : d \notin sessions[n] \cup {n}
  BY DEF Adopted
<1>6. \A d \in {e.peer : e \in better} : Request(d) \in Sendable(n, p)
  <2> HIDE DEF better
  <2> QED
    BY <1>1, <1>4, <1>5, RequestFits
<1>7. Requests({e.peer : e \in better}) \in Seq(Sendable(n, p))
  <2> HIDE DEF better
  <2> QED
    BY <1>4, <1>6, RequestsFit
<1>8. \A q \in others : Listing(on) \in Seq(Sendable(n, q))
  <2> SUFFICES ASSUME NEW q \in others PROVE Listing(on) \in Seq(Sendable(n, q))
    OBVIOUS
  <2>1. Hub(n) /\ q \in Node
    BY <1>1, HubOfTwo
  <2> QED
    BY <1>3, <2>1, ListingFits
<1>9. Fits(n, out)
  <2> HIDE DEF better, on, others
  <2>1. Fits(n, ToAll(others, Listing(on))) /\ Fits(n, To(p, Requests({e.peer : e \in better})))
    BY <1>7, <1>8, FitsTo, FitsToAll
  <2> QED
    BY <2>1, FitsThen
<1>10. Exchange(n, p, i, out) /\ i \in 1 .. Len(net[<<p, n>>])
  BY ReadType DEF HandleDirectory
<1> QED
  BY <1>9, <1>10, ExchangeCarried

LEMMA RelayCarried ==
  ASSUME TypeOK, NEW n \in Node, NEW p \in Node, NEW i \in Readable(p, n),
         RelayDirect(n, p, i) \/ RelayOnward(n, p, i)
  PROVE  Carries(net')
<1> DEFINE m == net[<<p, n>>][i]
           next == paths[n][m.dst]
           direct == Then(To(p, <<Ready(m.dst, 1)>>), To(m.dst, <<Ready(p, 1)>>))
           onward == Then(To(p, <<Ready(m.dst, Succ8(next.hops))>>), To(next.via, <<Request(p)>>))
<1>1. m.type = "RelayRequest" /\ p \in sessions[n] /\ Hub(n)
  BY DEF RelayDirect, RelayOnward, Reads
<1>2. m \in Msg /\ m \in InFlight(p, n) /\ i \in 1 .. Len(net[<<p, n>>])
  BY ReadType, ReadInFlight
<1>3. \/ m.dst \in sessions[n] /\ Exchange(n, p, i, direct)
      \/ next # None /\ Exchange(n, p, i, onward)
  BY DEF RelayDirect, RelayOnward
<1> HIDE DEF m
<1>4. m.dst \in Node /\ \E e \in InFlight(p, n) : e.type = "RelayRequest" /\ e.dst = m.dst
  BY <1>1, <1>2, MessageFields
<1>5. CASE m.dst \in sessions[n] /\ Exchange(n, p, i, direct)
  <2>1. 1 \in 0 .. 255
    OBVIOUS
  <2>2. <<Ready(m.dst, 1)>> \in Seq(Sendable(n, p)) /\ <<Ready(p, 1)>> \in Seq(Sendable(n, m.dst))
    BY <1>1, <1>4, <1>5, <2>1, ReadyFits, Zenon
  <2>3. Fits(n, direct)
    BY <1>4, <2>2, FitsTo, FitsThen
  <2> QED
    BY <1>2, <1>5, <2>3, ExchangeCarried
<1>6. CASE next # None /\ Exchange(n, p, i, onward)
  <2>1. next \in Path
    BY <1>4, <1>6 DEF TypeOK
  <2>2. next.via \in Node /\ Succ8(next.hops) \in 0 .. 255
    <3>1. next.via \in Node /\ next.hops \in 0 .. 255
      BY <2>1 DEF Path
    <3> QED
      BY <3>1, Succ8Type, Zenon
  <2>3. <<Ready(m.dst, Succ8(next.hops))>> \in Seq(Sendable(n, p))
    BY <1>1, <1>4, <1>6, <2>2, ReadyFits, Zenon
  <2>4. <<Request(p)>> \in Seq(Sendable(n, next.via))
    BY <1>1, <1>4, <1>6, <2>2, RequestFits, Zenon
  <2>5. Fits(n, onward)
    BY <2>2, <2>3, <2>4, FitsTo, FitsThen, Zenon
  <2> QED
    BY <1>2, <1>6, <2>5, ExchangeCarried
<1> QED
  BY <1>3, <1>5, <1>6

LEMMA DataCarried ==
  ASSUME TypeOK, NEW n \in Node, NEW p \in Node, NEW i \in Readable(p, n), HandleData(n, p, i)
  PROVE  Carries(net')
<1> DEFINE m == net[<<p, n>>][i]
           next == paths[n][m.dst]
           out == IF Kept(n, m.dst) THEN Nothing
                  ELSE IF m.dst \in sessions[n] THEN To(m.dst, <<m>>)
                  ELSE IF next # None THEN To(next.via, <<m>>)
                  ELSE Nothing
<1>1. m.type = "RelayData" /\ Exchange(n, p, i, out)
  BY DEF HandleData, Reads
<1>2. m \in Msg /\ i \in 1 .. Len(net[<<p, n>>])
  BY ReadType
<1> HIDE DEF m
<1>3. m.dst \in Node
  BY <1>1, <1>2, MessageFields
<1>4. next # None => next.via \in Node
  BY <1>3 DEF TypeOK, Path
<1>5. Fits(n, Nothing) /\ Fits(n, To(m.dst, <<m>>))
  BY <1>1, <1>2, <1>3, DataFits, FitsTo
<1>6. next # None => Fits(n, To(next.via, <<m>>))
  BY <1>1, <1>2, <1>4, DataFits, FitsTo
<1>7. Fits(n, out)
  BY <1>5, <1>6
<1> QED
  BY <1>1, <1>2, <1>7, ExchangeCarried

LEMMA ReceiveCarried ==
  ASSUME TypeOK, NEW n \in Node, NEW p \in Node, NEW i \in Readable(p, n),
         Receive(n, p, i)
  PROVE  Carries(net')
<1>1. Fits(n, Nothing) /\ i \in 1 .. Len(net[<<p, n>>])
  BY FitsTo, ReadType
<1>2. ASSUME Exchange(n, p, i, Nothing) PROVE Carries(net')
  BY <1>1, <1>2, ExchangeCarried
<1>3. CASE HandleSessionInit(n, p, i)
  <2> DEFINE others == sessions[n] \ {p}
             out == Then(To(p, Listing(Reachable(n, p))), ToAll(others, <<Directory(Direct({p}))>>))
  <2>1. p \in sessions[n] /\ others \in SUBSET Node /\ Exchange(n, p, i, IF others # {} THEN out ELSE Nothing)
    BY <1>3 DEF HandleSessionInit, Reads, TypeOK
  <2>2. CASE others # {}
    <3>1. Hub(n)
      BY <2>1, <2>2, HubOfTwo
    <3>2. Listing(Reachable(n, p)) \in Seq(Sendable(n, p))
      BY <3>1, ReachableType, ListingFits
    <3>3. \A q \in others : <<Directory(Direct({p}))>> \in Seq(Sendable(n, q))
      BY <2>1, <3>1, DirectoryFits
    <3>4. Fits(n, To(p, Listing(Reachable(n, p)))) /\ Fits(n, ToAll(others, <<Directory(Direct({p}))>>))
      BY <3>2, <3>3, FitsTo, FitsToAll
    <3>5. Fits(n, out)
      BY <3>4, FitsThen
    <3> QED
      BY <1>1, <2>1, <2>2, <3>5, ExchangeCarried
  <2>3. CASE others = {}
    BY <1>2, <2>1, <2>3
  <2> QED
    BY <2>2, <2>3
<1>4. CASE HandleDirectory(n, p, i)
  BY <1>4, DirectoryCarried
<1>5. CASE RelayDirect(n, p, i) \/ RelayOnward(n, p, i)
  BY <1>5, RelayCarried
<1>6. CASE HandleData(n, p, i)
  BY <1>6, DataCarried
<1>7. CASE ReadC(n, p, i) \/ Unreadable(n, p, i) \/ HandleAnnounce(n, p, i)
  BY <1>2, <1>7 DEF ReadC, Unreadable, HandleAnnounce
<1>8. CASE RelayRefused(n, p, i) \/ RelayReturn(n, p, i) \/ HandleReady(n, p, i)
  BY <1>2, <1>8 DEF RelayRefused, RelayReturn, HandleReady
<1> QED
  BY <1>3, <1>4, <1>5, <1>6, <1>7, <1>8, Receive(n, p, i) DEF Receive

LEMMA OutboundCarried ==
  ASSUME TypeOK, NEW n \in Node, NEW d \in Node,
         SendRelayed(n, d) \/ DropRoute(n) \/ Broadcast(n)
  PROVE  Carries(net')
<1>1. Fits(n, Nothing)
  BY FitsTo
<1>2. CASE SendRelayed(n, d)
  <2> DEFINE v == paths[n][d].via
  <2>1. v \in Node /\ paths[n][d] # None
    BY <1>2 DEF SendRelayed, TypeOK, Path
  <2>2. Data(n, d) \in Msg /\ Data(n, d).type = "RelayData" /\ Data(n, d).dst = d
    BY MessageTypes DEF Data
  <2>3. Fits(n, To(v, <<Data(n, d)>>))
    BY <2>1, <2>2, DataFits, FitsTo
  <2>4. Fits(n, IF v \in sessions[n] THEN To(v, <<Data(n, d)>>) ELSE Nothing)
    BY <1>1, <2>3
  <2> QED
    BY <1>2, <2>4, SentCarried DEF SendRelayed
<1>3. CASE DropRoute(n)
  <2>1. missed[n] \in Node /\ missed[n] # None
    BY <1>3 DEF DropRoute, TypeOK
  <2>2. CASE candidates[n] = {}
    BY <1>3, <2>2, NetCarries DEF DropRoute
  <2>3. CASE candidates[n] # {}
    <3>1. PICK q \in candidates[n] :
            /\ net' = Sent(n, IF q \in sessions[n] THEN To(q, <<Request(missed[n])>>) ELSE Nothing)
            /\ used' = [used EXCEPT !.selfish = @ \/ Selfish(n, q)]
      BY <1>3, <2>3 DEF DropRoute
    <3>2. q \in Node
      BY DEF TypeOK
    <3>3. q \in sessions[n] => Fits(n, To(q, <<Request(missed[n])>>))
      <4>1. Selfish(n, q) => used'.selfish
        BY <3>1 DEF TypeOK
      <4> QED
        BY <2>1, <3>2, <4>1, RequestFits, FitsTo
    <3>4. Fits(n, IF q \in sessions[n] THEN To(q, <<Request(missed[n])>>) ELSE Nothing)
      BY <1>1, <3>3
    <3> QED
      BY <3>1, <3>4, SentCarried
  <2> QED
    BY <2>2, <2>3
<1>4. CASE Broadcast(n)
  <2> DEFINE out == [p \in Node |->
               IF Hub(n) /\ p \in sessions[n] THEN Listing(Reachable(n, p)) ELSE <<>>]
  <2>1. \A p \in Node : Hub(n) => Listing(Reachable(n, p)) \in Seq(Sendable(n, p))
    BY ReachableType, ListingFits
  <2>2. Fits(n, out)
    BY <2>1, ShortSequences DEF Fits
  <2> QED
    BY <1>4, <2>2, SentCarried DEF Broadcast
<1> QED
  BY <1>2, <1>3, <1>4

\* Every datagram under way after a step was under way before, or was sent in
\* it for one of the reasons there are.
LEMMA NewMessages ==
  ASSUME TypeOK, JoinsHaveSession, Next
  PROVE  /\ net' \in [Channel -> Seq(Msg)]
         /\ \A k, q \in Node : \A j \in DOMAIN net'[<<k, q>>] :
              LET m == net'[<<k, q>>][j]
              IN  m \in InFlight(k, q) \/ (m \in Msg /\ Sends(k, q, m))
<1>1. ASSUME UNCHANGED net PROVE Carries(net')
  BY <1>1, NetCarries
<1>2. ASSUME NEW n \in Node, NEW p \in Node,
             Dial(n, p) \/ Insert(n, p) \/ Register(n, p) \/ AskRelays(n, p)
      PROVE  Carries(net')
  BY <1>1, <1>2, TaskCarried DEF Insert
<1>3. ASSUME NEW n \in Node, NEW p \in Node, NEW i \in Readable(p, n), Receive(n, p, i)
      PROVE  Carries(net')
  BY <1>3, ReceiveCarried
<1>4. ASSUME NEW n \in Node, NEW d \in Node, SendRelayed(n, d) \/ Miss(n, d) PROVE Carries(net')
  BY <1>1, <1>4, OutboundCarried DEF Miss
<1>5. ASSUME NEW n \in Node, DropRoute(n) \/ Stun(n) \/ Broadcast(n) PROVE Carries(net')
  BY <1>1, <1>5, OutboundCarried DEF Stun
<1>6. ASSUME NEW n \in Node, NEW p \in Node, NEW i \in 1 .. Len(net[<<p, n>>]), Lose(p, n, i)
      PROVE  Carries(net')
  BY <1>6, LoseCarried
<1>7. Carries(net')
  BY <1>2, <1>3, <1>4, <1>5, <1>6 DEF Next, Step
<1>8. ASSUME NEW k \in Node, NEW q \in Node
      PROVE  /\ net'[<<k, q>>] \in Seq(Msg)
             /\ \A j \in DOMAIN net'[<<k, q>>] : net'[<<k, q>>][j] \in Under(k, q)
  <2>1. net'[<<k, q>>] \in Seq(Under(k, q))
    BY <1>7 DEF Carries
  <2>2. \A m \in InFlight(k, q) : m \in Msg
    <3>1. net[<<k, q>>] \in Seq(Msg)
      BY DEF TypeOK, Channel
    <3> QED
      BY <3>1, LenProperties, ElementOfSeq DEF InFlight
  <2>3. Under(k, q) \subseteq Msg
    BY <2>2 DEF Under, Sendable
  <2> QED
    BY <2>1, <2>3, LenProperties, ElementOfSeq, SeqOfMore
<1>9. net' \in [Channel -> Seq(Msg)]
  BY <1>7, <1>8 DEF Carries, Channel
<1> QED
  BY <1>8, <1>9 DEF Under, Sendable

-----------------------------------------------------------------------------
(* Type correctness *)

LEMMA InitType == Init => TypeOK
BY ShortSequences DEF Init, TypeOK, Channel

LEMMA CountType ==
  ASSUME NEW u \in [data : Nat, loss : Nat, timeout : Nat, selfish : BOOLEAN]
  PROVE  /\ [u EXCEPT !.data = @ + 1] \in [data : Nat, loss : Nat, timeout : Nat, selfish : BOOLEAN]
         /\ [u EXCEPT !.loss = @ + 1] \in [data : Nat, loss : Nat, timeout : Nat, selfish : BOOLEAN]
         /\ [u EXCEPT !.timeout = @ + 1] \in [data : Nat, loss : Nat, timeout : Nat, selfish : BOOLEAN]
<1>1. u.data + 1 \in Nat /\ u.loss + 1 \in Nat /\ u.timeout + 1 \in Nat
  OBVIOUS
<1>2. \A k \in Nat :
        /\ [u EXCEPT !.data = k] \in [data : Nat, loss : Nat, timeout : Nat, selfish : BOOLEAN]
        /\ [u EXCEPT !.loss = k] \in [data : Nat, loss : Nat, timeout : Nat, selfish : BOOLEAN]
        /\ [u EXCEPT !.timeout = k] \in [data : Nat, loss : Nat, timeout : Nat, selfish : BOOLEAN]
  OBVIOUS
<1> QED
  BY <1>1, <1>2, Zenon

\* What NewMessages says of the type of the network after a step.
NetTyped == net' \in [Channel -> Seq(Msg)]

LEMMA DirectoryType ==
  ASSUME TypeOK, NetTyped, NEW n \in Node, NEW p \in Node, NEW i \in Readable(p, n),
         HandleDirectory(n, p, i)
  PROVE  TypeOK'
<1> DEFINE E == net[<<p, n>>][i].entries
           better == Adopted(n, E)
           Offered(d) == CHOOSE e \in better : e.peer = d
<1>1. E \in SUBSET Entry
  BY ReadType, MessageFields DEF HandleDirectory, Reads
<1>2. better \in SUBSET Entry
  BY <1>1, AdoptedType
<1>3. {e.peer : e \in better} \in SUBSET Node /\ {e.peer : e \in E} \in SUBSET Node
  BY <1>1, <1>2 DEF Entry
<1>4. \A d \in Node : (\E e \in better : e.peer = d) =>
        [via |-> p, hops |-> Succ8(Offered(d).hops)] \in Path
  <2> SUFFICES ASSUME NEW d \in Node, \E e \in better : e.peer = d
               PROVE  [via |-> p, hops |-> Succ8(Offered(d).hops)] \in Path
    OBVIOUS
  <2>1. Offered(d) \in better
    OBVIOUS
  <2> HIDE DEF Offered, better
  <2>2. Offered(d).hops \in 0 .. 255
    BY <1>2, <2>1 DEF Entry
  <2>3. Succ8(Offered(d).hops) \in 0 .. 255
    BY <2>2, Succ8Type, Zenon
  <2> QED
    BY <2>3 DEF Path
<1>5. paths' = [paths EXCEPT ![n] = [d \in Node |->
          IF \E e \in better : e.peer = d
            THEN [via |-> p, hops |-> Succ8(Offered(d).hops)]
            ELSE paths[n][d]]]
  BY DEF HandleDirectory
<1>6. paths' \in [Node -> [Node -> Path \cup {None}]]
  <2> HIDE DEF better, Offered
  <2>1. [d \in Node |-> IF \E e \in better : e.peer = d
            THEN [via |-> p, hops |-> Succ8(Offered(d).hops)]
            ELSE paths[n][d]] \in [Node -> Path \cup {None}]
    BY <1>4 DEF TypeOK
  <2> QED
    BY <1>5, <2>1 DEF TypeOK
<1>7. known' \in [Node -> SUBSET Node] /\ routes' \in [Node -> SUBSET Node]
  BY <1>3 DEF HandleDirectory, TypeOK
<1>8. UNCHANGED <<sessions, joining, accepting, candidates, tasks, received, used>>
  BY DEF HandleDirectory
<1> QED
  BY <1>6, <1>7, <1>8 DEF TypeOK, NetTyped, tasks

LEMMA TaskType ==
  ASSUME TypeOK, NetTyped, NEW n \in Node, NEW p \in Node,
         Dial(n, p) \/ Insert(n, p) \/ Register(n, p) \/ AskRelays(n, p)
  PROVE  TypeOK'
<1> USE DEF TypeOK, NetTyped, tasks
<1>1. CASE Dial(n, p)
  BY <1>1 DEF Dial
<1>2. CASE Insert(n, p)
  BY <1>2 DEF Insert
<1>3. CASE Register(n, p)
  BY <1>3 DEF Register
<1>4. CASE AskRelays(n, p)
  <2>1. used' \in [data : Nat, loss : Nat, timeout : Nat, selfish : BOOLEAN]
    BY <1>4, CountType DEF AskRelays
  <2> QED
    BY <1>4, <2>1 DEF AskRelays, tables
<1> QED
  BY <1>1, <1>2, <1>3, <1>4

LEMMA ReceiveType ==
  ASSUME TypeOK, NetTyped, NEW n \in Node, NEW p \in Node, NEW i \in Readable(p, n),
         Receive(n, p, i)
  PROVE  TypeOK'
<1> DEFINE m == net[<<p, n>>][i]
<1>1. m \in Msg
  BY ReadType
<1>2. CASE ReadC(n, p, i)
  BY <1>2 DEF ReadC, HandleC, TypeOK, NetTyped, tasks
<1>3. CASE Unreadable(n, p, i)
  BY <1>3 DEF Unreadable, TypeOK, NetTyped, tables, tasks
<1>4. CASE HandleSessionInit(n, p, i)
  BY <1>4 DEF HandleSessionInit, TypeOK, NetTyped, tasks
<1>5. CASE HandleAnnounce(n, p, i)
  BY <1>5 DEF HandleAnnounce, TypeOK, NetTyped, tasks
<1>6. CASE HandleDirectory(n, p, i)
  BY <1>6, DirectoryType
<1>7. CASE RelayDirect(n, p, i) \/ RelayOnward(n, p, i) \/ RelayRefused(n, p, i)
  BY <1>7 DEF RelayDirect, RelayOnward, RelayRefused, TypeOK, NetTyped, tables, tasks
<1>8. CASE RelayReturn(n, p, i) \/ HandleReady(n, p, i)
  <2>1. /\ UNCHANGED <<sessions, joining, accepting, candidates, known, tasks, received, used>>
        /\ m.type \in {"RelayRequest", "RelayReady"}
        /\ \/ m.type = "RelayRequest" /\ AddPath(n, m.dst, p, 1)
           \/ m.type = "RelayReady" /\ AddPath(n, m.dst, p, m.hops)
    BY <1>8 DEF RelayReturn, HandleReady, Reads
  <2> HIDE DEF m
  <2>2. PICK h \in 0 .. 255 : m.dst \in Node /\ AddPath(n, m.dst, p, h)
    BY <1>1, <2>1, MessageFields
  <2>3. paths' \in [Node -> [Node -> Path \cup {None}]] /\ routes' \in [Node -> SUBSET Node]
    BY <2>2, AddPathType
  <2> QED
    BY <2>1, <2>3 DEF TypeOK, NetTyped, tasks
<1>9. CASE HandleData(n, p, i)
  <2>1. /\ UNCHANGED <<tables, tasks, used>> /\ m.type = "RelayData"
        /\ received' = IF Kept(n, m.dst) THEN received \cup {<<m.src, m.dst, n>>} ELSE received
    BY <1>9 DEF HandleData, Reads
  <2> HIDE DEF m
  <2>2. m.src \in Node /\ m.dst \in Node
    BY <1>1, <2>1, MessageFields
  <2>3. received' \subseteq Node \X Node \X Node
    BY <2>1, <2>2 DEF TypeOK
  <2> QED
    BY <2>1, <2>3 DEF TypeOK, NetTyped, tables, tasks
<1> QED
  BY <1>2, <1>3, <1>4, <1>5, <1>6, <1>7, <1>8, <1>9, Receive(n, p, i) DEF Receive

LEMMA OtherType ==
  ASSUME TypeOK, NetTyped, NEW n \in Node, NEW d \in Node,
         \/ SendRelayed(n, d) \/ Miss(n, d) \/ DropRoute(n) \/ Stun(n) \/ Broadcast(n)
         \/ \E i \in 1 .. Len(net[<<d, n>>]) : Lose(d, n, i)
  PROVE  TypeOK'
<1> USE DEF TypeOK, NetTyped
<1>1. CASE SendRelayed(n, d)
  <2>1. used' \in [data : Nat, loss : Nat, timeout : Nat, selfish : BOOLEAN]
    BY <1>1, CountType DEF SendRelayed
  <2> QED
    BY <1>1, <2>1 DEF SendRelayed, tables, tasks
<1>2. CASE Miss(n, d)
  <2>1. used' \in [data : Nat, loss : Nat, timeout : Nat, selfish : BOOLEAN]
    BY <1>2, CountType DEF Miss
  <2> QED
    BY <1>2, <2>1 DEF Miss, tables
<1>3. CASE DropRoute(n)
  BY <1>3 DEF DropRoute
<1>4. CASE Stun(n)
  BY <1>4, RelayAssumption DEF Stun, tables
<1>5. CASE Broadcast(n)
  BY <1>5 DEF Broadcast, tables
<1>6. CASE \E i \in 1 .. Len(net[<<d, n>>]) : Lose(d, n, i)
  <2>1. used' \in [data : Nat, loss : Nat, timeout : Nat, selfish : BOOLEAN]
    BY <1>6, CountType DEF Lose
  <2> QED
    BY <1>6, <2>1 DEF Lose, tables, tasks
<1> QED
  BY <1>1, <1>2, <1>3, <1>4, <1>5, <1>6

LEMMA StepType == TypeOK /\ JoinsHaveSession /\ [Next]_vars => TypeOK'
<1> SUFFICES ASSUME TypeOK, JoinsHaveSession, [Next]_vars PROVE TypeOK'
  OBVIOUS
<1>1. CASE UNCHANGED vars
  BY <1>1 DEF vars, tables, tasks, TypeOK
<1>2. CASE Next
  <2>1. NetTyped
    BY <1>2, NewMessages DEF NetTyped
  <2>2. ASSUME NEW n \in Node, NEW p \in Node,
               Dial(n, p) \/ Insert(n, p) \/ Register(n, p) \/ AskRelays(n, p)
        PROVE  TypeOK'
    BY <2>1, <2>2, TaskType
  <2>3. ASSUME NEW n \in Node, NEW p \in Node, NEW i \in Readable(p, n), Receive(n, p, i)
        PROVE  TypeOK'
    BY <2>1, <2>3, ReceiveType
  <2>4. ASSUME NEW n \in Node, NEW d \in Node,
               \/ SendRelayed(n, d) \/ Miss(n, d) \/ DropRoute(n) \/ Stun(n) \/ Broadcast(n)
               \/ \E i \in 1 .. Len(net[<<d, n>>]) : Lose(d, n, i)
        PROVE  TypeOK'
    BY <2>1, <2>4, OtherType
  <2> QED
    BY <1>2, <2>2, <2>3, <2>4 DEF Next, Step
<1> QED
  BY <1>1, <1>2

-----------------------------------------------------------------------------
(* What a step does to the tables *)

\* Sessions are never lost, and joining says where they come from.
SessionStep(n, p) ==
  /\ p \in sessions[n] => p \in sessions'[n]
  /\ p \in sessions'[n] => p \in sessions[n] \/ joining[n][p] = "finished"
  /\ joining'[n][p] # joining[n][p] =>
       \/ /\ joining'[n][p] = "finished"
          /\ p \in Dials[n] \/ \E m \in InFlight(p, n) : m.type = "C"
       \/ joining'[n][p] = "inserted" /\ p \in sessions'[n]
       \/ joining[n][p] = "inserted"

LEMMA SessionSteps ==
  ASSUME TypeOK, Next
  PROVE  \A n, p \in Node : SessionStep(n, p)
<1> DEFINE G == \A n, p \in Node : SessionStep(n, p)
<1>1. ASSUME NEW n \in Node, NEW p \in Node, Dial(n, p) PROVE G
  BY <1>1 DEF Dial, TypeOK, SessionStep
<1>2. ASSUME NEW n \in Node, NEW p \in Node, Insert(n, p) PROVE G
  BY <1>2 DEF Insert, TypeOK, SessionStep
<1>3. ASSUME NEW n \in Node, NEW p \in Node, Register(n, p) PROVE G
  BY <1>3 DEF Register, TypeOK, SessionStep
<1>4. ASSUME NEW n \in Node, NEW p \in Node, NEW i \in Readable(p, n), ReadC(n, p, i) PROVE G
  <2>1. \E m \in InFlight(p, n) : m.type = "C"
    BY <1>4, ReadInFlight DEF ReadC
  <2> QED
    BY <1>4, <2>1 DEF ReadC, HandleC, TypeOK, SessionStep
<1>5. ASSUME NEW n \in Node, NEW p \in Node, NEW i \in Readable(p, n),
             Receive(n, p, i), ~ReadC(n, p, i)
      PROVE  UNCHANGED <<sessions, joining>>
  <2>1. CASE Unreadable(n, p, i)
    BY <2>1 DEF Unreadable, tables
  <2>2. CASE HandleSessionInit(n, p, i)
    BY <2>2 DEF HandleSessionInit
  <2>3. CASE HandleAnnounce(n, p, i)
    BY <2>3 DEF HandleAnnounce
  <2>4. CASE HandleDirectory(n, p, i)
    BY <2>4 DEF HandleDirectory
  <2>5. CASE RelayDirect(n, p, i) \/ RelayOnward(n, p, i) \/ RelayRefused(n, p, i)
    BY <2>5 DEF RelayDirect, RelayOnward, RelayRefused, tables
  <2>6. CASE RelayReturn(n, p, i)
    BY <2>6 DEF RelayReturn
  <2>7. CASE HandleReady(n, p, i)
    BY <2>7 DEF HandleReady
  <2>8. CASE HandleData(n, p, i)
    BY <2>8 DEF HandleData, tables
  <2> QED
    BY <1>5, <2>1, <2>2, <2>3, <2>4, <2>5, <2>6, <2>7, <2>8 DEF Receive
<1>6. ASSUME NEW n \in Node, NEW p \in Node,
             \/ AskRelays(n, p) \/ SendRelayed(n, p) \/ Miss(n, p) \/ DropRoute(n)
             \/ Stun(n) \/ Broadcast(n) \/ (\E i \in 1 .. Len(net[<<p, n>>]) : Lose(p, n, i))
      PROVE  UNCHANGED <<sessions, joining>>
  <2>1. CASE AskRelays(n, p)
    BY <2>1 DEF AskRelays, tables
  <2>2. CASE SendRelayed(n, p) \/ Miss(n, p)
    BY <2>2 DEF SendRelayed, Miss, tables
  <2>3. CASE DropRoute(n)
    BY <2>3 DEF DropRoute
  <2>4. CASE Stun(n) \/ Broadcast(n)
    BY <2>4 DEF Stun, Broadcast, tables
  <2>5. CASE \E i \in 1 .. Len(net[<<p, n>>]) : Lose(p, n, i)
    BY <2>5 DEF Lose, tables
  <2> QED
    BY <1>6, <2>1, <2>2, <2>3, <2>4, <2>5
<1>7. UNCHANGED <<sessions, joining>> => G
  BY DEF SessionStep
<1> HIDE DEF G
<1>8. G
  BY <1>1, <1>2, <1>3, <1>4, <1>5, <1>6, <1>7 DEF Next, Step
<1> QED
  BY <1>8 DEF G

\* n has word from its neighbour p of a path to d.
Learnt(n, d, p) ==
  /\ p \in sessions[n]
  /\ \E m \in InFlight(p, n) :
       \/ m.type = "PeerDirectory" /\ d \notin sessions[n] \cup {n}
       \/ m.type = "RelayReady" /\ m.dst = d
       \/ m.type = "RelayRequest" /\ m.dst = d /\ ~Hub(n)

\* A new path leads through the neighbour it was learnt from; a path disappears
\* only when a handshake with its peer finishes; a new route has a session or a
\* path.
PathStep(n, d) ==
  /\ paths'[n][d] # None => paths'[n][d] = paths[n][d] \/ Learnt(n, d, paths'[n][d].via)
  /\ paths'[n][d] = None => paths[n][d] = None \/ joining'[n][d] = "finished"
  /\ d \in routes'[n] => d \in routes[n] \/ d \in sessions[n] \/ paths'[n][d] # None

LEMMA AddPathStep ==
  ASSUME TypeOK, NEW n \in Node, NEW x \in Node, NEW q \in Node, NEW h \in 0 .. 255,
         Learnt(n, x, q), AddPath(n, x, q, h)
  PROVE  \A k, d \in Node : PathStep(k, d)
<1> SUFFICES ASSUME NEW k \in Node, NEW d \in Node PROVE PathStep(k, d)
  OBVIOUS
<1>1. CASE k = n /\ d = x
  <2>1. paths'[k][d] = [via |-> q, hops |-> h]
    BY <1>1 DEF AddPath, TypeOK
  <2>2. [via |-> q, hops |-> h] # None
    BY RelayAssumption DEF Path
  <2> QED
    BY <1>1, <2>1, <2>2 DEF PathStep
<1>2. CASE ~(k = n /\ d = x)
  <2>1. paths'[k][d] = paths[k][d]
    BY <1>2 DEF AddPath, TypeOK
  <2>2. d \in routes'[k] => d \in routes[k]
    BY <1>2 DEF AddPath, TypeOK
  <2> QED
    BY <2>1, <2>2 DEF PathStep
<1> QED
  BY <1>1, <1>2

LEMMA DirectoryStep ==
  ASSUME TypeOK, NEW n \in Node, NEW p \in Node, NEW i \in Readable(p, n),
         HandleDirectory(n, p, i)
  PROVE  \A k, d \in Node : PathStep(k, d)
<1> DEFINE E == net[<<p, n>>][i].entries
           better == Adopted(n, E)
           Offered(d) == CHOOSE e \in better : e.peer = d
<1> SUFFICES ASSUME NEW k \in Node, NEW d \in Node PROVE PathStep(k, d)
  OBVIOUS
<1>1. p \in sessions[n] /\ \E m \in InFlight(p, n) : m.type = "PeerDirectory"
  BY ReadInFlight DEF HandleDirectory, Reads
<1>2. E \in SUBSET Entry
  BY ReadType, MessageFields DEF HandleDirectory, Reads
<1>3. better \in SUBSET Entry
  BY <1>2, AdoptedType
<1>4. /\ paths' = [paths EXCEPT ![n] = [c \in Node |->
           IF \E e \in better : e.peer = c
             THEN [via |-> p, hops |-> Succ8(Offered(c).hops)]
             ELSE paths[n][c]]]
      /\ routes' = [routes EXCEPT ![n] = @ \cup {e.peer : e \in better}]
  BY DEF HandleDirectory
<1>5. CASE k = n /\ \E e \in better : e.peer = d
  <2>1. Offered(d) \in better
    BY <1>5
  <2>2. Offered(d).hops \in 0 .. 255
    BY <1>3, <2>1 DEF Entry
  <2>3. [via |-> p, hops |-> Succ8(Offered(d).hops)] \in Path
    <3>1. Succ8(Offered(d).hops) \in 0 .. 255
      BY <2>2, Succ8Type, Zenon
    <3> HIDE DEF Offered
    <3> QED
      BY <3>1 DEF Path
  <2>4. paths'[k][d] = [via |-> p, hops |-> Succ8(Offered(d).hops)]
    <3> HIDE DEF better, Offered
    <3> QED
      BY <1>4, <1>5 DEF TypeOK
  <2>5. paths'[k][d] # None /\ paths'[k][d].via = p
    BY <2>3, <2>4, RelayAssumption
  <2>6. d \notin sessions[n] \cup {n}
    BY <1>5 DEF Adopted
  <2>7. Learnt(n, d, p)
    BY <1>1, <2>6 DEF Learnt
  <2> QED
    BY <1>5, <2>5, <2>7 DEF PathStep
<1>6. CASE ~(k = n /\ \E e \in better : e.peer = d)
  <2> HIDE DEF better, Offered
  <2>1. paths'[k][d] = paths[k][d]
    BY <1>4, <1>6 DEF TypeOK
  <2>2. d \in routes'[k] => d \in routes[k]
    BY <1>4, <1>6 DEF TypeOK
  <2> QED
    BY <2>1, <2>2 DEF PathStep
<1> QED
  BY <1>5, <1>6

LEMMA PathSteps ==
  ASSUME TypeOK, JoinsHaveSession, Next
  PROVE  \A k, d \in Node : PathStep(k, d)
<1> DEFINE G == \A k, d \in Node : PathStep(k, d)
<1>1. ASSUME UNCHANGED <<paths, routes>> PROVE G
  BY <1>1 DEF PathStep
<1>2. ASSUME NEW n \in Node, NEW p \in Node, Dial(n, p) PROVE G
  <2>1. UNCHANGED routes
    BY <1>2 DEF Dial
  <2>2. \A k, d \in Node : IF k = n /\ d = p THEN paths'[k][d] = None /\ joining'[k][d] = "finished"
                           ELSE paths'[k][d] = paths[k][d]
    BY <1>2 DEF Dial, TypeOK
  <2> QED
    BY <2>1, <2>2 DEF PathStep
<1>3. ASSUME NEW n \in Node, NEW p \in Node, NEW i \in Readable(p, n), ReadC(n, p, i) PROVE G
  <2>1. UNCHANGED routes
    BY <1>3 DEF ReadC, HandleC
  <2>2. \A k, d \in Node : IF k = n /\ d = p THEN paths'[k][d] = None /\ joining'[k][d] = "finished"
                           ELSE paths'[k][d] = paths[k][d]
    BY <1>3 DEF ReadC, HandleC, TypeOK
  <2> QED
    BY <2>1, <2>2 DEF PathStep
<1>4. ASSUME NEW n \in Node, NEW p \in Node, Register(n, p) PROVE G
  <2>1. UNCHANGED paths /\ p \in sessions[n]
    BY <1>4 DEF Register, JoinsHaveSession
  <2>2. \A k, d \in Node : d \in routes'[k] => d \in routes[k] \/ (k = n /\ d = p)
    BY <1>4 DEF Register, TypeOK
  <2> QED
    BY <2>1, <2>2 DEF PathStep
<1>5. ASSUME NEW n \in Node, NEW p \in Node, NEW i \in Readable(p, n), HandleSessionInit(n, p, i)
      PROVE  G
  <2>1. UNCHANGED paths /\ p \in sessions[n]
    BY <1>5 DEF HandleSessionInit, Reads
  <2>2. \A k, d \in Node : d \in routes'[k] => d \in routes[k] \/ (k = n /\ d = p)
    BY <1>5 DEF HandleSessionInit, TypeOK
  <2> QED
    BY <2>1, <2>2 DEF PathStep
<1>6. ASSUME NEW n \in Node, NEW p \in Node, NEW i \in Readable(p, n), HandleDirectory(n, p, i)
      PROVE  G
  BY <1>6, DirectoryStep
<1>7. ASSUME NEW n \in Node, NEW p \in Node, NEW i \in Readable(p, n),
             RelayReturn(n, p, i) \/ HandleReady(n, p, i)
      PROVE  G
  <2> DEFINE m == net[<<p, n>>][i]
  <2>1. m \in Msg /\ p \in sessions[n] /\ m \in InFlight(p, n)
    BY <1>7, ReadType, ReadInFlight DEF RelayReturn, HandleReady, Reads
  <2>2. CASE RelayReturn(n, p, i)
    <3>1. m.dst \in Node /\ AddPath(n, m.dst, p, 1) /\ 1 \in 0 .. 255
      BY <2>1, <2>2, MessageFields DEF RelayReturn, Reads
    <3>2. Learnt(n, m.dst, p)
      BY <2>1, <2>2 DEF RelayReturn, Reads, Learnt
    <3> HIDE DEF m
    <3> QED
      BY <3>1, <3>2, AddPathStep
  <2>3. CASE HandleReady(n, p, i)
    <3>1. m.dst \in Node /\ m.hops \in 0 .. 255 /\ AddPath(n, m.dst, p, m.hops)
      BY <2>1, <2>3, MessageFields DEF HandleReady, Reads
    <3>2. Learnt(n, m.dst, p)
      BY <2>1, <2>3 DEF HandleReady, Reads, Learnt
    <3> HIDE DEF m
    <3> QED
      BY <3>1, <3>2, AddPathStep
  <2> QED
    BY <1>7, <2>2, <2>3
<1>8. ASSUME NEW n \in Node, NEW p \in Node, NEW i \in Readable(p, n),
             \/ Unreadable(n, p, i) \/ HandleAnnounce(n, p, i) \/ RelayDirect(n, p, i)
             \/ RelayOnward(n, p, i) \/ RelayRefused(n, p, i) \/ HandleData(n, p, i)
      PROVE  UNCHANGED <<paths, routes>>
  <2>1. CASE Unreadable(n, p, i)
    BY <2>1 DEF Unreadable, tables
  <2>2. CASE HandleAnnounce(n, p, i)
    BY <2>2 DEF HandleAnnounce
  <2>3. CASE RelayDirect(n, p, i) \/ RelayOnward(n, p, i) \/ RelayRefused(n, p, i)
    BY <2>3 DEF RelayDirect, RelayOnward, RelayRefused, tables
  <2>4. CASE HandleData(n, p, i)
    BY <2>4 DEF HandleData, tables
  <2> QED
    BY <1>8, <2>1, <2>2, <2>3, <2>4
<1>9. ASSUME NEW n \in Node, DropRoute(n) PROVE G
  <2>1. UNCHANGED paths
    BY <1>9 DEF DropRoute
  <2>2. \A k, d \in Node : d \in routes'[k] => d \in routes[k]
    BY <1>9 DEF DropRoute, TypeOK
  <2> QED
    BY <2>1, <2>2 DEF PathStep
<1>10. ASSUME NEW n \in Node, NEW p \in Node,
             \/ Insert(n, p) \/ AskRelays(n, p) \/ SendRelayed(n, p) \/ Miss(n, p)
             \/ Stun(n) \/ Broadcast(n) \/ (\E i \in 1 .. Len(net[<<p, n>>]) : Lose(p, n, i))
      PROVE  UNCHANGED <<paths, routes>>
  <2>1. CASE Insert(n, p)
    BY <2>1 DEF Insert
  <2>2. CASE AskRelays(n, p)
    BY <2>2 DEF AskRelays, tables
  <2>3. CASE SendRelayed(n, p) \/ Miss(n, p)
    BY <2>3 DEF SendRelayed, Miss, tables
  <2>4. CASE Stun(n) \/ Broadcast(n)
    BY <2>4 DEF Stun, Broadcast, tables
  <2>5. CASE \E i \in 1 .. Len(net[<<p, n>>]) : Lose(p, n, i)
    BY <2>5 DEF Lose, tables
  <2> QED
    BY <1>10, <2>1, <2>2, <2>3, <2>4, <2>5
<1> HIDE DEF G
<1>11. ASSUME NEW n \in Node, NEW p \in Node, NEW i \in Readable(p, n), Receive(n, p, i) PROVE G
  BY <1>1, <1>3, <1>5, <1>6, <1>7, <1>8, <1>11 DEF Receive
<1>12. G
  BY <1>1, <1>2, <1>4, <1>9, <1>10, <1>11 DEF Next, Step
<1> QED
  BY <1>12 DEF G

\* The outbound loop misses only peers it had a route to and no session with.
MissStep(n) ==
  missed'[n] # missed[n] => missed'[n] = None \/ missed'[n] \in routes[n] \ sessions[n]

\* Data is put on a TUN device by a node that keeps it.
DataStep ==
  \A t \in received' \ received :
    /\ t[2] \in Node /\ t[3] \in Node /\ Kept(t[3], t[2])
    /\ \E p \in Node : \E m \in InFlight(p, t[3]) : m.type = "RelayData" /\ m.dst = t[2]

LEMMA MissSteps ==
  ASSUME TypeOK, Next
  PROVE  DataStep /\ \A n \in Node : MissStep(n)
<1> DEFINE G == DataStep /\ \A n \in Node : MissStep(n)
<1>1. ASSUME UNCHANGED <<missed, received>> PROVE G
  BY <1>1 DEF DataStep, MissStep
<1>2. ASSUME NEW n \in Node, NEW p \in Node,
             Dial(n, p) \/ Insert(n, p) \/ Register(n, p) \/ AskRelays(n, p)
      PROVE  UNCHANGED <<missed, received>>
  BY <1>2 DEF Dial, Insert, Register, AskRelays, tasks
<1>3. ASSUME NEW n \in Node, NEW p \in Node, NEW i \in Readable(p, n), Receive(n, p, i),
             ~HandleData(n, p, i)
      PROVE  UNCHANGED <<missed, received>>
  <2>1. CASE ReadC(n, p, i)
    BY <2>1 DEF ReadC, HandleC, tasks
  <2>2. CASE Unreadable(n, p, i)
    BY <2>2 DEF Unreadable, tasks
  <2>3. CASE HandleSessionInit(n, p, i) \/ HandleAnnounce(n, p, i) \/ HandleDirectory(n, p, i)
    BY <2>3 DEF HandleSessionInit, HandleAnnounce, HandleDirectory, tasks
  <2>4. CASE RelayDirect(n, p, i) \/ RelayOnward(n, p, i) \/ RelayRefused(n, p, i)
    BY <2>4 DEF RelayDirect, RelayOnward, RelayRefused, tasks
  <2>5. CASE RelayReturn(n, p, i) \/ HandleReady(n, p, i)
    BY <2>5 DEF RelayReturn, HandleReady, tasks
  <2> QED
    BY <1>3, <2>1, <2>2, <2>3, <2>4, <2>5 DEF Receive
<1>4. ASSUME NEW n \in Node, NEW p \in Node, NEW i \in Readable(p, n), HandleData(n, p, i)
      PROVE  G
  <2> DEFINE m == net[<<p, n>>][i]
  <2>1. m \in InFlight(p, n) /\ m.type = "RelayData" /\ m \in Msg
    BY <1>4, ReadInFlight, ReadType DEF HandleData, Reads
  <2>2. UNCHANGED missed /\ received' = IF Kept(n, m.dst) THEN received \cup {<<m.src, m.dst, n>>} ELSE received
    BY <1>4 DEF HandleData, tasks
  <2> HIDE DEF m
  <2>3. m.dst \in Node
    BY <2>1, MessageFields
  <2> QED
    BY <2>1, <2>2, <2>3 DEF DataStep, MissStep
<1>5. ASSUME NEW n \in Node, NEW d \in Node, SendRelayed(n, d) \/ Stun(n) \/ Broadcast(n)
      PROVE  UNCHANGED <<missed, received>>
  BY <1>5 DEF SendRelayed, Stun, Broadcast, tasks
<1>6. ASSUME NEW n \in Node, NEW p \in Node, NEW i \in 1 .. Len(net[<<p, n>>]), Lose(p, n, i)
      PROVE  UNCHANGED <<missed, received>>
  BY <1>6 DEF Lose, tasks
<1>7. ASSUME NEW n \in Node, NEW d \in Node, Miss(n, d) PROVE G
  BY <1>7 DEF Miss, TypeOK, DataStep, MissStep
<1>8. ASSUME NEW n \in Node, DropRoute(n) PROVE G
  BY <1>8 DEF DropRoute, TypeOK, DataStep, MissStep
<1> HIDE DEF G
<1>9. G
  BY <1>1, <1>2, <1>3, <1>4, <1>5, <1>6, <1>7, <1>8 DEF Next, Step
<1> QED
  BY <1>9 DEF G

-----------------------------------------------------------------------------
(* The inductive invariant *)

LEMMA InitInv == Init => RelayInv
<1> SUFFICES ASSUME Init PROVE RelayInv
  OBVIOUS
<1>1. TypeOK
  BY InitType
<1>2. JoinsHaveSession /\ NextHopIsNeighbour /\ RoutesResolve /\ RelaysAreHubs
  BY DEF Init, JoinsHaveSession, NextHopIsNeighbour, RoutesResolve, RelaysAreHubs
<1>3. MessagesProper /\ RoutesNeedHubs
  BY DEF Init, MessagesProper, RoutesNeedHubs
<1> QED
  BY <1>1, <1>2, <1>3 DEF RelayInv

\* What a datagram under way says of its ends.
LEMMA ProperInFlight ==
  ASSUME MessagesProper, NEW n \in Node, NEW p \in Node, NEW m \in InFlight(n, p)
  PROVE  Proper(n, p, m)
<1>1. PICK j \in DOMAIN net[<<n, p>>] : m = net[<<n, p>>][j]
  BY DEF InFlight
<1>2. <<n, p>> \in Channel
  BY DEF Channel
<1> QED
  BY <1>1, <1>2 DEF MessagesProper

\* What is sent is proper.
LEMMA ProperSent ==
  ASSUME RelayInv, NEW n \in Node, NEW q \in Node, NEW m \in Msg, Sends(n, q, m)
  PROVE  Proper(n, q, m)
<1> USE DEF RelayInv
<1>1. CASE m = C \/ m \in {SessionInit, Announce}
  BY <1>1 DEF C, SessionInit, Announce, Proper
<1>2. CASE m.type = "PeerDirectory" /\ Hub(n)
  BY <1>2 DEF Proper
<1>3. CASE m.type = "RelayRequest"
  <2>1. Hub(n) \/ Hub(q)
    <3>1. CASE \E e \in InFlight(q, n) : e.type = "PeerDirectory"
      BY <3>1, ProperInFlight DEF Proper
    <3>2. CASE missed[n] # None /\ q \in candidates[n] \cap sessions[n]
      BY <3>2 DEF RoutesNeedHubs
    <3> QED
      BY <1>3, <3>1, <3>2 DEF Sends, C, SessionInit, Announce
  <2> QED
    BY <1>3, <2>1 DEF Proper
<1>4. CASE m.type = "RelayReady" /\ Hub(n)
  BY <1>4 DEF Proper
<1>5. CASE m.type = "RelayData"
  <2>1. m.dst \in Node
    BY <1>5, MessageFields
  <2>2. m.dst = q \/ (paths[n][m.dst] # None /\ paths[n][m.dst].via = q)
    BY <1>5 DEF Sends, C, SessionInit, Announce
  <2>3. m.dst = q \/ Hub(q)
    BY <2>1, <2>2 DEF RelaysAreHubs
  <2> QED
    BY <1>5, <2>3 DEF Proper
<1> QED
  BY <1>1, <1>2, <1>3, <1>4, <1>5 DEF Sends

\* Whoever tells of a path is a hub.
LEMMA LearntFromHub ==
  ASSUME MessagesProper, TypeOK, NEW n \in Node, NEW d \in Node, NEW p, Learnt(n, d, p)
  PROVE  p \in Node /\ Hub(p)
<1>1. p \in Node
  BY DEF Learnt, TypeOK
<1>2. PICK m \in InFlight(p, n) : \/ m.type \in {"PeerDirectory", "RelayReady"}
                                  \/ m.type = "RelayRequest" /\ ~Hub(n)
  BY DEF Learnt
<1>3. Proper(p, n, m)
  BY <1>1, ProperInFlight
<1> QED
  BY <1>1, <1>2, <1>3 DEF Proper

\* Sessions and hubs of a step.
LEMMA GrowthSteps ==
  ASSUME RelayInv, Next
  PROVE  /\ TypeOK'
         /\ \A n \in Node : sessions[n] \subseteq sessions'[n]
         /\ \A n \in Node : Hub(n) => Hub(n)'
         /\ \A n \in Node : sessions[n] # {} /\ sessions'[n] # sessions[n] => Hub(n)'
<1> USE DEF RelayInv
<1>1. TypeOK'
  BY StepType
<1>2. ASSUME NEW n \in Node PROVE sessions[n] \subseteq sessions'[n] /\ sessions'[n] \subseteq Node
  BY <1>1, SessionSteps DEF SessionStep, TypeOK
<1>3. ASSUME NEW n \in Node, Hub(n) PROVE Hub(n)'
  BY <1>1, <1>2, <1>3, HubStays
<1>4. ASSUME NEW n \in Node, sessions[n] # {}, sessions'[n] # sessions[n] PROVE Hub(n)'
  <2>1. PICK x, y \in sessions'[n] : x # y
    BY <1>2, <1>4
  <2>2. sessions'[n] \in SUBSET Node
    BY <1>2
  <2>3. Cardinality(sessions'[n]) >= 2
    BY <2>1, <2>2, TwoNeighbours
  <2> QED
    BY <2>3 DEF Hub
<1> QED
  BY <1>1, <1>2, <1>3, <1>4

LEMMA StepInv == RelayInv /\ [Next]_vars => RelayInv'
<1> SUFFICES ASSUME RelayInv, [Next]_vars PROVE RelayInv'
  OBVIOUS
<1> USE DEF RelayInv
<1>1. TypeOK'
  BY StepType
<1>2. CASE UNCHANGED vars
  <2>1. UNCHANGED <<net, sessions, joining, paths, routes, missed>>
    BY <1>2 DEF vars, tables, tasks
  <2>2. JoinsHaveSession' /\ NextHopIsNeighbour' /\ RoutesResolve' /\ RelaysAreHubs'
    BY <2>1 DEF JoinsHaveSession, NextHopIsNeighbour, RoutesResolve, RelaysAreHubs, Hub
  <2>3. MessagesProper' /\ RoutesNeedHubs'
    BY <2>1 DEF MessagesProper, Proper, RoutesNeedHubs, Hub
  <2> QED
    BY <1>1, <2>2, <2>3
<1>3. CASE Next
  <2>1. \A n, p \in Node : SessionStep(n, p) /\ PathStep(n, p)
    BY <1>3, SessionSteps, PathSteps
  <2>2. /\ \A n \in Node : sessions[n] \subseteq sessions'[n]
        /\ \A n \in Node : Hub(n) => Hub(n)'
        /\ \A n \in Node : sessions[n] # {} /\ sessions'[n] # sessions[n] => Hub(n)'
    BY <1>3, GrowthSteps
  <2>3. JoinsHaveSession'
    BY <2>1 DEF JoinsHaveSession, SessionStep
  <2>4. NextHopIsNeighbour'
    BY <2>1, <2>2 DEF NextHopIsNeighbour, PathStep, Learnt
  <2>5. RoutesResolve'
    <3> SUFFICES ASSUME NEW n \in Node, NEW d \in routes'[n]
                 PROVE  d \in sessions'[n] \/ paths'[n][d] # None \/ joining'[n][d] = "finished"
      BY DEF RoutesResolve
    <3>1. d \in Node
      BY <1>1 DEF TypeOK
    <3>2. d \in routes[n] \/ d \in sessions[n] \/ paths'[n][d] # None
      BY <2>1, <3>1 DEF PathStep
    <3>3. CASE d \in routes[n]
      <4>1. d \in sessions[n] \/ paths[n][d] # None \/ joining[n][d] = "finished"
        BY <3>3 DEF RoutesResolve
      <4>2. CASE d \in sessions[n]
        BY <2>2, <4>2
      <4>3. CASE paths[n][d] # None
        BY <2>1, <3>1, <4>3 DEF PathStep
      <4>4. CASE joining[n][d] = "finished"
        BY <2>1, <3>1, <4>4 DEF SessionStep
      <4> QED
        BY <4>1, <4>2, <4>3, <4>4
    <3> QED
      BY <2>2, <3>2, <3>3
  <2>6. RelaysAreHubs'
    <3> SUFFICES ASSUME NEW n \in Node, NEW d \in Node, paths'[n][d] # None
                 PROVE  Hub(paths[n][d].via)'
      BY DEF RelaysAreHubs
    <3>1. PICK v : v = paths'[n][d].via
      OBVIOUS
    <3>2. paths'[n][d] = paths[n][d] \/ Learnt(n, d, v)
      BY <2>1, <3>1 DEF PathStep
    <3>3. v \in Node /\ Hub(v)
      <4>1. CASE paths'[n][d] = paths[n][d]
        BY <3>1, <4>1 DEF RelaysAreHubs, TypeOK, Path
      <4>2. CASE Learnt(n, d, v)
        BY <4>2, LearntFromHub
      <4> QED
        BY <3>2, <4>1, <4>2
    <3>4. Hub(v)'
      BY <2>2, <3>3
    <3> QED
      BY <3>1, <3>4 DEF Hub
  <2>7. MessagesProper'
    <3> SUFFICES ASSUME NEW k \in Node, NEW q \in Node, NEW j \in DOMAIN net'[<<k, q>>]
                 PROVE  Proper(k, q, net[<<k, q>>][j])'
      BY DEF MessagesProper, Channel
    <3>1. PICK m : m = net'[<<k, q>>][j]
      OBVIOUS
    <3>2. m \in InFlight(k, q) \/ (m \in Msg /\ Sends(k, q, m))
      BY <1>3, <3>1, NewMessages
    <3>3. Proper(k, q, m)
      BY <3>2, ProperInFlight, ProperSent
    <3>4. Proper(k, q, m)'
      BY <2>2, <3>3 DEF Proper
    <3> QED
      BY <3>1, <3>4 DEF Proper
  <2>8. RoutesNeedHubs'
    <3> SUFFICES ASSUME NEW n \in Node, ~(routes'[n] \subseteq sessions'[n]) \/ missed'[n] # None
                 PROVE  sessions'[n] # {} /\ (Hub(n)' \/ \A q \in sessions'[n] : Hub(q)')
      BY DEF RoutesNeedHubs
    <3>1. CASE ~(routes[n] \subseteq sessions[n]) \/ missed[n] # None
      <4>1. sessions[n] # {} /\ (Hub(n) \/ \A q \in sessions[n] : Hub(q))
        BY <3>1 DEF RoutesNeedHubs
      <4>2. CASE sessions'[n] = sessions[n]
        <5>1. sessions[n] \subseteq Node
          BY DEF TypeOK
        <5> QED
          BY <2>2, <4>1, <4>2, <5>1
      <4>3. CASE sessions'[n] # sessions[n]
        BY <2>2, <4>1, <4>3
      <4> QED
        BY <4>2, <4>3
    <3>2. CASE routes[n] \subseteq sessions[n] /\ missed[n] = None
      <4>1. missed'[n] = None
        BY <1>3, <3>2, MissSteps DEF MissStep
      <4>2. PICK d \in routes'[n] : d \notin sessions'[n]
        BY <4>1
      <4>3. d \in Node
        BY <1>1 DEF TypeOK
      <4>4. paths'[n][d] # None
        BY <2>1, <2>2, <3>2, <4>2, <4>3 DEF PathStep
      <4>5. PICK v \in sessions'[n] : Hub(v)'
        <5>1. paths'[n][d].via \in sessions'[n]
          BY <2>4, <4>3, <4>4 DEF NextHopIsNeighbour
        <5>2. Hub(paths[n][d].via)'
          BY <2>6, <4>3, <4>4 DEF RelaysAreHubs
        <5> QED
          BY <5>1, <5>2 DEF Hub
      <4>6. ASSUME NEW q \in sessions'[n], q # v PROVE Hub(n)'
        <5>1. sessions'[n] \in SUBSET Node
          BY <1>1 DEF TypeOK
        <5>2. Cardinality(sessions'[n]) >= 2
          BY <4>6, <5>1, TwoNeighbours
        <5> QED
          BY <5>2 DEF Hub
      <4> QED
        <5>1. CASE Hub(n)'
          BY <4>5, <5>1
        <5>2. CASE ~Hub(n)'
          BY <4>5, <4>6, <5>2
        <5> QED
          BY <5>1, <5>2
    <3> QED
      BY <3>1, <3>2
  <2> QED
    BY <1>1, <2>3, <2>4, <2>5, <2>6, <2>7, <2>8
<1> QED
  BY <1>2, <1>3

-----------------------------------------------------------------------------
(* Nothing leads back to itself *)

\* What has been asked stays asked.
LEMMA SelfishStays == RelayInv /\ [Next]_vars => (~used'.selfish => ~used.selfish)
<1> SUFFICES ASSUME TypeOK, [Next]_vars, used.selfish PROVE used'.selfish
  BY StepType DEF RelayInv, TypeOK
<1>1. CASE UNCHANGED used
  BY <1>1
<1>2. ASSUME NEW n \in Node, NEW p \in Node,
             Dial(n, p) \/ Insert(n, p) \/ Register(n, p)
      PROVE  UNCHANGED used
  BY <1>2 DEF Dial, Insert, Register
<1>3. ASSUME NEW n \in Node, NEW p \in Node, AskRelays(n, p) PROVE used'.selfish
  BY <1>3 DEF AskRelays, TypeOK
<1>4. ASSUME NEW n \in Node, NEW p \in Node, NEW i \in Readable(p, n), Receive(n, p, i)
      PROVE  UNCHANGED used
  BY <1>4 DEF Receive, ReadC, HandleC, Unreadable, HandleSessionInit, HandleAnnounce, HandleDirectory,
              RelayDirect, RelayOnward, RelayRefused, RelayReturn, HandleReady, HandleData
<1>5. ASSUME NEW n \in Node, NEW d \in Node, SendRelayed(n, d) \/ Miss(n, d) PROVE used'.selfish
  BY <1>5 DEF SendRelayed, Miss, TypeOK
<1>6. ASSUME NEW n \in Node, DropRoute(n) \/ Stun(n) \/ Broadcast(n) PROVE used'.selfish
  BY <1>6 DEF DropRoute, Stun, Broadcast, TypeOK
<1>7. ASSUME NEW n \in Node, NEW p \in Node, NEW i \in 1 .. Len(net[<<p, n>>]), Lose(p, n, i)
      PROVE  used'.selfish
  BY <1>7 DEF Lose, TypeOK
<1> QED
  BY <1>1, <1>2, <1>3, <1>4, <1>5, <1>6, <1>7 DEF Next, Step, vars

LEMMA InitSelf == Init => SelfInv
<1> SUFFICES ASSUME Init PROVE SelfInv
  OBVIOUS
<1>1. NothingToSelf
  BY DEF Init, NothingToSelf
<1>2. \A n \in Node : joining[n][n] = "idle" /\ missed[n] # n
  BY RelayAssumption DEF Init
<1>3. \A c \in Channel : \A i \in DOMAIN net[c] : Foreign(c[1], c[2], net[c][i])
  BY DEF Init
<1> QED
  BY <1>1, <1>2, <1>3 DEF SelfInv

LEMMA ForeignInFlight ==
  ASSUME SelfInv, NEW n \in Node, NEW p \in Node, NEW m \in InFlight(n, p)
  PROVE  Foreign(n, p, m)
<1>1. PICK j \in DOMAIN net[<<n, p>>] : m = net[<<n, p>>][j]
  BY DEF InFlight
<1>2. <<n, p>> \in Channel
  BY DEF Channel
<1> QED
  BY <1>1, <1>2 DEF SelfInv

\* What is sent names third nodes, unless the outbound loop asks a peer for a
\* path to itself.
LEMMA ForeignSent ==
  ASSUME RelayInv, SelfInv, ~used'.selfish,
         NEW n \in Node, NEW q \in Node, NEW m \in Msg, Sends(n, q, m)
  PROVE  Foreign(n, q, m)
<1>1. n \notin sessions[n]
  BY DEF SelfInv, NothingToSelf
<1>2. CASE m = C /\ q \in Dials[n]
  BY <1>2, RelayAssumption DEF C, Foreign
<1>3. CASE m \in {SessionInit, Announce} \/ m.type \in {"PeerDirectory", "RelayData"}
  BY <1>3 DEF SessionInit, Announce, Foreign
<1>4. CASE m.type = "RelayRequest"
  <2>1. m.dst \in Node
    BY <1>4, MessageFields
  <2>2. \/ q \in sessions[n] /\ m.dst \notin sessions[n] \cup {n}
        \/ m.dst \in sessions[n] \ {q}
        \/ m.dst \in sessions[n] /\ \E d \in Node : paths[n][d] # None /\ paths[n][d].via = q
        \/ /\ missed[n] # None /\ m.dst = missed[n] /\ q \in sessions[n]
           /\ ~Selfish(n, q)
    BY <1>4 DEF Sends, C, SessionInit, Announce
  <2>3. m.dst # n
    BY <1>1, <2>2 DEF SelfInv
  <2>4. m.dst = q => Hub(q)
    BY <2>2 DEF RelayInv, RelaysAreHubs, Selfish
  <2> QED
    BY <1>4, <2>3, <2>4 DEF Foreign
<1>5. CASE m.type = "RelayReady"
  <2>1. m.dst \in Node
    BY <1>5, MessageFields
  <2>2. \/ /\ m.dst \in sessions[n] \/ paths[n][m.dst] # None
           /\ \E e \in InFlight(q, n) : e.type = "RelayRequest" /\ e.dst = m.dst
        \/ /\ m.dst \in sessions[n]
           /\ \E e \in InFlight(m.dst, n) : e.type = "RelayRequest" /\ e.dst = q
    BY <1>5 DEF Sends, C, SessionInit, Announce
  <2>3. m.dst # n
    BY <1>1, <2>2 DEF SelfInv, NothingToSelf
  <2>4. m.dst # q
    BY <2>1, <2>2, ForeignInFlight DEF Foreign
  <2> QED
    BY <1>5, <2>3, <2>4 DEF Foreign
<1> QED
  BY <1>2, <1>3, <1>4, <1>5 DEF Sends

\* Nobody learns of a path to itself, or of one to a peer from that peer.
LEMMA LearntOfOthers ==
  ASSUME RelayInv, SelfInv, NEW n \in Node, NEW d \in Node, NEW p \in Node, Learnt(n, d, p)
  PROVE  d # n /\ d # p
<1>1. PICK m \in InFlight(p, n) :
         \/ m.type = "PeerDirectory" /\ d \notin sessions[n] \cup {n}
         \/ m.type = "RelayReady" /\ m.dst = d
         \/ m.type = "RelayRequest" /\ m.dst = d /\ ~Hub(n)
  BY DEF Learnt
<1>2. p \in sessions[n]
  BY DEF Learnt
<1>3. Foreign(p, n, m)
  BY ForeignInFlight
<1> QED
  BY <1>1, <1>2, <1>3 DEF Foreign

LEMMA StepSelf == RelayInv /\ SelfInv /\ ~used'.selfish /\ [Next]_vars => SelfInv'
<1> SUFFICES ASSUME RelayInv, SelfInv, ~used'.selfish, [Next]_vars PROVE SelfInv'
  OBVIOUS
<1>1. CASE UNCHANGED vars
  <2>1. UNCHANGED <<net, sessions, joining, paths, routes, missed>>
    BY <1>1 DEF vars, tables, tasks
  <2> QED
    BY <2>1 DEF SelfInv, NothingToSelf, Foreign, Hub
<1>2. CASE Next
  <2> USE DEF RelayInv
  <2>1. \A n, p \in Node : SessionStep(n, p) /\ PathStep(n, p)
    BY <1>2, SessionSteps, PathSteps
  <2>2. TypeOK' /\ \A n \in Node : Hub(n) => Hub(n)'
    BY <1>2, GrowthSteps
  <2>3. ASSUME NEW n \in Node PROVE n \notin sessions'[n]
    BY <2>1 DEF SessionStep, SelfInv, NothingToSelf
  <2>4. ASSUME NEW n \in Node, NEW d \in Node, paths'[n][d] # None
        PROVE  d # n /\ paths'[n][d].via # d
    <3>1. PICK v : v = paths'[n][d].via
      OBVIOUS
    <3>2. CASE paths'[n][d] = paths[n][d]
      BY <2>4, <3>2 DEF SelfInv, NothingToSelf
    <3>3. CASE Learnt(n, d, v)
      <4>1. v \in Node
        BY <3>3, LearntFromHub
      <4> QED
        BY <3>1, <3>3, <4>1, LearntOfOthers
    <3> QED
      BY <2>1, <2>4, <3>1, <3>2, <3>3 DEF PathStep
  <2>5. NothingToSelf'
    <3> SUFFICES ASSUME NEW n \in Node
                 PROVE  /\ paths'[n][n] = None /\ n \notin routes'[n] \cup sessions'[n]
                        /\ \A d \in Node : paths'[n][d] # None => paths'[n][d].via # d
      BY DEF NothingToSelf
    <3>1. paths'[n][n] = None
      BY <2>4
    <3>2. n \notin routes'[n]
      BY <2>1, <3>1 DEF PathStep, SelfInv, NothingToSelf
    <3> QED
      BY <2>3, <2>4, <3>1, <3>2
  <2>6. ASSUME NEW n \in Node PROVE joining'[n][n] = "idle"
    <3>1. joining[n][n] = "idle" /\ n \notin Dials[n]
      BY RelayAssumption DEF SelfInv
    <3>2. ~ \E m \in InFlight(n, n) : m.type = "C"
      BY ForeignInFlight DEF Foreign
    <3> QED
      BY <2>1, <2>3, <3>1, <3>2 DEF SessionStep
  <2>7. ASSUME NEW n \in Node PROVE missed'[n] # n
    <3>1. missed[n] # n /\ n \notin routes[n] /\ n # None
      BY RelayAssumption DEF SelfInv, NothingToSelf
    <3>2. MissStep(n)
      BY <1>2, MissSteps
    <3> QED
      BY <3>1, <3>2 DEF MissStep
  <2>8. ASSUME NEW k \in Node, NEW q \in Node, NEW j \in DOMAIN net'[<<k, q>>]
        PROVE  Foreign(k, q, net[<<k, q>>][j])'
    <3>1. PICK m : m = net'[<<k, q>>][j]
      OBVIOUS
    <3>2. m \in InFlight(k, q) \/ (m \in Msg /\ Sends(k, q, m))
      BY <1>2, <2>8, <3>1, NewMessages
    <3>3. Foreign(k, q, m)
      BY <3>2, ForeignInFlight, ForeignSent
    <3>4. Foreign(k, q, m)'
      BY <2>2, <3>3 DEF Foreign
    <3> QED
      BY <3>1, <3>4 DEF Foreign
  <2>9. (\A c \in Channel : \A i \in DOMAIN net[c] : Foreign(c[1], c[2], net[c][i]))'
    BY <2>8 DEF Channel
  <2> QED
    BY <2>5, <2>6, <2>7, <2>9 DEF SelfInv
<1> QED
  BY <1>1, <1>2

-----------------------------------------------------------------------------
(* Relayed data *)

\* A node keeps data that is not its own only if it is a hub without the relay
\* flag and without a session to the destination.
Strays(t) ==
  t[3] # t[2] => Hub(t[3]) /\ t[3] \notin relays /\ t[2] \notin sessions[t[3]]

LEMMA DataSteps == RelayInv /\ [Next]_vars => \A t \in received' \ received : Strays(t)
<1> SUFFICES ASSUME RelayInv, [Next]_vars, NEW t \in received' \ received, t[3] # t[2]
             PROVE  Hub(t[3]) /\ t[3] \notin relays /\ t[2] \notin sessions[t[3]]
  BY DEF Strays
<1> USE DEF RelayInv
<1>1. Next
  BY DEF vars
<1>2. /\ t[2] \in Node /\ t[3] \in Node /\ Kept(t[3], t[2])
      /\ \E p \in Node : \E m \in InFlight(p, t[3]) : m.type = "RelayData" /\ m.dst = t[2]
  BY <1>1, MissSteps DEF DataStep
<1>3. Hub(t[3])
  BY <1>2, ProperInFlight DEF Proper
<1> QED
  BY <1>2, <1>3 DEF Kept

LEMMA StepDelivered ==
  RelayInv /\ DeliveredAtDestination /\ HubsForward /\ [Next]_vars => DeliveredAtDestination'
<1> SUFFICES ASSUME RelayInv, DeliveredAtDestination, HubsForward, [Next]_vars,
                    NEW t \in received'
             PROVE  t[3] = t[2]
  BY DEF DeliveredAtDestination
<1>1. CASE t \in received
  BY <1>1 DEF DeliveredAtDestination
<1>2. CASE t \notin received
  <2>1. Strays(t)
    BY <1>2, DataSteps
  <2>2. t[2] \in Node /\ t[3] \in Node
    BY StepType DEF RelayInv, TypeOK
  <2> QED
    BY <2>1, <2>2 DEF Strays, HubsForward
<1> QED
  BY <1>1, <1>2

-----------------------------------------------------------------------------
(* The theorems *)

\* The inductive invariant holds in every reachable state of any network
\* (handshake.rs:107-123, inbound.rs:113-133, 278-308, 517-551, 669-676).
THEOREM RelayInvariant == Spec => []RelayInv
<1>1. Init => RelayInv
  BY InitInv
<1>2. RelayInv /\ [Next]_vars => RelayInv'
  BY StepInv
<1> QED
  BY <1>1, <1>2, PTL DEF Spec

\* Forwarding never finds a path whose next hop it has no session with
\* (inbound.rs:724-738, outbound.rs:68-87).
THEOREM NextHopsAreNeighbours == Spec => []NextHopIsNeighbour
<1>1. RelayInv => NextHopIsNeighbour
  BY DEF RelayInv
<1> QED
  BY <1>1, RelayInvariant, PTL

\* Every overlay route leads to a session or a path, or its peer's handshake
\* is just finishing (outbound.rs:48-97).
THEOREM RoutesLeadSomewhere == Spec => []RoutesResolve
<1>1. RelayInv => RoutesResolve
  BY DEF RelayInv
<1> QED
  BY <1>1, RelayInvariant, PTL

\* Whoever a path leads through has two neighbours, and so answers requests and
\* forwards: with one it would take a request for news of a path of its own
\* (inbound.rs:588, 665-685).
THEOREM RelaysHaveNeighbours == Spec => []RelaysAreHubs
<1>1. RelayInv => RelaysAreHubs
  BY DEF RelayInv
<1> QED
  BY <1>1, RelayInvariant, PTL

\* No path or route leads a node to itself, nor to a peer through that very
\* peer, until an outbound loop asks the peer it missed for a path to itself
\* (inbound.rs:278-308, 508, 616-662, 669-676, outbound.rs:88-115).
THEOREM NothingLeadsToSelf == Spec => []OnlySelfishToSelf
<1> DEFINE Until == ~used.selfish => SelfInv
<1>1. Init => Until
  BY InitSelf
<1>2. RelayInv /\ Until /\ [Next]_vars => Until'
  <2>1. RelayInv /\ [Next]_vars => (~used'.selfish => ~used.selfish)
    BY SelfishStays
  <2> QED
    BY <2>1, StepSelf
<1>3. Until => OnlySelfishToSelf
  BY DEF SelfInv, OnlySelfishToSelf
<1> HIDE DEF Until
<1> QED
  BY <1>1, <1>2, <1>3, RelayInvariant, PTL DEF Spec

\* Relayed data surfaces on a TUN device it was not sent to only at a node that
\* has two neighbours, has not set its relay flag and has no session with the
\* destination: nobody at the end of a path takes what is not for it
\* (inbound.rs:693-705).
THEOREM StrayData == Spec => [][\A t \in received' \ received : Strays(t)]_vars
<1>1. RelayInv /\ [Next]_vars => [\A t \in received' \ received : Strays(t)]_vars
  BY DataSteps
<1> QED
  BY <1>1, RelayInvariant, PTL DEF Spec

\* Where every node between others can relay or has a session with each of
\* them, relayed data is only put on the TUN device it was sent to, in any
\* topology and whatever paths are replaced on the way (inbound.rs:693-739).
THEOREM DataReachesDestination == Spec /\ []HubsForward => []DeliveredAtDestination
<1>1. Init => DeliveredAtDestination
  BY DEF Init, DeliveredAtDestination
<1>2. RelayInv /\ DeliveredAtDestination /\ HubsForward /\ [Next]_vars => DeliveredAtDestination'
  BY StepDelivered
<1> QED
  BY <1>1, <1>2, RelayInvariant, PTL DEF Spec
=============================================================================
