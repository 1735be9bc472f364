----------------------------- MODULE PeersProofs ----------------------------
(***************************************************************************)
(* Proofs about Peers for any set of tasks with any jobs: a peer that      *)
(* several tasks register at once ends up Connected, whatever entries they *)
(* replace and whatever transitions are refused.                           *)
(***************************************************************************)
EXTENDS Peers, SequenceTheorems, TLAPS

\* The order of the states of a registration.
LEMMA RankFacts ==
  /\ Rank("Discovering") = 1 /\ Rank("Connecting") = 2
  /\ Rank("Handshaking") = 3 /\ Rank("Connected") = 4
  /\ \A q \in Stage : Rank(q) \in 1 .. 4 /\ (Rank(q) = 4 => q = "Connected")
BY DEF Rank, Stage

\* A transition to the next state of a registration is one up; one that is
\* refused was not to the next state.
LEMMA TransitionFacts ==
  ASSUME NEW s \in Stage, NEW t \in Stage \ {"Discovering"}
  PROVE  CanTransition(s, t) <=> Rank(t) = Rank(s) + 1
BY RankFacts DEF CanTransition, Allowed, Stage

\* Objects have indexes 1 to Len(objects) and states of a registration.
LEMMA ObjectFacts ==
  ASSUME TypeOK
  PROVE  /\ Len(objects) \in Nat
         /\ \A i \in 1 .. Len(objects) : objects[i] \in Stage
<1>1. objects \in Seq(Stage)
  BY DEF TypeOK
<1> QED
  BY <1>1, LenProperties, ElementOfSeq

\* Making a Peer leaves the others alone.
LEMMA AppendFacts ==
  ASSUME TypeOK, objects' = Append(objects, "Discovering")
  PROVE  /\ objects' \in Seq(Stage)
         /\ Len(objects') = Len(objects) + 1
         /\ objects'[Len(objects) + 1] = "Discovering"
         /\ \A i \in 1 .. Len(objects) : objects'[i] = objects[i]
<1>1. objects \in Seq(Stage) /\ "Discovering" \in Stage
  BY DEF TypeOK, Stage
<1> QED
  BY <1>1, AppendProperties

\* So does changing the state of one.
LEMMA UpdateFacts ==
  ASSUME TypeOK, NEW i \in 1 .. Len(objects), NEW q \in Stage,
         objects' = [objects EXCEPT ![i] = q]
  PROVE  /\ objects' \in Seq(Stage)
         /\ Len(objects') = Len(objects)
         /\ objects'[i] = q
         /\ \A k \in 1 .. Len(objects) : k # i => objects'[k] = objects[k]
<1>1. objects \in Seq(Stage)
  BY DEF TypeOK
<1> QED
  BY <1>1, ExceptSeq

\* The Connected events among events are of peers.
LEMMA ConnectedInType ==
  ASSUME NEW E, E \subseteq Peer \X Stage
  PROVE  ConnectedIn(E) \subseteq Peer
BY DEF ConnectedIn

\* The channel has a first event if it is not empty, and events after it.
LEMMA EventFacts ==
  ASSUME TypeOK
  PROVE  /\ events \in Seq(Peer \X Stage) /\ Len(events) \in Nat
         /\ events # <<>> =>
              Head(events) \in Peer \X Stage /\ Tail(events) \in Seq(Peer \X Stage)
<1>1. events \in Seq(Peer \X Stage)
  BY DEF TypeOK
<1> QED
  BY <1>1, LenProperties, HeadTailProperties

\* Sending keeps the channel a sequence of events.
LEMMA SendType ==
  ASSUME TypeOK, NEW p \in Peer, NEW e \in Stage, Send(p, e)
  PROVE  events' \in Seq(Peer \X Stage) /\ lagged' \in BOOLEAN /\ unheard' \subseteq Peer
<1> DEFINE full == Len(events) >= EVENT_CHANNEL_CAPACITY
           lost == IF loop = "off" THEN {<<p, e>>} ELSE IF full THEN {Head(events)} ELSE {}
<1>1. lagged \in BOOLEAN /\ unheard \subseteq Peer /\ <<p, e>> \in Peer \X Stage
  BY DEF TypeOK
<1>2. full => events # <<>>
  BY EventFacts, EmptySeq, PeersAssumption DEF PeersAssumption
<1>3. (IF full THEN Tail(events) ELSE events) \in Seq(Peer \X Stage)
  BY <1>2, EventFacts
<1>4. Append(IF full THEN Tail(events) ELSE events, <<p, e>>) \in Seq(Peer \X Stage)
  BY <1>1, <1>3, AppendProperties
<1>5. /\ events' = IF loop = "off" THEN events
                   ELSE Append(IF full THEN Tail(events) ELSE events, <<p, e>>)
      /\ lagged' = (lagged \/ (loop # "off" /\ full))
      /\ unheard' = unheard \cup ConnectedIn(lost)
  BY DEF Send
<1>6. events' \in Seq(Peer \X Stage)
  <2> HIDE DEF full
  <2> QED
    BY <1>4, <1>5, EventFacts
<1>7. lost \subseteq Peer \X Stage
  BY <1>1, <1>2, EventFacts
<1>8. ConnectedIn(lost) \subseteq Peer
  BY <1>7, ConnectedInType
<1> QED
  BY <1>1, <1>5, <1>6, <1>8

\* The snapshot task touches neither the table nor the registering tasks.
LEMMA SnapshotFrame ==
  ASSUME Snapshot
  PROVE  UNCHANGED <<objects, table, actors>>
BY DEF Snapshot, Subscribe, WriteEmpty, Recv, RecvLagged, Look, WriteList

\* Nor does it leave its own states.
LEMMA SnapshotType ==
  ASSUME TypeOK, Snapshot
  PROVE  TypeOK'
<1>1. events # <<>> => Tail(events) \in Seq(Peer \X Stage)
  BY EventFacts
<1>2. CASE Subscribe
  BY <1>2 DEF Subscribe, TypeOK, actors
<1>3. CASE WriteEmpty
  BY <1>3 DEF WriteEmpty, TypeOK, actors, NoEvent
<1>4. CASE Recv
  BY <1>1, <1>4 DEF Recv, TypeOK, actors
<1>5. CASE RecvLagged
  BY <1>5 DEF RecvLagged, TypeOK, actors, snapshot
<1>6. CASE WriteList
  BY <1>6 DEF WriteList, TypeOK, actors, NoEvent
<1>7. ASSUME NEW p \in Peer, Look(p) PROVE TypeOK'
  BY <1>7 DEF Look, TypeOK, actors, NoEvent
<1> QED
  BY <1>2, <1>3, <1>4, <1>5, <1>6, <1>7 DEF Snapshot

-----------------------------------------------------------------------------
(* Steps of a registering task *)

\* Facts of the task at work.
LEMMA ActorFacts ==
  ASSUME TypeOK, JobsAreGiven, NEW a \in Actor
  PROVE  /\ at[a] # "idle" => job[a] \in Job /\ job[a].peer \in Peer
         /\ todo[a] \subseteq Job
         /\ held[a] \in 0 .. Len(objects)
         /\ next[a] \in Stage \ {"Discovering"}
<1>1. job[a] \in Job \cup {None} /\ todo[a] \in SUBSET Job
  BY DEF TypeOK
<1>2. at[a] # "idle" => job[a] \in Job
  BY <1>1 DEF JobsAreGiven
<1> QED
  BY <1>1, <1>2 DEF TypeOK, Job

\* Going on to the next transition.
LEMMA ProceedType ==
  ASSUME TypeOK, NEW a \in Actor, Proceed(a)
  PROVE  /\ job' \in [Actor -> Job \cup {None}]
         /\ at' \in [Actor -> {"idle", "insert", "fetch", "change", "emit"}]
         /\ next' \in [Actor -> Stage \ {"Discovering"}]
<1>1. CASE next[a] = "Connected"
  BY <1>1 DEF Proceed, TypeOK
<1>2. CASE next[a] # "Connected"
  BY <1>2 DEF Proceed, TypeOK, Stage
<1> QED
  BY <1>1, <1>2

LEMMA DiscoveredType ==
  ASSUME TypeOK, NEW a \in Actor, NEW j \in Job, Discovered(a, j)
  PROVE  /\ job' \in [Actor -> Job \cup {None}]
         /\ at' \in [Actor -> {"idle", "insert", "fetch", "change", "emit"}]
         /\ next' \in [Actor -> Stage \ {"Discovering"}]
BY DEF Discovered, TypeOK, Stage

LEMMA RegisterType ==
  ASSUME TypeOK, JobsAreGiven, NEW a \in Actor, Register(a)
  PROVE  TypeOK'
<1>1. /\ at[a] # "idle" => job[a] \in Job /\ job[a].peer \in Peer
      /\ todo[a] \subseteq Job
      /\ held[a] \in 0 .. Len(objects)
      /\ next[a] \in Stage \ {"Discovering"}
  BY ActorFacts
<1>2. Len(objects) \in Nat
  BY ObjectFacts
<1>3. ASSUME NEW j \in todo[a], FindPeer(a, j) PROVE TypeOK'
  <2>1. j \in Job
    BY <1>1
  <2> QED
    BY <1>3, <2>1, DiscoveredType DEF FindPeer, TypeOK, snapshot, NoEvent
<1>4. ASSUME NEW j \in todo[a], NewPeer(a, j) PROVE TypeOK'
  <2>1. j \in Job
    BY <1>1
  <2>2. objects' \in Seq(Stage) /\ Len(objects') = Len(objects) + 1
    BY <1>4, AppendFacts DEF NewPeer
  <2>3. table' \in [Peer -> 0 .. Len(objects')] /\ held' \in [Actor -> 0 .. Len(objects')]
    BY <1>2, <1>4, <2>2 DEF NewPeer, TypeOK
  <2>4. at' \in [Actor -> {"idle", "insert", "fetch", "change", "emit"}]
    BY <1>4 DEF NewPeer, TypeOK
  <2>5. job' \in [Actor -> Job \cup {None}] /\ todo' \in [Actor -> SUBSET Job]
    BY <1>4, <2>1 DEF NewPeer, TypeOK
  <2> QED
    BY <1>4, <2>2, <2>3, <2>4, <2>5 DEF NewPeer, TypeOK, snapshot, NoEvent
<1>5. CASE InsertPeer(a)
  <2>1. job[a] \in Job /\ job[a].peer \in Peer
    BY <1>1, <1>5 DEF InsertPeer
  <2>2. events' \in Seq(Peer \X Stage) /\ lagged' \in BOOLEAN /\ unheard' \subseteq Peer
    BY <1>5, <2>1, SendType DEF InsertPeer, Stage
  <2>3. table' \in [Peer -> 0 .. Len(objects)]
    BY <1>1, <1>5 DEF InsertPeer, TypeOK
  <2> QED
    BY <1>5, <2>1, <2>2, <2>3, DiscoveredType DEF InsertPeer, TypeOK, snapshot
<1>6. CASE Fetch(a)
  <2>1. table[job[a].peer] \in 0 .. Len(objects)
    BY <1>1, <1>6 DEF Fetch, TypeOK
  <2> QED
    BY <1>6, <2>1 DEF Fetch, TypeOK, snapshot, NoEvent
<1>7. CASE Change(a)
  <2>1. held[a] \in 1 .. Len(objects)
    BY <1>1, <1>2, <1>7 DEF Change, JobsAreGiven
  <2>2. objects' \in Seq(Stage) /\ Len(objects') = Len(objects)
    BY <1>1, <1>7, <2>1, UpdateFacts DEF Change
  <2> QED
    BY <1>7, <2>2 DEF Change, TypeOK, snapshot, NoEvent
<1>8. CASE Reject(a)
  BY <1>8, ProceedType DEF Reject, TypeOK, snapshot, NoEvent
<1>9. CASE Emit(a)
  <2>1. events' \in Seq(Peer \X Stage) /\ lagged' \in BOOLEAN /\ unheard' \subseteq Peer
    BY <1>1, <1>9, SendType DEF Emit
  <2> QED
    BY <1>9, <2>1, ProceedType DEF Emit, TypeOK, snapshot
<1> QED
  BY <1>3, <1>4, <1>5, <1>6, <1>7, <1>8, <1>9 DEF Register

\* A task that goes on is idle without a job, or asks for the next state.
LEMMA ProceedFacts ==
  ASSUME TypeOK, NEW a \in Actor, Proceed(a)
  PROVE  /\ \A b \in Actor \ {a} : job'[b] = job[b] /\ at'[b] = at[b] /\ next'[b] = next[b]
         /\ next[a] = "Connected" => job'[a] = None /\ at'[a] = "idle"
         /\ next[a] # "Connected" => job'[a] = job[a] /\ at'[a] = "fetch"
         /\ next[a] = "Connecting" => next'[a] = "Handshaking"
         /\ next[a] = "Handshaking" => next'[a] = "Connected"
<1>1. CASE next[a] = "Connected"
  BY <1>1 DEF Proceed, TypeOK
<1>2. CASE next[a] # "Connected"
  BY <1>2 DEF Proceed, TypeOK
<1> QED
  BY <1>1, <1>2

LEMMA DiscoveredFacts ==
  ASSUME TypeOK, NEW a \in Actor, NEW j, Discovered(a, j)
  PROVE  /\ \A b \in Actor \ {a} : job'[b] = job[b] /\ at'[b] = at[b] /\ next'[b] = next[b]
         /\ next'[a] = "Connecting"
         /\ j.goal = "connected" => job'[a] = j /\ at'[a] = "fetch"
         /\ j.goal # "connected" => job'[a] = None /\ at'[a] = "idle"
BY DEF Discovered, TypeOK

\* A task changes its own variables only, and never empties a table entry.
OthersFrame(a) ==
  /\ \A b \in Actor \ {a} :
       /\ todo'[b] = todo[b] /\ job'[b] = job[b] /\ at'[b] = at[b]
       /\ held'[b] = held[b] /\ next'[b] = next[b]
  /\ \A p \in Peer : table[p] # 0 => table'[p] # 0

\* What the task itself is doing fits its jobs.
OwnJobs(a) ==
  /\ todo'[a] \subseteq Work[a]
  /\ at'[a] = "idle" <=> job'[a] = None
  /\ at'[a] # "idle" => job'[a] \in Work[a]
  /\ at'[a] \in {"fetch", "change", "emit"} =>
       job'[a].goal = "connected" /\ table'[job'[a].peer] # 0
  /\ at'[a] \in {"change", "emit"} => held'[a] # 0

LEMMA RegisterJobs ==
  ASSUME TypeOK, JobsAreGiven, NewIsPrivate, NEW a \in Actor, Register(a)
  PROVE  OthersFrame(a) /\ OwnJobs(a)
<1>1. /\ at[a] # "idle" => job[a] \in Job /\ job[a].peer \in Peer
      /\ todo[a] \subseteq Job
      /\ held[a] \in 0 .. Len(objects)
  BY ActorFacts
<1>2. /\ todo[a] \subseteq Work[a]
      /\ at[a] = "idle" <=> job[a] = None
      /\ at[a] # "idle" => job[a] \in Work[a]
      /\ at[a] \in {"fetch", "change", "emit"} =>
           job[a].goal = "connected" /\ table[job[a].peer] # 0
      /\ at[a] \in {"change", "emit"} => held[a] # 0
  BY DEF JobsAreGiven
<1>3. \A x \in Job : x # None
  BY PeersAssumption DEF PeersAssumption
<1>4. ASSUME NEW j \in todo[a], FindPeer(a, j) PROVE OthersFrame(a) /\ OwnJobs(a)
  <2>1. j \in Job /\ j \in Work[a] /\ j # None
    BY <1>1, <1>2, <1>3
  <2>2. todo' = [todo EXCEPT ![a] = @ \ {j}] /\ Discovered(a, j) /\ table' = table
        /\ held' = held /\ table[j.peer] # 0
    BY <1>4 DEF FindPeer
  <2>3. OthersFrame(a)
    BY <2>1, <2>2, DiscoveredFacts DEF OthersFrame, TypeOK
  <2>4. todo'[a] \subseteq Work[a] /\ table'[j.peer] # 0
    BY <1>2, <2>2 DEF TypeOK
  <2>5. /\ j.goal = "connected" => job'[a] = j /\ at'[a] = "fetch"
        /\ j.goal # "connected" => job'[a] = None /\ at'[a] = "idle"
    BY <2>2, DiscoveredFacts
  <2>6. OwnJobs(a)
    BY <2>1, <2>4, <2>5 DEF OwnJobs
  <2> QED
    BY <2>3, <2>6
<1>5. ASSUME NEW j \in todo[a], NewPeer(a, j) PROVE OthersFrame(a) /\ OwnJobs(a)
  <2>1. j \in Job /\ j \in Work[a] /\ j # None
    BY <1>1, <1>2, <1>3
  <2>2. OthersFrame(a)
    BY <1>5 DEF NewPeer, OthersFrame, TypeOK
  <2>3. OwnJobs(a)
    BY <1>2, <1>5, <2>1 DEF NewPeer, OwnJobs, TypeOK
  <2> QED
    BY <2>2, <2>3
<1>6. CASE InsertPeer(a)
  <2>1. /\ job[a] \in Work[a] /\ job[a] # None /\ job[a].peer \in Peer
        /\ held[a] # 0 /\ at[a] = "insert"
    BY <1>1, <1>2, <1>3, <1>6 DEF InsertPeer, NewIsPrivate
  <2>2. /\ table' = [table EXCEPT ![job[a].peer] = held[a]]
        /\ Discovered(a, job[a]) /\ todo' = todo /\ held' = held
    BY <1>6 DEF InsertPeer
  <2>3. table'[job[a].peer] = held[a] /\ \A p \in Peer : p # job[a].peer => table'[p] = table[p]
    BY <2>1, <2>2 DEF TypeOK
  <2>4. OthersFrame(a)
    BY <2>1, <2>2, <2>3, DiscoveredFacts DEF OthersFrame
  <2>5. OwnJobs(a)
    BY <1>2, <2>1, <2>2, <2>3, DiscoveredFacts DEF OwnJobs
  <2> QED
    BY <2>4, <2>5
<1>7. CASE Fetch(a)
  <2>1. OthersFrame(a)
    BY <1>7 DEF Fetch, OthersFrame, TypeOK
  <2>2. OwnJobs(a)
    BY <1>2, <1>7 DEF Fetch, OwnJobs, TypeOK
  <2> QED
    BY <2>1, <2>2
<1>8. CASE Change(a)
  <2>1. OthersFrame(a)
    BY <1>8 DEF Change, OthersFrame, TypeOK
  <2>2. OwnJobs(a)
    BY <1>2, <1>8 DEF Change, OwnJobs, TypeOK
  <2> QED
    BY <2>1, <2>2
<1>9. ASSUME Proceed(a), UNCHANGED <<table, todo, held>>, at[a] \in {"change", "emit"}
      PROVE  OthersFrame(a) /\ OwnJobs(a)
  <2>1. OthersFrame(a)
    BY <1>9, ProceedFacts DEF OthersFrame
  <2>2. OwnJobs(a)
    BY <1>2, <1>9, ProceedFacts DEF OwnJobs
  <2> QED
    BY <2>1, <2>2
<1>10. CASE Reject(a)
  BY <1>9, <1>10 DEF Reject
<1>11. CASE Emit(a)
  BY <1>9, <1>11 DEF Emit
<1> QED
  BY <1>4, <1>5, <1>6, <1>7, <1>8, <1>10, <1>11 DEF Register

LEMMA JobsStep ==
  ASSUME TypeOK, JobsAreGiven, NewIsPrivate, NEW a \in Actor, Register(a)
  PROVE  JobsAreGiven'
<1>1. OthersFrame(a) /\ OwnJobs(a)
  BY RegisterJobs
<1>2. ASSUME NEW b \in Actor \ {a}, at[b] \in {"fetch", "change", "emit"}
      PROVE  job[b].peer \in Peer
  BY <1>2, ActorFacts
<1> QED
  BY <1>1, <1>2 DEF JobsAreGiven, OthersFrame, OwnJobs

\* Only one task knows an object before it is in the table.
LEMMA PrivateStep ==
  ASSUME TypeOK, JobsAreGiven, NewIsPrivate, NEW a \in Actor, Register(a)
  PROVE  NewIsPrivate'
<1> USE DEF NewIsPrivate
<1>1. Len(objects) \in Nat
  BY ObjectFacts
<1>2. OthersFrame(a)
  BY RegisterJobs
<1>3. \A b \in Actor : held[b] \in 0 .. Len(objects)
  BY DEF TypeOK
<1>4. \A p \in Peer : table[p] \in 0 .. Len(objects)
  BY DEF TypeOK
<1>5. ASSUME NEW j \in todo[a], FindPeer(a, j) PROVE NewIsPrivate'
  <2>1. at'[a] # "insert" /\ UNCHANGED <<objects, table, held>>
    BY <1>5, DiscoveredFacts DEF FindPeer
  <2> QED
    BY <1>2, <2>1 DEF OthersFrame
<1>6. ASSUME NEW j \in todo[a], NewPeer(a, j) PROVE NewIsPrivate'
  <2>1. /\ objects'[Len(objects) + 1] = "Discovering"
        /\ \A i \in 1 .. Len(objects) : objects'[i] = objects[i]
    BY <1>6, AppendFacts DEF NewPeer
  <2>2. table' = table /\ held'[a] = Len(objects) + 1
    BY <1>6 DEF NewPeer, TypeOK
  <2>3. \A b \in Actor \ {a} : held'[b] = held[b] /\ at'[b] = at[b]
    BY <1>2 DEF OthersFrame
  <2> QED
    BY <1>1, <1>3, <1>4, <2>1, <2>2, <2>3
<1>7. CASE InsertPeer(a)
  <2>1. at[a] = "insert" /\ at'[a] # "insert" /\ UNCHANGED <<objects, held>>
    BY <1>7, DiscoveredFacts DEF InsertPeer
  <2>2. \A p \in Peer : table'[p] = table[p] \/ table'[p] = held[a]
    BY <1>7 DEF InsertPeer, TypeOK
  <2> QED
    BY <1>2, <2>1, <2>2 DEF OthersFrame
<1>8. CASE Fetch(a)
  <2>1. at'[a] = "change" /\ UNCHANGED <<objects, table>>
    BY <1>8 DEF Fetch, TypeOK
  <2>2. held'[a] = table[job[a].peer] /\ job[a].peer \in Peer
    BY <1>8, ActorFacts DEF Fetch, TypeOK
  <2> QED
    BY <1>2, <2>1, <2>2 DEF OthersFrame
<1>9. CASE Change(a)
  <2>1. at'[a] = "emit" /\ UNCHANGED <<table, held>>
    BY <1>9 DEF Change, TypeOK
  <2>2. held[a] \in 1 .. Len(objects)
    BY <1>1, <1>3, <1>9 DEF Change, JobsAreGiven
  <2>3. \A k \in 1 .. Len(objects) : k # held[a] => objects'[k] = objects[k]
    BY <1>9, <2>2, UpdateFacts, ActorFacts DEF Change
  <2>4. \A b \in Actor \ {a} : at[b] = "insert" => held[b] \in 1 .. Len(objects) /\ held[b] # held[a]
    BY <1>1, <1>3
  <2> QED
    BY <1>2, <2>1, <2>3, <2>4 DEF OthersFrame
<1>10. ASSUME Proceed(a), UNCHANGED <<objects, table, held>> PROVE NewIsPrivate'
  <2>1. at'[a] # "insert"
    BY <1>10 DEF Proceed, TypeOK
  <2> QED
    BY <1>2, <1>10, <2>1 DEF OthersFrame
<1>11. CASE Reject(a)
  BY <1>10, <1>11 DEF Reject
<1>12. CASE Emit(a)
  BY <1>10, <1>12 DEF Emit
<1> QED
  BY <1>5, <1>6, <1>7, <1>8, <1>9, <1>11, <1>12 DEF Register

-----------------------------------------------------------------------------
(* Every peer has somebody to drive it *)

\* A step that leaves the table and its objects no further back keeps the
\* other tasks driving.
LEMMA OthersDrive ==
  ASSUME TypeOK, JobsAreGiven, NEW a \in Actor, NEW b \in Actor \ {a}, NEW p \in Peer,
         OthersFrame(a), Drives(b, p), table'[p] = table[p],
         Rank(objects[table[p]]) \in Nat, Rank(objects'[table[p]]) \in Nat, Rank(next[b]) \in Nat,
         Rank(objects[table[p]]) <= Rank(objects'[table[p]])
  PROVE  Drives(b, p)'
BY DEF OthersFrame, Drives

\* The task at work drives on, or has brought the peer to Connected, or was
\* not driving it.
LEMMA DrivenStep ==
  ASSUME TypeOK, JobsAreGiven, NewIsPrivate, EachIsDriven, NEW a \in Actor, Register(a)
  PROVE  EachIsDriven'
<1> SUFFICES ASSUME NEW p \in Peer \ Named, table'[p] # 0
             PROVE  objects'[table'[p]] = "Connected" \/ \E b \in Actor : Drives(b, p)'
  BY DEF EachIsDriven, Named
<1>1. Len(objects) \in Nat /\ \A i \in 1 .. Len(objects) : objects[i] \in Stage
  BY ObjectFacts
<1>2. OthersFrame(a) /\ OwnJobs(a)
  BY RegisterJobs
<1>3. \A q \in Peer : table[q] \in 0 .. Len(objects)
  BY DEF TypeOK
<1>4. \A b \in Actor : next[b] \in Stage \ {"Discovering"} /\ held[b] \in 0 .. Len(objects)
  BY DEF TypeOK
<1>5. \A q \in Stage : Rank(q) \in 1 .. 4 /\ (Rank(q) = 4 => q = "Connected")
  BY RankFacts
<1>6. ASSUME table'[p] = table[p],
             \A i \in 1 .. Len(objects) : objects'[i] \in Stage /\ Rank(objects[i]) <= Rank(objects'[i]),
             Drives(a, p) => objects'[table[p]] = "Connected" \/ Drives(a, p)'
      PROVE  objects'[table'[p]] = "Connected" \/ \E b \in Actor : Drives(b, p)'
  <2>1. table[p] \in 1 .. Len(objects)
    BY <1>1, <1>3, <1>6
  <2>2. objects[table[p]] = "Connected" \/ \E b \in Actor : Drives(b, p)
    BY <2>1 DEF EachIsDriven
  <2>3. CASE objects[table[p]] = "Connected"
    <3>1. Rank(objects'[table[p]]) = 4
      BY <1>5, <1>6, <2>1, <2>3, RankFacts
    <3> QED
      BY <1>5, <1>6, <2>1, <3>1
  <2>4. CASE Drives(a, p)
    BY <1>6, <2>4
  <2>5. ASSUME NEW b \in Actor \ {a}, Drives(b, p)
        PROVE  Drives(b, p)'
    <3>1. /\ Rank(objects[table[p]]) \in Nat /\ Rank(objects'[table[p]]) \in Nat
          /\ Rank(next[b]) \in Nat
          /\ Rank(objects[table[p]]) <= Rank(objects'[table[p]])
      BY <1>1, <1>4, <1>5, <1>6, <2>1
    <3> QED
      BY <1>2, <1>6, <2>5, <3>1, OthersDrive
  <2> QED
    BY <2>2, <2>3, <2>4, <2>5
<1>7. \A i \in 1 .. Len(objects) : Rank(objects[i]) <= Rank(objects[i])
  BY <1>1, <1>5
<1>8. ASSUME NEW j \in todo[a], FindPeer(a, j)
      PROVE  objects'[table'[p]] = "Connected" \/ \E b \in Actor : Drives(b, p)'
  <2>1. UNCHANGED <<objects, table>> /\ at[a] = "idle"
    BY <1>8 DEF FindPeer
  <2> QED
    BY <1>1, <1>6, <1>7, <2>1 DEF Drives
<1>9. ASSUME NEW j \in todo[a], NewPeer(a, j)
      PROVE  objects'[table'[p]] = "Connected" \/ \E b \in Actor : Drives(b, p)'
  <2>1. table' = table /\ at[a] = "idle" /\ \A i \in 1 .. Len(objects) : objects'[i] = objects[i]
    BY <1>9, AppendFacts DEF NewPeer
  <2> QED
    BY <1>1, <1>6, <1>7, <2>1 DEF Drives
<1>10. CASE InsertPeer(a)
  <2>1. /\ at[a] = "insert" /\ UNCHANGED <<objects, held>> /\ Discovered(a, job[a])
        /\ table' = [table EXCEPT ![job[a].peer] = held[a]]
    BY <1>10 DEF InsertPeer
  <2>2. job[a] \in Job /\ job[a] \in Work[a] /\ held[a] # 0 /\ objects[held[a]] = "Discovering"
    BY <2>1, ActorFacts DEF JobsAreGiven, NewIsPrivate
  <2>3. CASE job[a].peer = p
    <3>1. job[a].goal = "connected"
      <4>1. job[a] = [peer |-> p, goal |-> job[a].goal] /\ job[a].goal \in {"connected", "named"}
        BY <2>2, <2>3 DEF Job
      <4> QED
        BY <2>2, <4>1 DEF Named
    <3>2. at'[a] = "fetch" /\ job'[a] = job[a] /\ next'[a] = "Connecting"
      BY <2>1, <3>1, DiscoveredFacts
    <3>3. table'[p] = held[a]
      BY <2>1, <2>3 DEF TypeOK
    <3>4. Drives(a, p)'
      BY <2>1, <2>2, <2>3, <3>2, <3>3, RankFacts DEF Drives
    <3> QED
      BY <3>4
  <2>4. CASE job[a].peer # p
    <3>1. table'[p] = table[p]
      BY <2>1, <2>4 DEF TypeOK
    <3> QED
      BY <1>1, <1>6, <1>7, <2>1, <3>1 DEF Drives
  <2> QED
    BY <2>3, <2>4
<1>11. CASE Fetch(a)
  <2>1. /\ at[a] = "fetch" /\ UNCHANGED <<objects, table, job, next>>
        /\ at'[a] = "change" /\ held'[a] = table[job[a].peer]
    BY <1>11 DEF Fetch, TypeOK
  <2>2. Drives(a, p) => Drives(a, p)'
    BY <2>1 DEF Drives
  <2> QED
    BY <1>1, <1>6, <1>7, <2>1, <2>2
<1>12. CASE Change(a)
  <2>1. /\ at[a] = "change" /\ UNCHANGED <<table, job, held, next>> /\ at'[a] = "emit"
        /\ objects' = [objects EXCEPT ![held[a]] = next[a]]
        /\ CanTransition(objects[held[a]], next[a])
    BY <1>12 DEF Change, TypeOK
  <2>2. held[a] \in 1 .. Len(objects)
    BY <1>1, <1>4, <2>1 DEF JobsAreGiven
  <2>3. /\ objects'[held[a]] = next[a]
        /\ \A k \in 1 .. Len(objects) : k # held[a] => objects'[k] = objects[k]
    BY <1>4, <2>1, <2>2, UpdateFacts
  <2>4. Rank(next[a]) = Rank(objects[held[a]]) + 1
    BY <1>1, <1>4, <2>1, <2>2, TransitionFacts
  <2>5. \A i \in 1 .. Len(objects) :
          objects'[i] \in Stage /\ Rank(objects[i]) <= Rank(objects'[i])
    BY <1>1, <1>4, <1>5, <2>2, <2>3, <2>4
  <2>6. Drives(a, p) => Drives(a, p)'
    <3> SUFFICES ASSUME Drives(a, p) PROVE Drives(a, p)'
      OBVIOUS
    <3>1. job[a].peer = p /\ held[a] = table[p]
      BY <2>1 DEF Drives
    <3>2. Rank(next'[a]) = Rank(objects'[table'[p]]) /\ Rank(next'[a]) \in Nat
      BY <1>4, <1>5, <2>1, <2>3, <3>1
    <3> QED
      BY <2>1, <3>1, <3>2 DEF Drives
  <2> QED
    BY <1>6, <2>1, <2>5, <2>6
<1>13. ASSUME Proceed(a), UNCHANGED <<objects, table, held>>,
              Drives(a, p) => Rank(next[a]) <= Rank(objects[table[p]]),
              at[a] \in {"change", "emit"}
       PROVE  objects'[table'[p]] = "Connected" \/ \E b \in Actor : Drives(b, p)'
  <2>1. Drives(a, p) => objects'[table[p]] = "Connected" \/ Drives(a, p)'
    <3> SUFFICES ASSUME Drives(a, p) PROVE objects'[table[p]] = "Connected" \/ Drives(a, p)'
      OBVIOUS
    <3>1. table[p] \in 1 .. Len(objects) /\ objects[table[p]] \in Stage
      BY <1>1, <1>3, <1>13
    <3>2. Rank(objects[table[p]]) \in 1 .. 4 /\ Rank(next[a]) \in 1 .. 4
      BY <1>4, <1>5, <3>1
    <3>3. CASE next[a] = "Connected"
      <4>1. Rank(objects[table[p]]) = 4
        BY <1>13, <3>2, <3>3, RankFacts
      <4> QED
        BY <1>5, <1>13, <3>1, <4>1
    <3>4. CASE next[a] # "Connected"
      <4>1. at'[a] = "fetch" /\ job'[a] = job[a]
        BY <1>13, <3>4, ProceedFacts
      <4>2. Rank(next'[a]) = Rank(next[a]) + 1
        <5>1. next[a] \in {"Connecting", "Handshaking"}
          BY <1>4, <3>4 DEF Stage
        <5> QED
          BY <1>13, <5>1, ProceedFacts, RankFacts
      <4>3. Rank(next'[a]) <= Rank(objects'[table'[p]]) + 1
        BY <1>13, <3>2, <4>2
      <4>4. job'[a].peer = p
        BY <4>1 DEF Drives
      <4> QED
        BY <4>1, <4>3, <4>4 DEF Drives
    <3> QED
      BY <3>3, <3>4
  <2> QED
    BY <1>1, <1>6, <1>7, <1>13, <2>1
<1>14. CASE Reject(a)
  <2>1. /\ Proceed(a) /\ UNCHANGED <<objects, table, held>> /\ at[a] = "change"
        /\ ~CanTransition(objects[held[a]], next[a])
    BY <1>14 DEF Reject
  <2>2. held[a] \in 1 .. Len(objects)
    BY <1>1, <1>4, <2>1 DEF JobsAreGiven
  <2>3. Rank(next[a]) # Rank(objects[held[a]]) + 1
    BY <1>1, <1>4, <2>1, <2>2, TransitionFacts
  <2>4. Drives(a, p) => Rank(next[a]) <= Rank(objects[table[p]])
    <3> SUFFICES ASSUME Drives(a, p) PROVE Rank(next[a]) <= Rank(objects[table[p]])
      OBVIOUS
    <3>1. held[a] = table[p] /\ Rank(next[a]) <= Rank(objects[table[p]]) + 1
      BY <2>1 DEF Drives
    <3>2. Rank(objects[table[p]]) \in 1 .. 4 /\ Rank(next[a]) \in 1 .. 4
      BY <1>1, <1>4, <1>5, <2>2, <3>1
    <3> QED
      BY <2>3, <3>1, <3>2
  <2> QED
    BY <1>13, <2>1, <2>4
<1>15. CASE Emit(a)
  <2>1. Proceed(a) /\ UNCHANGED <<objects, table, held>> /\ at[a] = "emit"
    BY <1>15 DEF Emit
  <2>2. Drives(a, p) => Rank(next[a]) <= Rank(objects[table[p]])
    <3> SUFFICES ASSUME Drives(a, p) PROVE Rank(next[a]) <= Rank(objects[table[p]])
      OBVIOUS
    <3>1. Rank(next[a]) <= Rank(objects[table[p]]) + 0
      BY <2>1 DEF Drives
    <3>2. table[p] \in 1 .. Len(objects)
      BY <1>1, <1>3, <2>1
    <3>3. Rank(objects[table[p]]) \in 1 .. 4
      BY <1>1, <1>5, <3>2
    <3> QED
      BY <3>1, <3>3
  <2> QED
    BY <1>13, <2>1, <2>2
<1> QED
  BY <1>8, <1>9, <1>10, <1>11, <1>12, <1>14, <1>15 DEF Register

-----------------------------------------------------------------------------
LEMMA InitInv == Init => PeersInv
<1> SUFFICES ASSUME Init PROVE PeersInv
  OBVIOUS
<1>1. objects = <<>> /\ Len(objects) = 0 /\ objects \in Seq(Stage) /\ events \in Seq(Peer \X Stage)
  BY DEF Init
<1>2. TypeOK
  <2>1. objects \in Seq(Stage) /\ events \in Seq(Peer \X Stage) /\ lagged \in BOOLEAN
    BY <1>1 DEF Init
  <2>2. table \in [Peer -> 0 .. Len(objects)] /\ held \in [Actor -> 0 .. Len(objects)]
    BY <1>1 DEF Init
  <2>3. todo \in [Actor -> SUBSET Job]
    BY PeersAssumption DEF Init, PeersAssumption
  <2>4. job \in [Actor -> Job \cup {None}]
    BY DEF Init
  <2>5. at \in [Actor -> {"idle", "insert", "fetch", "change", "emit"}]
    BY DEF Init
  <2>6. next \in [Actor -> Stage \ {"Discovering"}]
    BY DEF Init, Stage
  <2>7. /\ loop \in {"off", "start", "wait", "scan"}
        /\ scan \subseteq Peer /\ found \subseteq Peer /\ listed \subseteq Peer
        /\ unheard \subseteq Peer
    BY DEF Init
  <2> QED
    BY <2>1, <2>2, <2>3, <2>4, <2>5, <2>6, <2>7 DEF TypeOK
<1> QED
  BY <1>2 DEF Init, PeersInv, JobsAreGiven, NewIsPrivate, EachIsDriven

LEMMA StepInv == PeersInv /\ [Next]_vars => PeersInv'
<1> SUFFICES ASSUME PeersInv, [Next]_vars PROVE PeersInv'
  OBVIOUS
<1> USE DEF PeersInv
<1>1. ASSUME NEW a \in Actor, Register(a) PROVE PeersInv'
  BY <1>1, RegisterType, JobsStep, PrivateStep, DrivenStep
<1>2. ASSUME UNCHANGED <<objects, table, actors>>, TypeOK' PROVE PeersInv'
  BY <1>2 DEF actors, JobsAreGiven, NewIsPrivate, EachIsDriven, Drives, Named
<1>3. CASE Snapshot
  BY <1>2, <1>3, SnapshotFrame, SnapshotType
<1>4. CASE UNCHANGED vars
  <2>1. TypeOK'
    BY <1>4 DEF vars, actors, snapshot, TypeOK
  <2> QED
    BY <1>2, <1>4, <2>1 DEF vars
<1> QED
  BY <1>1, <1>3, <1>4 DEF Next

\* The inductive invariant holds whatever tasks register whatever peers
\* (manager.rs:106-135).
THEOREM PeersInvariant == Spec => []PeersInv
<1>1. Init => PeersInv
  BY InitInv
<1>2. PeersInv /\ [Next]_vars => PeersInv'
  BY StepInv
<1> QED
  BY <1>1, <1>2, PTL DEF Spec

\* A peer registered by any number of tasks at once is Connected when they are
\* done with it (handshake.rs:202-215, inbound.rs:168-181, 294-307).
THEOREM RegistrationsConnect == Spec => []RegisteredIsConnected
<1>1. PeersInv => RegisteredIsConnected
  <2> SUFFICES ASSUME PeersInv, NEW p \in Peer \ Named, table[p] # 0,
                      \A a \in Actor : job[a] = None \/ job[a].peer # p
               PROVE  objects[table[p]] = "Connected"
    BY DEF RegisteredIsConnected
  <2>1. \A a \in Actor : ~Drives(a, p)
    BY DEF PeersInv, JobsAreGiven, Drives
  <2> QED
    BY <2>1 DEF PeersInv, EachIsDriven
<1> QED
  BY <1>1, PeersInvariant, PTL
=============================================================================
