---------------------------- MODULE StreamsProofs ----------------------------
(***************************************************************************)
(* Proofs about Streams: every mutex is wanted by exactly the tasks whose  *)
(* next step needs it and held by the one that got past it, every entry of *)
(* a map of connections leads where it says, no buffer overflows, what is  *)
(* on the wire of a connection is whole frames, no reader gives up a       *)
(* connection that works, and all of it together does what OrderedStreams  *)
(* promises.  They hold for any number of devices, connections, tasks,     *)
(* messages and failures, and any capacities.                              *)
(***************************************************************************)
EXTENDS Streams, SequenceTheorems, TLAPS

(* Sequences *)

\* A mutex gets one more who waits.
LEMMA AppendFacts ==
  ASSUME NEW S, NEW s \in Seq(S), NEW e \in S
  PROVE  /\ Append(s, e) \in Seq(S)
         /\ Len(Append(s, e)) = Len(s) + 1
         /\ Append(s, e) # <<>>
         /\ \A i \in 1 .. Len(s) : Append(s, e)[i] = s[i]
         /\ Append(s, e)[Len(s) + 1] = e
         /\ DOMAIN Append(s, e) = 1 .. Len(s) + 1
         /\ Range(Append(s, e)) = Range(s) \cup {e}
         /\ s # <<>> => Head(Append(s, e)) = Head(s)
         /\ IsInjective(s) /\ e \notin Range(s) => IsInjective(Append(s, e))
<1>1. /\ Len(s) \in Nat /\ DOMAIN s = 1 .. Len(s)
      /\ \A i \in 1 .. Len(s) : s[i] \in S
  BY LenProperties, ElementOfSeq
<1>2. /\ Append(s, e) \in Seq(S)
      /\ Len(Append(s, e)) = Len(s) + 1
      /\ \A i \in 1 .. Len(s) : Append(s, e)[i] = s[i]
      /\ Append(s, e)[Len(s) + 1] = e
  BY AppendProperties
<1>3. DOMAIN Append(s, e) = 1 .. Len(s) + 1
  BY <1>1, <1>2, LenProperties
<1>4. Append(s, e) # <<>>
  BY <1>1, <1>2
<1>5. Range(Append(s, e)) = Range(s) \cup {e}
  BY <1>1, <1>2, <1>3 DEF Range
<1>6. s # <<>> => Head(Append(s, e)) = Head(s)
  BY <1>1, <1>2
<1>7. IsInjective(s) /\ e \notin Range(s) => IsInjective(Append(s, e))
  BY <1>1, <1>2, <1>3 DEF Range, IsInjective
<1> QED
  BY <1>2, <1>3, <1>4, <1>5, <1>6, <1>7

\* Its holder lets it go.
LEMMA TailFacts ==
  ASSUME NEW S, NEW s \in Seq(S), s # <<>>
  PROVE  /\ Tail(s) \in Seq(S)
         /\ Head(s) \in S
         /\ Head(s) = s[1]
         /\ Len(s) \in Nat \ {0}
         /\ Len(Tail(s)) = Len(s) - 1
         /\ DOMAIN Tail(s) = 1 .. Len(s) - 1
         /\ \A i \in 1 .. Len(s) - 1 : Tail(s)[i] = s[i + 1]
         /\ IsInjective(s) => Range(Tail(s)) = Range(s) \ {Head(s)}
         /\ IsInjective(s) => IsInjective(Tail(s))
<1>1. /\ Len(s) \in Nat \ {0} /\ DOMAIN s = 1 .. Len(s)
      /\ \A i \in 1 .. Len(s) : s[i] \in S
  BY LenProperties, ElementOfSeq, EmptySeq
<1>2. /\ Tail(s) \in Seq(S)
      /\ Len(Tail(s)) = Len(s) - 1
      /\ \A i \in 1 .. Len(s) - 1 : Tail(s)[i] = s[i + 1]
      /\ Head(s) \in S
      /\ Head(s) = s[1]
  BY <1>1, HeadTailProperties
<1>3. DOMAIN Tail(s) = 1 .. Len(s) - 1
  BY <1>2, LenProperties
<1>4. IsInjective(s) => Range(Tail(s)) = Range(s) \ {Head(s)}
  <2> SUFFICES ASSUME IsInjective(s) PROVE Range(Tail(s)) = Range(s) \ {Head(s)}
    OBVIOUS
  <2>1. \A i \in 2 .. Len(s) : s[i] # s[1]
    BY <1>1 DEF IsInjective
  <2>2. \A i \in 1 .. Len(s) - 1 : i + 1 \in 2 .. Len(s)
    BY <1>1
  <2>3. Range(Tail(s)) \subseteq Range(s) \ {Head(s)}
    BY <1>1, <1>2, <1>3, <2>1, <2>2 DEF Range
  <2>4. \A i \in 2 .. Len(s) : i - 1 \in 1 .. Len(s) - 1 /\ Tail(s)[i - 1] = s[i]
    BY <1>1, <1>2
  <2>5. ASSUME NEW e \in Range(s) \ {Head(s)}
        PROVE  e \in Range(Tail(s))
    <3>1. PICK i \in 1 .. Len(s) : s[i] = e
      BY <1>1 DEF Range
    <3>2. i \in 2 .. Len(s)
      BY <1>1, <1>2, <3>1
    <3> QED
      BY <1>3, <2>4, <3>1, <3>2 DEF Range
  <2> QED
    BY <2>3, <2>5
<1>5. IsInjective(s) => IsInjective(Tail(s))
  <2> SUFFICES ASSUME IsInjective(s), NEW i \in 1 .. Len(s) - 1, NEW j \in 1 .. Len(s) - 1,
                      Tail(s)[i] = Tail(s)[j]
               PROVE  i = j
    BY <1>3 DEF IsInjective
  <2>1. i + 1 \in DOMAIN s /\ j + 1 \in DOMAIN s /\ s[i + 1] = s[j + 1]
    BY <1>1, <1>2
  <2>2. i + 1 = j + 1
    BY <2>1 DEF IsInjective
  <2> QED
    BY <2>2
<1> QED
  BY <1>1, <1>2, <1>3, <1>4, <1>5

\* None is no value of any table.
LEMMA NoneIsNoLink ==
  /\ None \notin Link /\ None \notin Conn /\ None \notin Node
  /\ None \notin Task /\ None \notin Message /\ None \notin Kind
BY StreamsAssumption DEF StreamsAssumption, Place, Task

LEMMA Capacities ==
  /\ Buffer \in Nat \ {0} /\ WriteQueue \in Nat \ {0}
  /\ RxQueue \in Nat \ {0} /\ MultiQueue \in Nat \ {0}
BY StreamsAssumption DEF StreamsAssumption

\* Asking for a mutex and giving it back, in a table of mutexes.
LEMMA AsksFacts ==
  ASSUME NEW X, NEW S, NEW mutex \in [X -> Seq(S)], NEW x \in X, NEW t \in S
  PROVE  /\ [mutex EXCEPT ![x] = Append(@, t)] \in [X -> Seq(S)]
         /\ mutex[x] # <<>> => [mutex EXCEPT ![x] = Tail(@)] \in [X -> Seq(S)]
<1>1. Append(mutex[x], t) \in Seq(S)
  BY AppendFacts
<1>2. mutex[x] # <<>> => Tail(mutex[x]) \in Seq(S)
  BY TailFacts
<1> QED
  BY <1>1, <1>2

\* The two ways of a connection.
LEMMA StreamsOfConn ==
  ASSUME NEW c \in Conn
  PROVE  /\ <<c, "up">> \in Conn \X Way
         /\ <<c, "down">> \in Conn \X Way
         /\ \A t : StreamTo(c, t) \in Conn \X Way
BY DEF Way, StreamTo

\* An accepted connection belongs to a map of the device it was made to.
LEMMA PoolOfConn ==
  ASSUME TypeOK, NEW c \in Conn, conns[c] # None
  PROVE  PoolAt(c) \in Node \X Kind /\ conns[c] \in Link
BY DEF TypeOK, Link, PoolAt

\* A task on its way has a job; one with a connection has a stream.
LEMMA TaskAtWork ==
  ASSUME TypeOK, SendersMatch, NEW t \in Task, op[t].at # "idle"
  PROVE  /\ op[t] \in Sending
         /\ Pool(t) \in Node \X Kind
         /\ op[t].kind \in Kind /\ op[t].home \in Node
         /\ op[t].to \in Place /\ op[t].msg \in Message
         /\ op[t].at \in {"upgrade", "stream", "body", "queue"} =>
              op[t].conn \in Conn /\ conns[op[t].conn] \in Link /\ Stream(t) \in Conn \X Way
<1>1. op[t] \in Sending
  BY DEF TypeOK
<1>2. op[t].kind \in Kind /\ op[t].home \in Node /\ op[t].to \in Place /\ op[t].msg \in Message
  BY DEF SendersMatch, SenderMatches
<1>3. op[t].at \in {"upgrade", "stream", "body", "queue"} =>
        op[t].conn \in Conn /\ conns[op[t].conn] \in Link
  BY DEF SendersMatch, SenderMatches, TypeOK
<1> QED
  BY <1>1, <1>2, <1>3, StreamsOfConn DEF Pool, Stream

-----------------------------------------------------------------------------
(* Types and bounds *)

\* What may happen to where a task is.
LEMMA OpType ==
  ASSUME TypeOK, NEW t \in Task
  PROVE  /\ Done(t) => op' \in [Task -> Sending]
         /\ \A at \in {"idle", "pool", "upgrade", "stream", "body", "queue"} :
              /\ Stays(t, at) => op' \in [Task -> Sending]
              /\ \A c \in Conn :
                   op' = [op EXCEPT ![t].conn = c, ![t].at = at] => op' \in [Task -> Sending]
<1>1. op \in [Task -> Sending]
  BY DEF TypeOK
<1>2. Idle \in Sending
  BY DEF Idle, Sending
<1>3. ASSUME NEW at \in {"idle", "pool", "upgrade", "stream", "body", "queue"}
      PROVE  /\ [op[t] EXCEPT !.at = at] \in Sending
             /\ \A c \in Conn : [[op[t] EXCEPT !.conn = c] EXCEPT !.at = at] \in Sending
  BY <1>1 DEF Sending
<1>4. Done(t) => op' \in [Task -> Sending]
  BY <1>1, <1>2 DEF Done
<1>5. ASSUME NEW at \in {"idle", "pool", "upgrade", "stream", "body", "queue"}, Stays(t, at)
      PROVE  op' \in [Task -> Sending]
  BY <1>1, <1>3, <1>5 DEF Stays
<1>6. ASSUME NEW at \in {"idle", "pool", "upgrade", "stream", "body", "queue"}, NEW c \in Conn,
             op' = [op EXCEPT ![t].conn = c, ![t].at = at]
      PROVE  op' \in [Task -> Sending]
  <2>1. op' = [op EXCEPT ![t] = [[op[t] EXCEPT !.conn = c] EXCEPT !.at = at]]
    BY <1>1, <1>6
  <2> QED
    BY <1>1, <1>3, <2>1
<1> QED
  BY <1>4, <1>5, <1>6

\* A task takes up a job.
LEMMA SendsType ==
  ASSUME TypeOK, NEW t \in Task, NEW job, job.kind \in Kind, job.home \in Node,
         job.to \in Place, job.msg \in Message, Sends(t, job)
  PROVE  /\ op' \in [Task -> Sending]
         /\ holders' \in [Node \X Kind -> Seq(Task \cup Conn)]
<1>1. [at |-> "pool", kind |-> job.kind, home |-> job.home, to |-> job.to,
       msg |-> job.msg, conn |-> None] \in Sending
  BY DEF Sending
<1>2. op' \in [Task -> Sending]
  BY <1>1 DEF Sends, TypeOK
<1>3. holders' = [holders EXCEPT ![<<job.home, job.kind>>] = Append(@, t)]
  BY DEF Sends, Asks
<1> QED
  BY <1>2, <1>3, AsksFacts DEF TypeOK

\* What may happen to the task of a connection.
LEMMA HandlerType ==
  ASSUME TypeOK, NEW c \in Conn,
         NEW at \in {"none", "backlog", "upgrade", "insert", "read", "push", "ended"}
  PROVE  /\ At(c, at) => handler' \in [Conn -> Handler]
         /\ \A m \in Message \cup {None} :
              handler' = [handler EXCEPT ![c] = [at |-> at, msg |-> m]] =>
                handler' \in [Conn -> Handler]
<1>1. handler \in [Conn -> Handler]
  BY DEF TypeOK
<1>2. [handler[c] EXCEPT !.at = at] \in Handler
  BY <1>1 DEF Handler
<1>3. \A m \in Message \cup {None} : [at |-> at, msg |-> m] \in Handler
  BY DEF Handler
<1> QED
  BY <1>1, <1>2, <1>3 DEF At

\* What may happen to a mutex.
LEMMA MutexType ==
  ASSUME TypeOK, NEW t \in Task \cup Conn
  PROVE  /\ \A x \in Node \X Kind :
              /\ Asks(holders, x, t) => holders' \in [Node \X Kind -> Seq(Task \cup Conn)]
              /\ holders[x] # <<>> /\ Gives(holders, x) =>
                   holders' \in [Node \X Kind -> Seq(Task \cup Conn)]
         /\ \A x \in Conn \X Way :
              /\ Asks(writers, x, t) => writers' \in [Conn \X Way -> Seq(Task \cup Conn)]
              /\ writers[x] # <<>> /\ Gives(writers, x) =>
                   writers' \in [Conn \X Way -> Seq(Task \cup Conn)]
<1>1. /\ holders \in [Node \X Kind -> Seq(Task \cup Conn)]
      /\ writers \in [Conn \X Way -> Seq(Task \cup Conn)]
  BY DEF TypeOK
<1>2. ASSUME NEW x \in Node \X Kind
      PROVE  /\ Asks(holders, x, t) => holders' \in [Node \X Kind -> Seq(Task \cup Conn)]
             /\ holders[x] # <<>> /\ Gives(holders, x) =>
                  holders' \in [Node \X Kind -> Seq(Task \cup Conn)]
  <2>1. /\ [holders EXCEPT ![x] = Append(@, t)] \in [Node \X Kind -> Seq(Task \cup Conn)]
        /\ holders[x] # <<>> =>
             [holders EXCEPT ![x] = Tail(@)] \in [Node \X Kind -> Seq(Task \cup Conn)]
    BY <1>1, AsksFacts
  <2> QED
    BY <2>1 DEF Asks, Gives
<1>3. ASSUME NEW x \in Conn \X Way
      PROVE  /\ Asks(writers, x, t) => writers' \in [Conn \X Way -> Seq(Task \cup Conn)]
             /\ writers[x] # <<>> /\ Gives(writers, x) =>
                  writers' \in [Conn \X Way -> Seq(Task \cup Conn)]
  <2>1. /\ [writers EXCEPT ![x] = Append(@, t)] \in [Conn \X Way -> Seq(Task \cup Conn)]
        /\ writers[x] # <<>> =>
             [writers EXCEPT ![x] = Tail(@)] \in [Conn \X Way -> Seq(Task \cup Conn)]
    BY <1>1, AsksFacts
  <2> QED
    BY <2>1 DEF Asks, Gives
<1> QED
  BY <1>2, <1>3

\* Something is written to a connection.
LEMMA WireType ==
  ASSUME TypeOK, NEW x \in Conn \X Way, NEW s \in Seq(Item), Puts(x, s)
  PROVE  /\ wire' \in [Conn \X Way -> Seq(Item)]
         /\ Len(wire'[x]) = Len(wire[x]) + Len(s)
         /\ wire'[x] = wire[x] \o s
         /\ \A y \in Conn \X Way : y # x => wire'[y] = wire[y]
<1>1. wire \in [Conn \X Way -> Seq(Item)]
  BY DEF TypeOK
<1>2. wire[x] \o s \in Seq(Item) /\ Len(wire[x] \o s) = Len(wire[x]) + Len(s)
  BY <1>1, ConcatProperties
<1> QED
  BY <1>1, <1>2 DEF Puts

\* A frame is an item or two.
LEMMA FrameType ==
  ASSUME NEW m \in Message
  PROVE  /\ Header(m) \in Item /\ Body(m) \in Item
         /\ <<Header(m)>> \in Seq(Item) /\ Len(<<Header(m)>>) = 1
         /\ <<Body(m)>> \in Seq(Item) /\ Len(<<Body(m)>>) = 1
         /\ <<Header(m), Body(m)>> \in Seq(Item) /\ Len(<<Header(m), Body(m)>>) = 2
BY DEF Header, Body, Item

\* A frame is read from a wire.
LEMMA ReadFacts ==
  ASSUME NEW S, NEW s \in Seq(S), Len(s) >= 2
  PROVE  /\ SubSeq(s, 3, Len(s)) \in Seq(S)
         /\ Len(SubSeq(s, 3, Len(s))) = Len(s) - 2
         /\ \A i \in 1 .. Len(s) - 2 : SubSeq(s, 3, Len(s))[i] = s[i + 2]
         /\ s[1] \in S /\ s[2] \in S
<1> DEFINE l == Len(s)
           r == SubSeq(s, 3, l)
<1>1. l \in Nat /\ l >= 2 /\ \A i \in 1 .. l : s[i] \in S
  BY LenProperties, ElementOfSeq
<1>2. /\ r \in Seq(S)
      /\ Len(r) = IF 3 <= l THEN l - 3 + 1 ELSE 0
      /\ \A i \in 1 .. l - 3 + 1 : r[i] = s[3 + i - 1]
  <2>1. \A i \in 3 .. l : s[i] \in S
    BY <1>1
  <2> HIDE DEF l
  <2> QED
    BY <1>1, <2>1, SubSeqProperties
<1> HIDE DEF l, r
<1>3. Len(r) = l - 2
  BY <1>1, <1>2
<1>4. ASSUME NEW i \in 1 .. l - 2
      PROVE  r[i] = s[i + 2]
  <2>1. i \in 1 .. l - 3 + 1 /\ 3 + i - 1 = i + 2
    BY <1>1
  <2> QED
    BY <1>2, <2>1
<1>5. s[1] \in S /\ s[2] \in S
  BY <1>1
<1> QED
  BY <1>2, <1>3, <1>4, <1>5 DEF l, r

\* A writer that starts finds its queue as it is.
LEMMA OpensKeeps ==
  ASSUME TypeOK, NEW y, NEW b, queue' = [queue EXCEPT ![y].open = b]
  PROVE  \A x \in Conn \X Way : queue'[x].q = queue[x].q
<1> SUFFICES ASSUME NEW x \in Conn \X Way PROVE queue'[x].q = queue[x].q
  OBVIOUS
<1>1. /\ queue \in [Conn \X Way -> [open : BOOLEAN, q : Seq(Message)]]
      /\ queue[x] \in [open : BOOLEAN, q : Seq(Message)]
  BY DEF TypeOK
<1>2. CASE x = y
  <2>1. queue'[x] = [queue[x] EXCEPT !.open = b]
    BY <1>1, <1>2
  <2> QED
    BY <1>1, <2>1
<1>3. CASE x # y
  BY <1>1, <1>3
<1> QED
  BY <1>2, <1>3

\* Every action keeps the tables well typed.
LEMMA StepType ==
  ASSUME TypeOK, SendersMatch, HandlersMatch, LettersMatch, LocksMatch,
         [Next]_vars
  PROVE  TypeOK'
<1>1. ASSUME NEW t \in Sender, Begin(t)
      PROVE  TypeOK'
  <2>1. todo[t] \in Seq(Job) /\ todo[t] # <<>> /\ t \in Task
    BY <1>1 DEF Begin, TypeOK, Task
  <2>2. Head(todo[t]) \in Job /\ Tail(todo[t]) \in Seq(Job)
    BY <2>1, TailFacts
  <2>3. /\ op' \in [Task -> Sending]
        /\ holders' \in [Node \X Kind -> Seq(Task \cup Conn)]
    BY <1>1, <2>1, <2>2, SendsType DEF Begin, Job, Place
  <2> QED
    BY <1>1, <2>2, <2>3 DEF Begin, TypeOK
<1>2. ASSUME NEW t \in Task, Found(t)
      PROVE  TypeOK'
  <2>1. /\ op[t].at # "idle" /\ Pool(t) \in Node \X Kind /\ op[t].to \in Place
        /\ holders[Pool(t)] # <<>>
    BY <1>2, TaskAtWork DEF Found, Has
  <2>2. Known(t) \in Conn
    BY <1>2, <2>1 DEF Found, Usable, Known, TypeOK
  <2>3. StreamTo(Known(t), t) \in Conn \X Way
    BY <2>2, StreamsOfConn
  <2>4. holders' \in [Node \X Kind -> Seq(Task \cup Conn)]
    BY <1>2, <2>1, MutexType DEF Found
  <2>5. writers' \in [Conn \X Way -> Seq(Task \cup Conn)]
    BY <1>2, <2>3, MutexType DEF Found, TypeOK
  <2>6. op' \in [Task -> Sending]
    BY <1>2, <2>2, OpType DEF Found
  <2> QED
    BY <1>2, <2>4, <2>5, <2>6 DEF Found, TypeOK
<1>3. ASSUME NEW t \in Task, Upgraded(t)
      PROVE  TypeOK'
  <2>1. /\ op[t].at # "idle" /\ Pool(t) \in Node \X Kind /\ op[t].to \in Place
        /\ op[t].conn \in Conn
    BY <1>3, TaskAtWork DEF Upgraded
  <2>2. holders[Pool(t)] # <<>>
    BY <1>3 DEF Upgraded, LocksMatch, Has
  <2>3. holders' \in [Node \X Kind -> Seq(Task \cup Conn)]
    BY <1>3, <2>1, <2>2, MutexType DEF Upgraded
  <2>4. op' \in [Task -> Sending]
    BY <1>3, OpType DEF Upgraded
  <2>5. pool' \in [Node \X Kind -> [Place -> Conn \cup {None}]]
    BY <1>3, <2>1 DEF Upgraded, TypeOK
  <2>6. queue' \in [Conn \X Way -> [open : BOOLEAN, q : Seq(Message)]]
    BY <1>3, <2>1, StreamsOfConn DEF Upgraded, TypeOK
  <2> QED
    BY <1>3, <2>3, <2>4, <2>5, <2>6 DEF Upgraded, TypeOK
<1>4. ASSUME NEW t \in Task, NotUpgraded(t)
      PROVE  TypeOK'
  <2>1. op[t].at # "idle" /\ Pool(t) \in Node \X Kind
    BY <1>4, TaskAtWork DEF NotUpgraded
  <2>2. holders[Pool(t)] # <<>>
    BY <1>4 DEF NotUpgraded, LocksMatch, Has
  <2>3. holders' \in [Node \X Kind -> Seq(Task \cup Conn)]
    BY <1>4, <2>1, <2>2, MutexType DEF NotUpgraded
  <2>4. op' \in [Task -> Sending]
    BY <1>4, OpType DEF NotUpgraded
  <2> QED
    BY <1>4, <2>3, <2>4 DEF NotUpgraded, TypeOK
<1>5. ASSUME NEW t \in Task, WriteHeader(t)
      PROVE  TypeOK'
  <2>1. op[t].msg \in Message /\ Stream(t) \in Conn \X Way
    BY <1>5, TaskAtWork DEF WriteHeader
  <2>2. wire' \in [Conn \X Way -> Seq(Item)]
    BY <1>5, <2>1, FrameType, WireType DEF WriteHeader
  <2>3. op' \in [Task -> Sending]
    BY <1>5, OpType DEF WriteHeader
  <2> QED
    BY <1>5, <2>2, <2>3 DEF WriteHeader, TypeOK
<1>6. ASSUME NEW t \in Task, WriteBody(t)
      PROVE  TypeOK'
  <2>1. op[t].msg \in Message /\ Stream(t) \in Conn \X Way
    BY <1>6, TaskAtWork DEF WriteBody
  <2>2. wire' \in [Conn \X Way -> Seq(Item)]
    BY <1>6, <2>1, FrameType, WireType DEF WriteBody
  <2>3. op' \in [Task -> Sending]
    BY <1>6, OpType DEF WriteBody
  <2>4. writers[Stream(t)] # <<>>
    BY <1>6 DEF WriteBody, LocksMatch, Has
  <2>5. writers' \in [Conn \X Way -> Seq(Task \cup Conn)]
    BY <1>6, <2>1, <2>4, MutexType DEF WriteBody
  <2> QED
    BY <1>6, <2>2, <2>3, <2>5 DEF WriteBody, TypeOK
<1>7. ASSUME NEW t \in Task, WriteVanishes(t)
      PROVE  TypeOK'
  <2>1. Stream(t) \in Conn \X Way
    BY <1>7, TaskAtWork DEF WriteVanishes
  <2>2. op' \in [Task -> Sending]
    BY <1>7, OpType DEF WriteVanishes
  <2>3. writers' \in [Conn \X Way -> Seq(Task \cup Conn)]
    BY <1>7, <2>1, MutexType DEF WriteVanishes, Has
  <2> QED
    BY <1>7, <2>2, <2>3 DEF WriteVanishes, TypeOK
<1>8. ASSUME NEW t \in Task, Enqueue(t)
      PROVE  TypeOK'
  <2>1. op[t].msg \in Message /\ Stream(t) \in Conn \X Way
    BY <1>8, TaskAtWork DEF Enqueue
  <2>2. op' \in [Task -> Sending]
    BY <1>8, OpType DEF Enqueue
  <2>3. queue[Stream(t)] \in [open : BOOLEAN, q : Seq(Message)]
    BY <2>1 DEF TypeOK
  <2>4. [queue[Stream(t)] EXCEPT !.q = Append(@, op[t].msg)] \in [open : BOOLEAN, q : Seq(Message)]
    BY <2>1, <2>3, AppendFacts
  <2>5. queue' \in [Conn \X Way -> [open : BOOLEAN, q : Seq(Message)]]
    BY <1>8, <2>1, <2>4 DEF Enqueue, TypeOK
  <2> QED
    BY <1>8, <2>2, <2>5 DEF Enqueue, TypeOK
<1>9. ASSUME NEW t \in Task, EnqueueFails(t)
      PROVE  TypeOK'
  BY <1>9, OpType DEF EnqueueFails, TypeOK
<1>10. ASSUME NEW t \in Task, NEW c \in Conn, Connect(t, c)
       PROVE  TypeOK'
  <2>1. /\ op[t].at # "idle" /\ Pool(t) \in Node \X Kind /\ op[t].to \in Place
        /\ op[t].kind \in Kind /\ op[t].home \in Node
    BY <1>10, TaskAtWork DEF Connect, Dials
  <2>2. holders[Pool(t)] # <<>>
    BY <1>10 DEF Connect, Dials, Has
  <2>3. conns' \in [Conn -> Link \cup {None}]
    <3>1. op[t].to \in Node
      BY <1>10 DEF Connect, Dials
    <3>2. [kind |-> op[t].kind, from |-> op[t].home, to |-> op[t].to, whole |-> TRUE] \in Link
      BY <2>1, <3>1 DEF Link
    <3> QED
      BY <1>10, <3>2 DEF Connect, Dials, TypeOK
  <2>4. handler' \in [Conn -> Handler]
    <3>1. handler' = [handler EXCEPT ![c].at = IF op[t].kind = "tcp" THEN "backlog" ELSE "upgrade"]
      BY <1>10 DEF Connect, Dials
    <3>2. At(c, "backlog") \/ At(c, "upgrade")
      BY <3>1 DEF At
    <3> QED
      BY <3>2, HandlerType
  <2>5. writers' \in [Conn \X Way -> Seq(Task \cup Conn)]
    BY <1>10, StreamsOfConn, MutexType DEF Connect
  <2>6. holders' \in [Node \X Kind -> Seq(Task \cup Conn)]
    BY <1>10, <2>1, <2>2, MutexType DEF Connect
  <2>7. op' \in [Task -> Sending]
    BY <1>10, OpType DEF Connect
  <2>8. pool' \in [Node \X Kind -> [Place -> Conn \cup {None}]]
    BY <1>10, <2>1 DEF Connect, TypeOK
  <2> QED
    BY <1>10, <2>3, <2>4, <2>5, <2>6, <2>7, <2>8 DEF Connect, Dials, TypeOK
<1>11. ASSUME NEW t \in Task, NEW c \in Conn, ConnectWs(t, c)
       PROVE  TypeOK'
  <2>1. /\ op[t].at # "idle" /\ Pool(t) \in Node \X Kind /\ op[t].to \in Place
        /\ op[t].kind \in Kind /\ op[t].home \in Node
    BY <1>11, TaskAtWork DEF ConnectWs, Dials
  <2>2. holders[Pool(t)] # <<>>
    BY <1>11 DEF ConnectWs, Dials, Has
  <2>3. conns' \in [Conn -> Link \cup {None}]
    <3>1. op[t].to \in Node
      BY <1>11 DEF ConnectWs, Dials
    <3>2. [kind |-> op[t].kind, from |-> op[t].home, to |-> op[t].to, whole |-> TRUE] \in Link
      BY <2>1, <3>1 DEF Link
    <3> QED
      BY <1>11, <3>2 DEF ConnectWs, Dials, TypeOK
  <2>4. handler' \in [Conn -> Handler]
    <3>1. handler' = [handler EXCEPT ![c].at = IF op[t].kind = "tcp" THEN "backlog" ELSE "upgrade"]
      BY <1>11 DEF ConnectWs, Dials
    <3>2. At(c, "backlog") \/ At(c, "upgrade")
      BY <3>1 DEF At
    <3> QED
      BY <3>2, HandlerType
  <2>5. op' \in [Task -> Sending]
    BY <1>11, OpType DEF ConnectWs
  <2> QED
    BY <1>11, <2>3, <2>4, <2>5 DEF ConnectWs, Dials, TypeOK
<1>12. ASSUME NEW t \in Task, NotConnected(t)
       PROVE  TypeOK'
  <2>1. op[t].at # "idle" /\ Pool(t) \in Node \X Kind
    BY <1>12, TaskAtWork DEF NotConnected
  <2>2. holders[Pool(t)] # <<>>
    BY <1>12 DEF NotConnected, Has
  <2>3. holders' \in [Node \X Kind -> Seq(Task \cup Conn)]
    BY <1>12, <2>1, <2>2, MutexType DEF NotConnected
  <2>4. op' \in [Task -> Sending]
    BY <1>12, OpType DEF NotConnected
  <2>5. fails' \in 0 .. MaxFail
    BY <1>12, StreamsAssumption DEF NotConnected, TypeOK, StreamsAssumption
  <2> QED
    BY <1>12, <2>3, <2>4, <2>5 DEF NotConnected, TypeOK
<1>13. ASSUME NEW c \in Conn, Accept(c)
       PROVE  TypeOK'
  <2>1. PoolAt(c) \in Node \X Kind
    BY <1>13, PoolOfConn DEF Accept, HandlersMatch
  <2>2. holders' \in [Node \X Kind -> Seq(Task \cup Conn)]
    BY <1>13, <2>1, MutexType DEF Accept
  <2>3. handler' \in [Conn -> Handler]
    BY <1>13, HandlerType DEF Accept
  <2> QED
    BY <1>13, <2>2, <2>3 DEF Accept, TypeOK
<1>14. ASSUME NEW c \in Conn, Upgrade(c)
       PROVE  TypeOK'
  <2>1. PoolAt(c) \in Node \X Kind
    BY <1>14, PoolOfConn DEF Upgrade, HandlersMatch
  <2>2. holders' \in [Node \X Kind -> Seq(Task \cup Conn)]
    BY <1>14, <2>1, MutexType DEF Upgrade
  <2>3. handler' \in [Conn -> Handler]
    BY <1>14, HandlerType DEF Upgrade
  <2> QED
    BY <1>14, <2>2, <2>3 DEF Upgrade, TypeOK
<1>15. ASSUME NEW c \in Conn, UpgradeFails(c)
       PROVE  TypeOK'
  <2>1. handler' \in [Conn -> Handler]
    BY <1>15, HandlerType DEF UpgradeFails
  <2> QED
    BY <1>15, <2>1 DEF UpgradeFails, TypeOK
<1>16. ASSUME NEW c \in Conn, Insert(c)
       PROVE  TypeOK'
  <2>1. PoolAt(c) \in Node \X Kind
    BY <1>16, PoolOfConn DEF Insert, HandlersMatch
  <2>2. holders' \in [Node \X Kind -> Seq(Task \cup Conn)]
    BY <1>16, <2>1, MutexType DEF Insert, Has
  <2>3. handler' \in [Conn -> Handler]
    BY <1>16, HandlerType DEF Insert, Awaits
  <2>4. writers' \in [Conn \X Way -> Seq(Task \cup Conn)]
    BY <1>16, StreamsOfConn, MutexType DEF Insert, Awaits, TypeOK
  <2>5. pool' \in [Node \X Kind -> [Place -> Conn \cup {None}]]
    BY <1>16, <2>1 DEF Insert, TypeOK, Place
  <2>6. [queue[<<c, "down">>] EXCEPT !.open = (conns[c].kind = "ws")]
          \in [open : BOOLEAN, q : Seq(Message)]
    <3>1. queue[<<c, "down">>] \in [open : BOOLEAN, q : Seq(Message)]
      BY StreamsOfConn DEF TypeOK
    <3>2. (conns[c].kind = "ws") \in BOOLEAN
      OBVIOUS
    <3> QED
      BY <3>1, <3>2
  <2>7. queue' \in [Conn \X Way -> [open : BOOLEAN, q : Seq(Message)]]
    BY <1>16, <2>6, StreamsOfConn DEF Insert, TypeOK
  <2> QED
    BY <1>16, <2>2, <2>3, <2>4, <2>5, <2>7 DEF Insert, TypeOK
<1>17. ASSUME NEW c \in Conn, Read(c)
       PROVE  TypeOK'
  <2>1. <<c, "up">> \in Conn \X Way /\ wire[<<c, "up">>] \in Seq(Item)
    BY StreamsOfConn DEF TypeOK
  <2>2. Len(wire[<<c, "up">>]) >= 2
    BY <1>17 DEF Read, Framed
  <2> DEFINE s == wire[<<c, "up">>]
  <2> HIDE DEF s
  <2>3. SubSeq(s, 3, Len(s)) \in Seq(Item) /\ s[1] \in Item
    BY <2>1, <2>2, ReadFacts DEF s
  <2>4. s[1].msg \in Message
    BY <2>3 DEF Item
  <2>5. wire' \in [Conn \X Way -> Seq(Item)]
    BY <1>17, <2>1, <2>3 DEF Read, TypeOK, s
  <2>6. handler' \in [Conn -> Handler]
    BY <1>17, <2>4, HandlerType DEF Read, s
  <2>7. writers' \in [Conn \X Way -> Seq(Task \cup Conn)]
    BY <1>17, StreamsOfConn, MutexType DEF Read, Reads, Releases, Has, TypeOK
  <2> QED
    BY <1>17, <2>5, <2>6, <2>7 DEF Read, TypeOK
<1>18. ASSUME NEW c \in Conn, ReadFails(c)
       PROVE  TypeOK'
  <2>1. handler' \in [Conn -> Handler]
    BY <1>18, HandlerType DEF ReadFails
  <2>2. writers' \in [Conn \X Way -> Seq(Task \cup Conn)]
    BY <1>18, StreamsOfConn, MutexType DEF ReadFails, Reads, Releases, Has, TypeOK
  <2> QED
    BY <1>18, <2>1, <2>2 DEF ReadFails, TypeOK
<1>19. ASSUME NEW c \in Conn, Push(c)
       PROVE  TypeOK'
  <2>1. /\ PoolAt(c) \in Node \X Kind
        /\ [msg |-> handler[c].msg, from |-> c] \in Letter
    BY <1>19, PoolOfConn DEF Push, HandlersMatch, Letter
  <2>2. Append(rx[PoolAt(c)], [msg |-> handler[c].msg, from |-> c]) \in Seq(Letter)
    BY <2>1, AppendFacts DEF TypeOK
  <2>3. rx' \in [Node \X Kind -> Seq(Letter)]
    BY <1>19, <2>1, <2>2 DEF Push, TypeOK
  <2>4. handler' \in [Conn -> Handler]
    BY <1>19, HandlerType DEF Push
  <2>5. writers' \in [Conn \X Way -> Seq(Task \cup Conn)]
    BY <1>19, StreamsOfConn, MutexType DEF Push, TypeOK
  <2> QED
    BY <1>19, <2>3, <2>4, <2>5 DEF Push, TypeOK
<1>20. ASSUME NEW c \in Conn, NEW w \in Way, Writer(<<c, w>>)
       PROVE  TypeOK'
  <2> DEFINE x == <<c, w>>
  <2>1. x \in Conn \X Way /\ queue[x] \in [open : BOOLEAN, q : Seq(Message)]
    BY DEF TypeOK
  <2>2. queue[x].q \in Seq(Message) /\ queue[x].q # <<>>
    BY <1>20, <2>1 DEF Writer
  <2>3. Head(queue[x].q) \in Message /\ Tail(queue[x].q) \in Seq(Message)
    BY <2>2, TailFacts
  <2>4. wire' \in [Conn \X Way -> Seq(Item)]
    BY <1>20, <2>1, <2>3, FrameType, WireType DEF Writer
  <2>5. [queue[x] EXCEPT !.q = Tail(@)] \in [open : BOOLEAN, q : Seq(Message)]
    BY <2>1, <2>3
  <2>6. queue' \in [Conn \X Way -> [open : BOOLEAN, q : Seq(Message)]]
    BY <1>20, <2>1, <2>5 DEF Writer, TypeOK
  <2> QED
    BY <1>20, <2>4, <2>6 DEF Writer, TypeOK
<1>21. ASSUME NEW c \in Conn, NEW w \in Way, WriterEnds(<<c, w>>)
       PROVE  TypeOK'
  <2>1. [open |-> FALSE, q |-> <<>>] \in [open : BOOLEAN, q : Seq(Message)]
    BY EmptySeq
  <2>2. queue' \in [Conn \X Way -> [open : BOOLEAN, q : Seq(Message)]]
    BY <1>21, <2>1 DEF WriterEnds, TypeOK
  <2> QED
    BY <1>21, <2>2 DEF WriterEnds, TypeOK
<1>22. ASSUME NEW n \in Node, Receive(n)
       PROVE  TypeOK'
  <2>1. multi[n] \in Seq(Letter) /\ multi[n] # <<>> /\ n \in Task
    BY <1>22 DEF Receive, TypeOK, Task
  <2>2. /\ Head(multi[n]) \in Letter /\ Tail(multi[n]) \in Seq(Letter)
        /\ Head(multi[n]) = multi[n][1] /\ 1 \in DOMAIN multi[n]
    BY <2>1, TailFacts, LenProperties
  <2>3. conns[Head(multi[n]).from] \in Link
    BY <2>2 DEF LettersMatch, TypeOK, Letter
  <2>4. Answer(Head(multi[n]).msg) \in Message
    BY <2>2 DEF Letter, Message, Answer
  <2>5. /\ op' \in [Task -> Sending]
        /\ holders' \in [Node \X Kind -> Seq(Task \cup Conn)]
    BY <1>22, <2>1, <2>2, <2>3, <2>4, SendsType DEF Receive, Letter, Link, Place, TypeOK
  <2> QED
    BY <1>22, <2>2, <2>5 DEF Receive, TypeOK
<1>23. ASSUME NEW n \in Node, NEW k \in Kind, Forward(n, k)
       PROVE  TypeOK'
  <2>1. <<n, k>> \in Node \X Kind /\ rx[<<n, k>>] \in Seq(Letter) /\ rx[<<n, k>>] # <<>>
    BY <1>23 DEF Forward, TypeOK
  <2>2. Head(rx[<<n, k>>]) \in Letter /\ Tail(rx[<<n, k>>]) \in Seq(Letter)
    BY <2>1, TailFacts
  <2>3. Append(multi[n], Head(rx[<<n, k>>])) \in Seq(Letter)
    BY <2>2, AppendFacts DEF TypeOK
  <2> QED
    BY <1>23, <2>1, <2>2, <2>3 DEF Forward, TypeOK
<1>24. ASSUME NEW c \in Conn, Fail(c)
       PROVE  TypeOK'
  <2>1. conns[c] \in Link
    BY <1>24 DEF Fail, TypeOK
  <2>2. [conns[c] EXCEPT !.whole = FALSE] \in Link
    BY <2>1 DEF Link
  <2>3. conns' \in [Conn -> Link \cup {None}]
    BY <1>24, <2>2 DEF Fail, TypeOK
  <2>4. fails' \in 0 .. MaxFail
    BY <1>24, StreamsAssumption DEF Fail, TypeOK, StreamsAssumption
  <2> QED
    BY <1>24, <2>3, <2>4 DEF Fail, TypeOK
<1>25. CASE UNCHANGED vars
  BY <1>25 DEF vars, TypeOK
<1> QED
  BY <1>1, <1>2, <1>3, <1>4, <1>5, <1>6, <1>7, <1>8, <1>9, <1>10, <1>11, <1>12,
     <1>13, <1>14, <1>15, <1>16, <1>17, <1>18, <1>19, <1>20, <1>21, <1>22,
     <1>23, <1>24, <1>25
     DEF Next, Step, SendStep, ConnStep

-----------------------------------------------------------------------------
(* Connections and those who use them *)

\* A connection stays what it is; it can only fail.
LEMMA LinksStay ==
  ASSUME TypeOK, [Next]_vars
  PROVE  \A c \in Conn :
           conns[c] # None =>
             /\ conns'[c] # None
             /\ conns'[c].kind = conns[c].kind
             /\ conns'[c].from = conns[c].from
             /\ conns'[c].to = conns[c].to
             /\ conns'[c].whole => conns[c].whole
<1>1. CASE UNCHANGED conns
  BY <1>1
<1>2. ASSUME NEW t \in Task, NEW c \in Conn, Dials(t, c)
      PROVE  \A d \in Conn : conns[d] # None => conns'[d] = conns[d]
  BY <1>2 DEF Dials, TypeOK
<1>3. ASSUME NEW c \in Conn, Fail(c)
      PROVE  \A d \in Conn :
               conns[d] # None =>
                 /\ conns'[d] # None
                 /\ conns'[d].kind = conns[d].kind
                 /\ conns'[d].from = conns[d].from
                 /\ conns'[d].to = conns[d].to
                 /\ conns'[d].whole => conns[d].whole
  <2>1. conns[c] \in Link /\ conns' = [conns EXCEPT ![c].whole = FALSE]
    BY <1>3 DEF Fail, TypeOK
  <2>2. [conns[c] EXCEPT !.whole = FALSE] \in Link
    BY <2>1 DEF Link
  <2>3. /\ conns'[c] = [conns[c] EXCEPT !.whole = FALSE]
        /\ \A d \in Conn : d # c => conns'[d] = conns[d]
    BY <2>1 DEF TypeOK
  <2>4. /\ conns'[c].kind = conns[c].kind
        /\ conns'[c].from = conns[c].from
        /\ conns'[c].to = conns[c].to
        /\ ~conns'[c].whole
    BY <2>1, <2>3 DEF Link
  <2> QED
    BY <2>2, <2>3, <2>4, NoneIsNoLink
<1>4. ASSUME NEW t \in Task, SendStep(t) \/ NotConnected(t)
      PROVE  UNCHANGED conns \/ \E c \in Conn : Dials(t, c)
  BY <1>4 DEF SendStep, Found, Upgraded, NotUpgraded, WriteHeader, WriteBody, WriteVanishes,
              Enqueue, EnqueueFails, Connect, ConnectWs, NotConnected
<1>5. ASSUME NEW c \in Conn, ConnStep(c)
      PROVE  UNCHANGED conns
  BY <1>5 DEF ConnStep, Accept, Upgrade, UpgradeFails, Insert, Read, ReadFails, Push,
              Writer, WriterEnds
<1>6. ASSUME NEW t \in Sender, Begin(t)
      PROVE  UNCHANGED conns
  BY <1>6 DEF Begin
<1>7. ASSUME NEW n \in Node, Receive(n) \/ \E k \in Kind : Forward(n, k)
      PROVE  UNCHANGED conns
  BY <1>7 DEF Receive, Forward
<1>8. CASE UNCHANGED vars
  BY <1>8 DEF vars
<1> QED
  BY <1>1, <1>2, <1>3, <1>4, <1>5, <1>6, <1>7, <1>8 DEF Next, Step

\* Who dials and who accepts; who queues messages; who puts them on the wire and
\* takes them off; whose messages have arrived; who enters connections into a map.
LEMMA WhoChangesHandlers ==
  ASSUME [Next]_vars
  PROVE  \/ UNCHANGED <<conns, handler>>
         \/ \E t \in Task, c \in Conn : Connect(t, c) \/ ConnectWs(t, c)
         \/ \E c \in Conn : \/ Accept(c) \/ Upgrade(c) \/ UpgradeFails(c) \/ Insert(c)
                             \/ Read(c) \/ ReadFails(c) \/ Push(c) \/ Fail(c)
<1>1. ASSUME NEW t \in Task, SendStep(t) \/ NotConnected(t)
      PROVE  UNCHANGED <<conns, handler>> \/ \E c \in Conn : Connect(t, c) \/ ConnectWs(t, c)
  BY <1>1 DEF SendStep, Found, Upgraded, NotUpgraded, WriteHeader, WriteBody, WriteVanishes,
              Enqueue, EnqueueFails, NotConnected
<1>2. ASSUME NEW c \in Conn, NEW w \in Way, Writer(<<c, w>>) \/ WriterEnds(<<c, w>>)
      PROVE  UNCHANGED <<conns, handler>>
  BY <1>2 DEF Writer, WriterEnds
<1>3. ASSUME NEW t \in Sender, Begin(t)
      PROVE  UNCHANGED <<conns, handler>>
  BY <1>3 DEF Begin
<1>4. ASSUME NEW n \in Node, Receive(n) \/ \E k \in Kind : Forward(n, k)
      PROVE  UNCHANGED <<conns, handler>>
  BY <1>4 DEF Receive, Forward
<1>5. CASE UNCHANGED vars
  BY <1>5 DEF vars
<1> QED
  BY <1>1, <1>2, <1>3, <1>4, <1>5 DEF Next, Step, ConnStep

LEMMA WhoChangesQueues ==
  ASSUME [Next]_vars
  PROVE  \/ UNCHANGED queue
         \/ \E t \in Task : Upgraded(t) \/ Enqueue(t)
         \/ \E c \in Conn : Insert(c) \/ \E w \in Way : Writer(<<c, w>>) \/ WriterEnds(<<c, w>>)
<1>1. ASSUME NEW t \in Task, SendStep(t) \/ NotConnected(t)
      PROVE  UNCHANGED queue \/ Upgraded(t) \/ Enqueue(t)
  BY <1>1 DEF SendStep, Found, NotUpgraded, WriteHeader, WriteBody, WriteVanishes,
              EnqueueFails, Connect, ConnectWs, NotConnected
<1>2. ASSUME NEW c \in Conn, ConnStep(c)
      PROVE  \/ UNCHANGED queue \/ Insert(c)
             \/ \E w \in Way : Writer(<<c, w>>) \/ WriterEnds(<<c, w>>)
  BY <1>2 DEF ConnStep, Accept, Upgrade, UpgradeFails, Read, ReadFails, Push
<1>3. ASSUME NEW t \in Sender, Begin(t)
      PROVE  UNCHANGED queue
  BY <1>3 DEF Begin
<1>4. ASSUME NEW n \in Node, Receive(n) \/ \E k \in Kind : Forward(n, k)
      PROVE  UNCHANGED queue
  BY <1>4 DEF Receive, Forward
<1>5. ASSUME NEW c \in Conn, Fail(c)
      PROVE  UNCHANGED queue
  BY <1>5 DEF Fail
<1>6. CASE UNCHANGED vars
  BY <1>6 DEF vars
<1> QED
  BY <1>1, <1>2, <1>3, <1>4, <1>5, <1>6 DEF Next, Step

LEMMA WhoChangesWires ==
  ASSUME [Next]_vars
  PROVE  \/ UNCHANGED <<wire, rx, multi>>
         \/ \E t \in Task : WriteHeader(t) \/ WriteBody(t)
         \/ \E c \in Conn : Read(c) \/ Push(c) \/ \E w \in Way : Writer(<<c, w>>)
         \/ \E n \in Node : Receive(n) \/ \E k \in Kind : Forward(n, k)
<1>1. ASSUME NEW t \in Task, SendStep(t) \/ NotConnected(t)
      PROVE  UNCHANGED <<wire, rx, multi>> \/ WriteHeader(t) \/ WriteBody(t)
  BY <1>1 DEF SendStep, Found, Upgraded, NotUpgraded, WriteVanishes, Enqueue, EnqueueFails,
              Connect, ConnectWs, Dials, NotConnected
<1>2. ASSUME NEW c \in Conn, ConnStep(c)
      PROVE  \/ UNCHANGED <<wire, rx, multi>> \/ Read(c) \/ Push(c)
             \/ \E w \in Way : Writer(<<c, w>>)
  BY <1>2 DEF ConnStep, Accept, Upgrade, UpgradeFails, Insert, ReadFails, WriterEnds
<1>3. ASSUME NEW t \in Sender, Begin(t)
      PROVE  UNCHANGED <<wire, rx, multi>>
  BY <1>3 DEF Begin
<1>4. ASSUME NEW c \in Conn, Fail(c)
      PROVE  UNCHANGED <<wire, rx, multi>>
  BY <1>4 DEF Fail
<1>5. CASE UNCHANGED vars
  BY <1>5 DEF vars
<1> QED
  BY <1>1, <1>2, <1>3, <1>4, <1>5 DEF Next, Step

LEMMA WhoChangesLetters ==
  ASSUME [Next]_vars
  PROVE  \/ UNCHANGED <<rx, multi>>
         \/ \E c \in Conn : Push(c)
         \/ \E n \in Node : Receive(n) \/ \E k \in Kind : Forward(n, k)
<1>1. ASSUME NEW t \in Task, WriteHeader(t) \/ WriteBody(t)
      PROVE  UNCHANGED <<rx, multi>>
  BY <1>1 DEF WriteHeader, WriteBody
<1>2. ASSUME NEW c \in Conn, Read(c) \/ \E w \in Way : Writer(<<c, w>>)
      PROVE  UNCHANGED <<rx, multi>>
  BY <1>2 DEF Read, Writer
<1> QED
  BY <1>1, <1>2, WhoChangesWires

LEMMA WhoChangesPools ==
  ASSUME [Next]_vars
  PROVE  \/ UNCHANGED pool
         \/ \E t \in Task : Upgraded(t) \/ \E c \in Conn : Connect(t, c)
         \/ \E c \in Conn : Insert(c)
<1>1. ASSUME NEW t \in Task, SendStep(t) \/ NotConnected(t)
      PROVE  UNCHANGED pool \/ Upgraded(t) \/ \E c \in Conn : Connect(t, c)
  BY <1>1 DEF SendStep, Found, NotUpgraded, WriteHeader, WriteBody, WriteVanishes, Enqueue,
              EnqueueFails, ConnectWs, Dials, NotConnected
<1>2. ASSUME NEW c \in Conn, ConnStep(c)
      PROVE  UNCHANGED pool \/ Insert(c)
  BY <1>2 DEF ConnStep, Accept, Upgrade, UpgradeFails, Read, ReadFails, Push, Writer, WriterEnds
<1>3. ASSUME NEW t \in Sender, Begin(t)
      PROVE  UNCHANGED pool
  BY <1>3 DEF Begin
<1>4. ASSUME NEW n \in Node, Receive(n) \/ \E k \in Kind : Forward(n, k)
      PROVE  UNCHANGED pool
  BY <1>4 DEF Receive, Forward
<1>5. ASSUME NEW c \in Conn, Fail(c)
      PROVE  UNCHANGED pool
  BY <1>5 DEF Fail
<1>6. CASE UNCHANGED vars
  BY <1>6 DEF vars
<1> QED
  BY <1>1, <1>2, <1>3, <1>4, <1>5, <1>6 DEF Next, Step

\* Nothing overflows.
LEMMA StepBounds ==
  ASSUME TypeOK, InBounds, SendersMatch, HandlersMatch,
         [Next]_vars
  PROVE  InBounds'
<1>1. ASSUME NEW t \in Task, Upgraded(t)
      PROVE  InBounds'
  <2>1. \A x \in Conn \X Way : queue'[x].q = queue[x].q
    BY <1>1, OpensKeeps DEF Upgraded
  <2> QED
    BY <1>1, <2>1 DEF Upgraded, InBounds
<1>2. ASSUME NEW t \in Task, WriteHeader(t)
      PROVE  InBounds'
  <2>1. op[t].msg \in Message /\ Stream(t) \in Conn \X Way
    BY <1>2, TaskAtWork DEF WriteHeader
  <2>2. Puts(Stream(t), <<Header(op[t].msg)>>)
    BY <1>2 DEF WriteHeader
  <2>3. <<Header(op[t].msg)>> \in Seq(Item) /\ Len(<<Header(op[t].msg)>>) = 1
    BY <2>1, FrameType
  <2>4. /\ Len(wire'[Stream(t)]) = Len(wire[Stream(t)]) + 1
        /\ \A x \in Conn \X Way : x # Stream(t) => wire'[x] = wire[x]
    BY <2>1, <2>2, <2>3, WireType
  <2> QED
    BY <1>2, <2>1, <2>4 DEF WriteHeader, InBounds, Fits
<1>3. ASSUME NEW t \in Task, WriteBody(t)
      PROVE  InBounds'
  <2>1. op[t].msg \in Message /\ Stream(t) \in Conn \X Way
    BY <1>3, TaskAtWork DEF WriteBody
  <2>2. Puts(Stream(t), <<Body(op[t].msg)>>)
    BY <1>3 DEF WriteBody
  <2>3. <<Body(op[t].msg)>> \in Seq(Item) /\ Len(<<Body(op[t].msg)>>) = 1
    BY <2>1, FrameType
  <2>4. /\ Len(wire'[Stream(t)]) = Len(wire[Stream(t)]) + 1
        /\ \A x \in Conn \X Way : x # Stream(t) => wire'[x] = wire[x]
    BY <2>1, <2>2, <2>3, WireType
  <2> QED
    BY <1>3, <2>1, <2>4 DEF WriteBody, InBounds, Fits
<1>4. ASSUME NEW t \in Task, Enqueue(t)
      PROVE  InBounds'
  <2>1. op[t].msg \in Message /\ Stream(t) \in Conn \X Way
    BY <1>4, TaskAtWork DEF Enqueue
  <2>2. /\ queue'[Stream(t)].q = Append(queue[Stream(t)].q, op[t].msg)
        /\ \A x \in Conn \X Way : x # Stream(t) => queue'[x] = queue[x]
    BY <1>4, <2>1 DEF Enqueue, TypeOK
  <2>3. Len(queue'[Stream(t)].q) = Len(queue[Stream(t)].q) + 1 /\ Len(queue[Stream(t)].q) \in Nat
    BY <2>1, <2>2, AppendFacts, LenProperties DEF TypeOK
  <2>4. \A x \in Conn \X Way : Len(queue'[x].q) <= WriteQueue
    BY <1>4, <2>2, <2>3, StreamsAssumption DEF Enqueue, InBounds, StreamsAssumption
  <2> QED
    BY <1>4, <2>4 DEF Enqueue, InBounds
<1>5. ASSUME NEW c \in Conn, Insert(c)
      PROVE  InBounds'
  <2>1. \A x \in Conn \X Way : queue'[x].q = queue[x].q
    BY <1>5, OpensKeeps DEF Insert
  <2> QED
    BY <1>5, <2>1 DEF Insert, InBounds
<1>6. ASSUME NEW c \in Conn, Read(c)
      PROVE  InBounds'
  <2>1. <<c, "up">> \in Conn \X Way /\ wire[<<c, "up">>] \in Seq(Item)
    BY StreamsOfConn DEF TypeOK
  <2> DEFINE s == wire[<<c, "up">>]
  <2> HIDE DEF s
  <2>2. Len(s) >= 2 /\ s \in Seq(Item) /\ Len(s) \in Nat
    BY <1>6, <2>1, LenProperties DEF Read, Framed, s
  <2>3. Len(SubSeq(s, 3, Len(s))) = Len(s) - 2
    BY <2>2, ReadFacts
  <2>4. /\ wire'[<<c, "up">>] = SubSeq(s, 3, Len(s))
        /\ \A x \in Conn \X Way : x # <<c, "up">> => wire'[x] = wire[x]
    BY <1>6, <2>1 DEF Read, TypeOK, s
  <2>5. Len(s) <= Buffer
    BY <2>1 DEF InBounds, s
  <2>6. Len(wire'[<<c, "up">>]) <= Buffer
    BY <2>2, <2>3, <2>4, <2>5, Capacities
  <2>7. \A x \in Conn \X Way : Len(wire'[x]) <= Buffer
    BY <2>4, <2>6 DEF InBounds
  <2> QED
    BY <1>6, <2>7 DEF Read, InBounds
<1>7. ASSUME NEW c \in Conn, Push(c)
      PROVE  InBounds'
  <2>1. PoolAt(c) \in Node \X Kind /\ [msg |-> handler[c].msg, from |-> c] \in Letter
    BY <1>7, PoolOfConn DEF Push, HandlersMatch, Letter
  <2>2. /\ Len(Append(rx[PoolAt(c)], [msg |-> handler[c].msg, from |-> c])) = Len(rx[PoolAt(c)]) + 1
        /\ Len(rx[PoolAt(c)]) \in Nat
    BY <2>1, AppendFacts, LenProperties DEF TypeOK
  <2>3. \A x \in Node \X Kind : Len(rx'[x]) <= RxQueue
    BY <1>7, <2>1, <2>2, StreamsAssumption DEF Push, InBounds, TypeOK, StreamsAssumption
  <2> QED
    BY <1>7, <2>3 DEF Push, InBounds
<1>8. ASSUME NEW c \in Conn, NEW w \in Way, Writer(<<c, w>>)
      PROVE  InBounds'
  <2> DEFINE x == <<c, w>>
  <2>1. x \in Conn \X Way /\ queue[x].q \in Seq(Message) /\ queue[x].q # <<>>
    BY <1>8 DEF Writer, TypeOK
  <2>2. /\ Head(queue[x].q) \in Message
        /\ Len(Tail(queue[x].q)) = Len(queue[x].q) - 1 /\ Len(queue[x].q) \in Nat
    BY <2>1, TailFacts
  <2>3. /\ Len(wire'[x]) = Len(wire[x]) + 2
        /\ \A y \in Conn \X Way : y # x => wire'[y] = wire[y]
    BY <1>8, <2>1, <2>2, FrameType, WireType DEF Writer
  <2>4. /\ queue'[x].q = Tail(queue[x].q)
        /\ \A y \in Conn \X Way : y # x => queue'[y] = queue[y]
    BY <1>8, <2>1 DEF Writer, TypeOK
  <2>5. ASSUME NEW y \in Conn \X Way
        PROVE  Len(queue'[y].q) <= WriteQueue
    <3>1. Len(queue[y].q) <= WriteQueue
      BY DEF InBounds
    <3>2. CASE y = x
      <4>1. Len(queue'[y].q) = Len(queue[y].q) - 1 /\ Len(queue[y].q) \in Nat
        BY <2>2, <2>4, <3>2
      <4> QED
        BY <3>1, <4>1, Capacities
    <3> QED
      BY <2>4, <3>1, <3>2
  <2>6. \A y \in Conn \X Way : Len(wire'[y]) <= Buffer
    BY <1>8, <2>1, <2>3 DEF Writer, Fits, InBounds
  <2> QED
    BY <1>8, <2>5, <2>6 DEF Writer, InBounds
<1>9. ASSUME NEW c \in Conn, NEW w \in Way, WriterEnds(<<c, w>>)
      PROVE  InBounds'
  <2>1. \A x \in Conn \X Way : queue'[x].q = <<>> \/ queue'[x].q = queue[x].q
    BY <1>9 DEF WriterEnds, TypeOK
  <2>2. Len(<<>>) <= WriteQueue
    BY StreamsAssumption, EmptySeq DEF StreamsAssumption
  <2> QED
    BY <1>9, <2>1, <2>2 DEF WriterEnds, InBounds
<1>10. ASSUME NEW n \in Node, Receive(n)
       PROVE  InBounds'
  <2>1. Len(Tail(multi[n])) = Len(multi[n]) - 1 /\ Len(multi[n]) \in Nat
    BY <1>10, TailFacts DEF Receive, TypeOK
  <2>2. \A p \in Node : Len(multi'[p]) <= MultiQueue
    BY <1>10, <2>1, Capacities DEF Receive, InBounds, TypeOK
  <2> QED
    BY <1>10, <2>2 DEF Receive, InBounds
<1>11. ASSUME NEW n \in Node, NEW k \in Kind, Forward(n, k)
       PROVE  InBounds'
  <2>1. <<n, k>> \in Node \X Kind /\ rx[<<n, k>>] \in Seq(Letter) /\ rx[<<n, k>>] # <<>>
    BY <1>11 DEF Forward, TypeOK
  <2>2. /\ Head(rx[<<n, k>>]) \in Letter
        /\ Len(Tail(rx[<<n, k>>])) = Len(rx[<<n, k>>]) - 1 /\ Len(rx[<<n, k>>]) \in Nat
    BY <2>1, TailFacts
  <2>3. /\ Len(Append(multi[n], Head(rx[<<n, k>>]))) = Len(multi[n]) + 1
        /\ Len(multi[n]) \in Nat
    BY <2>2, AppendFacts, LenProperties DEF TypeOK
  <2>4. Len(multi[n]) < MultiQueue /\ \A p \in Node : p = n \/ multi'[p] = multi[p]
    BY <1>11 DEF Forward, TypeOK
  <2>5. multi'[n] = Append(multi[n], Head(rx[<<n, k>>]))
    BY <1>11 DEF Forward, TypeOK
  <2>6. \A p \in Node : Len(multi'[p]) <= MultiQueue
    BY <2>3, <2>4, <2>5, Capacities DEF InBounds
  <2>7. /\ rx'[<<n, k>>] = Tail(rx[<<n, k>>])
        /\ \A x \in Node \X Kind : x = <<n, k>> \/ rx'[x] = rx[x]
    BY <1>11, <2>1 DEF Forward, TypeOK
  <2>8. Len(rx[<<n, k>>]) <= RxQueue
    BY <2>1 DEF InBounds
  <2>9. Len(rx'[<<n, k>>]) <= RxQueue
    BY <2>2, <2>7, <2>8, Capacities
  <2>10. \A x \in Node \X Kind : Len(rx'[x]) <= RxQueue
    BY <2>7, <2>9 DEF InBounds
  <2> QED
    BY <1>11, <2>6, <2>10 DEF Forward, InBounds
<1>12. CASE UNCHANGED <<wire, queue, rx, multi>>
  BY <1>12 DEF InBounds
<1> QED
  BY <1>1, <1>2, <1>3, <1>4, <1>5, <1>6, <1>7, <1>8, <1>9, <1>10, <1>11,
     <1>12, WhoChangesQueues, WhoChangesWires

\* Every connection has its task at the accepting end.
LEMMA StepHandlers ==
  ASSUME TypeOK, SendersMatch, HandlersMatch,
         [Next]_vars
  PROVE  HandlersMatch'
<1>1. ASSUME NEW t \in Task, NEW c \in Conn, Connect(t, c)
      PROVE  HandlersMatch'
  <2>1. /\ conns'[c] = [kind |-> op[t].kind, from |-> op[t].home, to |-> op[t].to, whole |-> TRUE]
        /\ \A d \in Conn : d # c => conns'[d] = conns[d] /\ handler'[d] = handler[d]
        /\ handler'[c].at \in {"backlog", "upgrade"}
    BY <1>1 DEF Connect, Dials, TypeOK, Handler
  <2>2. op[t].at # "idle" /\ op[t].to \in Node
    BY <1>1 DEF Connect, Dials
  <2>3. op[t].kind \in Kind /\ op[t].home \in Node
    BY <2>2, TaskAtWork
  <2>4. conns'[c] \in Link
    BY <2>1, <2>2, <2>3 DEF Link
  <2> QED
    BY <2>1, <2>4, NoneIsNoLink DEF HandlersMatch
<1>2. ASSUME NEW t \in Task, NEW c \in Conn, ConnectWs(t, c)
      PROVE  HandlersMatch'
  <2>1. /\ conns'[c] = [kind |-> op[t].kind, from |-> op[t].home, to |-> op[t].to, whole |-> TRUE]
        /\ \A d \in Conn : d # c => conns'[d] = conns[d] /\ handler'[d] = handler[d]
        /\ handler'[c].at \in {"backlog", "upgrade"}
    BY <1>2 DEF ConnectWs, Dials, TypeOK, Handler
  <2>2. op[t].at # "idle" /\ op[t].to \in Node
    BY <1>2 DEF ConnectWs, Dials
  <2>3. op[t].kind \in Kind /\ op[t].home \in Node
    BY <2>2, TaskAtWork
  <2>4. conns'[c] \in Link
    BY <2>1, <2>2, <2>3 DEF Link
  <2> QED
    BY <2>1, <2>4, NoneIsNoLink DEF HandlersMatch
<1>3. ASSUME NEW c \in Conn, Accept(c)
      PROVE  HandlersMatch'
  BY <1>3 DEF Accept, Reads, At, HandlersMatch, TypeOK, Handler
<1>4. ASSUME NEW c \in Conn, Upgrade(c)
      PROVE  HandlersMatch'
  BY <1>4 DEF Upgrade, Reads, At, HandlersMatch, TypeOK, Handler
<1>5. ASSUME NEW c \in Conn, UpgradeFails(c)
      PROVE  HandlersMatch'
  BY <1>5 DEF UpgradeFails, Reads, At, HandlersMatch, TypeOK, Handler
<1>6. ASSUME NEW c \in Conn, Insert(c)
      PROVE  HandlersMatch'
  BY <1>6 DEF Insert, Awaits, At, HandlersMatch, TypeOK, Handler
<1>7. ASSUME NEW c \in Conn, Read(c)
      PROVE  HandlersMatch'
  <2>1. <<c, "up">> \in Conn \X Way /\ wire[<<c, "up">>] \in Seq(Item)
    BY StreamsOfConn DEF TypeOK
  <2>2. wire[<<c, "up">>][1] \in Item
    BY <1>7, <2>1, ReadFacts DEF Read, Framed
  <2>3. wire[<<c, "up">>][1].msg \in Message
    BY <2>2 DEF Item
  <2> QED
    BY <1>7, <2>3 DEF Read, Reads, HandlersMatch, TypeOK
<1>8. ASSUME NEW c \in Conn, ReadFails(c)
      PROVE  HandlersMatch'
  BY <1>8 DEF ReadFails, Reads, At, HandlersMatch, TypeOK, Handler
<1>9. ASSUME NEW c \in Conn, Push(c)
      PROVE  HandlersMatch'
  BY <1>9 DEF Push, HandlersMatch, TypeOK
<1>10. ASSUME NEW c \in Conn, Fail(c)
       PROVE  HandlersMatch'
  <2>1. \A d \in Conn : conns'[d] = None <=> conns[d] = None
    BY <1>10, LinksStay DEF Fail, TypeOK
  <2> QED
    BY <1>10, <2>1 DEF Fail, HandlersMatch
<1>11. CASE UNCHANGED <<conns, handler>>
  BY <1>11 DEF HandlersMatch
<1> QED
  BY <1>1, <1>2, <1>3, <1>4, <1>5, <1>6, <1>7, <1>8, <1>9, <1>10, <1>11,
     WhoChangesHandlers

\* Only a WebSocket connection has writers.
LEMMA StepQueues ==
  ASSUME TypeOK, SendersMatch, HandlersMatch, QueuesMatch,
         [Next]_vars
  PROVE  QueuesMatch'
<1>1. ASSUME NEW t \in Task, Upgraded(t)
      PROVE  QueuesMatch'
  <2>1. /\ op[t].conn \in Conn /\ conns[op[t].conn] # None /\ conns[op[t].conn].kind = "ws"
    BY <1>1 DEF Upgraded, SendersMatch, SenderMatches
  <2>2. \A x \in Conn \X Way : \/ queue'[x] = queue[x]
                               \/ x = <<op[t].conn, "up">> /\ queue'[x].open
    BY <1>1, <2>1, StreamsOfConn DEF Upgraded, TypeOK
  <2> QED
    BY <1>1, <2>1, <2>2 DEF Upgraded, QueuesMatch
<1>2. ASSUME NEW t \in Task, Enqueue(t)
      PROVE  QueuesMatch'
  <2>1. Stream(t) \in Conn \X Way
    BY <1>2, TaskAtWork DEF Enqueue
  <2>2. \A x \in Conn \X Way : \/ queue'[x] = queue[x]
                               \/ queue[x].open /\ queue'[x].open
    BY <1>2, <2>1 DEF Enqueue, TypeOK
  <2> QED
    BY <1>2, <2>2 DEF Enqueue, QueuesMatch
<1>3. ASSUME NEW c \in Conn, Insert(c)
      PROVE  QueuesMatch'
  <2>1. conns[c] # None
    BY <1>3 DEF Insert, HandlersMatch
  <2>2. CASE conns[c].kind = "ws"
    <3>1. \A x \in Conn \X Way : \/ queue'[x] = queue[x]
                                 \/ x = <<c, "down">> /\ queue'[x].open
      BY <1>3, <2>2, StreamsOfConn DEF Insert, TypeOK
    <3>2. \A x \in Conn \X Way : x = <<c, "down">> => x[1] = c
      OBVIOUS
    <3>3. UNCHANGED conns
      BY <1>3 DEF Insert
    <3> QED
      BY <2>1, <2>2, <3>1, <3>2, <3>3 DEF QueuesMatch
  <2>3. CASE conns[c].kind # "ws"
    <3>1. queue[<<c, "down">>].q = <<>>
      BY <2>1, <2>3, StreamsOfConn DEF QueuesMatch
    <3>2. \A x \in Conn \X Way : x # <<c, "down">> => queue'[x] = queue[x]
      BY <1>3 DEF Insert, TypeOK
    <3>3. ~queue'[<<c, "down">>].open /\ queue'[<<c, "down">>].q = <<>>
      BY <1>3, <2>3, <3>1, StreamsOfConn DEF Insert, TypeOK
    <3>4. UNCHANGED conns
      BY <1>3 DEF Insert
    <3> QED
      BY <3>2, <3>3, <3>4 DEF QueuesMatch
  <2> QED
    BY <2>2, <2>3
<1>4. ASSUME NEW c \in Conn, NEW w \in Way, Writer(<<c, w>>)
      PROVE  QueuesMatch'
  <2>1. queue[<<c, w>>].open
    BY <1>4 DEF Writer, QueuesMatch, TypeOK
  <2>2. \A x \in Conn \X Way : \/ queue'[x] = queue[x]
                               \/ queue[x].open /\ queue'[x].open
    BY <1>4, <2>1 DEF Writer, TypeOK
  <2> QED
    BY <1>4, <2>2 DEF Writer, QueuesMatch
<1>5. ASSUME NEW c \in Conn, NEW w \in Way, WriterEnds(<<c, w>>)
      PROVE  QueuesMatch'
  <2>1. \A x \in Conn \X Way : \/ queue'[x] = queue[x]
                               \/ queue'[x] = [open |-> FALSE, q |-> <<>>]
    BY <1>5 DEF WriterEnds, TypeOK
  <2> QED
    BY <1>5, <2>1 DEF WriterEnds, QueuesMatch
<1>6. CASE UNCHANGED queue
  BY <1>6, LinksStay DEF QueuesMatch
<1> QED
  BY <1>1, <1>2, <1>3, <1>4, <1>5, <1>6, WhoChangesQueues

\* A task that does not move keeps what it has; an idle one has nothing.
LEMMA SenderStays ==
  ASSUME TypeOK, [Next]_vars, NEW u \in Task, SenderMatches(u), op'[u] = op[u]
  PROVE  SenderMatches(u)'
BY LinksStay DEF SenderMatches

LEMMA IdleSender ==
  ASSUME NEW u \in Task, op'[u] = Idle
  PROVE  SenderMatches(u)'
BY DEF SenderMatches, Idle

\* Every task keeps to connections of its device and kind.
LEMMA StepSenders ==
  ASSUME TypeOK, SendersMatch, LettersMatch, PoolsMatch,
         [Next]_vars
  PROVE  SendersMatch'
<1>1. ASSUME NEW t \in Sender, Begin(t)
      PROVE  SendersMatch'
  <2>1. todo[t] \in Seq(Job) /\ todo[t] # <<>> /\ t \in Task
    BY <1>1 DEF Begin, TypeOK, Task
  <2>2. Head(todo[t]) \in Job
    BY <2>1, TailFacts
  <2>3. Sends(t, Head(todo[t]))
    BY <1>1 DEF Begin
  <2>4. \A u \in Task : u # t => op'[u] = op[u]
    BY <2>3 DEF Sends, TypeOK
  <2>5. /\ op'[t].at = "pool" /\ op'[t].kind \in Kind /\ op'[t].home \in Node
        /\ op'[t].to \in Place /\ op'[t].msg \in Message
    BY <2>1, <2>2, <2>3 DEF Sends, TypeOK, Job, Place
  <2>6. SenderMatches(t)'
    BY <2>5 DEF SenderMatches
  <2> QED
    BY <2>4, <2>6, SenderStays DEF SendersMatch
<1>2. ASSUME NEW t \in Task, Found(t)
      PROVE  SendersMatch'
  <2>1. /\ op[t].at # "idle" /\ Pool(t) \in Node \X Kind /\ op[t].to \in Place
        /\ op[t].kind \in Kind /\ op[t].home \in Node /\ op[t].msg \in Message
    BY <1>2, TaskAtWork DEF Found, Has
  <2>2. Known(t) \in Conn
    BY <1>2, <2>1 DEF Found, Usable, Known, TypeOK
  <2>3. Leads(Known(t), Pool(t), op[t].to)
    BY <2>1, <2>2, NoneIsNoLink DEF PoolsMatch, Known
  <2>4. /\ conns[Known(t)] # None /\ conns[Known(t)].kind = op[t].kind
        /\ op[t].home \in {conns[Known(t)].from, conns[Known(t)].to}
    BY <2>1, <2>2, <2>3 DEF Leads, Pool, PoolAt
  <2>5. /\ op'[t].kind = op[t].kind /\ op'[t].home = op[t].home /\ op'[t].conn = Known(t)
        /\ op'[t].to = op[t].to /\ op'[t].msg = op[t].msg
        /\ op'[t].at = IF op[t].kind = "tcp" THEN "stream" ELSE "queue"
        /\ \A u \in Task : u # t => op'[u] = op[u]
    BY <1>2 DEF Found, TypeOK, Sending
  <2>6. SenderMatches(t)'
    BY <1>2, <2>1, <2>2, <2>4, <2>5 DEF Found, SenderMatches, Kind
  <2> QED
    BY <2>5, <2>6, SenderStays DEF SendersMatch
<1>3. ASSUME NEW t \in Task, Upgraded(t)
      PROVE  SendersMatch'
  <2>1. UNCHANGED conns
    BY <1>3 DEF Upgraded
  <2>2. /\ op'[t].kind = op[t].kind /\ op'[t].home = op[t].home /\ op'[t].conn = op[t].conn
        /\ op'[t].to = op[t].to /\ op'[t].msg = op[t].msg /\ op'[t].at = "queue"
        /\ \A u \in Task : u # t => op'[u] = op[u]
    BY <1>3 DEF Upgraded, Stays, TypeOK, Sending
  <2>3. SenderMatches(t)'
    BY <1>3, <2>1, <2>2 DEF Upgraded, SendersMatch, SenderMatches
  <2> QED
    BY <2>2, <2>3, SenderStays DEF SendersMatch
<1>4. ASSUME NEW t \in Task, NotUpgraded(t)
      PROVE  SendersMatch'
  <2>1. op'[t] = Idle /\ \A u \in Task : u # t => op'[u] = op[u]
    BY <1>4 DEF NotUpgraded, Done, TypeOK
  <2> QED
    BY <2>1, IdleSender, SenderStays DEF SendersMatch
<1>5. ASSUME NEW t \in Task, WriteHeader(t)
      PROVE  SendersMatch'
  <2>1. UNCHANGED conns
    BY <1>5 DEF WriteHeader
  <2>2. /\ op'[t].kind = op[t].kind /\ op'[t].home = op[t].home /\ op'[t].conn = op[t].conn
        /\ op'[t].to = op[t].to /\ op'[t].msg = op[t].msg /\ op'[t].at = "body"
        /\ \A u \in Task : u # t => op'[u] = op[u]
    BY <1>5 DEF WriteHeader, Stays, TypeOK, Sending
  <2>3. SenderMatches(t)'
    BY <1>5, <2>1, <2>2 DEF WriteHeader, SendersMatch, SenderMatches
  <2> QED
    BY <2>2, <2>3, SenderStays DEF SendersMatch
<1>6. ASSUME NEW t \in Task, WriteBody(t)
      PROVE  SendersMatch'
  <2>1. op'[t] = Idle /\ \A u \in Task : u # t => op'[u] = op[u]
    BY <1>6 DEF WriteBody, Done, TypeOK
  <2> QED
    BY <2>1, IdleSender, SenderStays DEF SendersMatch
<1>7. ASSUME NEW t \in Task, WriteVanishes(t)
      PROVE  SendersMatch'
  <2>1. op'[t] = Idle /\ \A u \in Task : u # t => op'[u] = op[u]
    BY <1>7 DEF WriteVanishes, Done, TypeOK
  <2> QED
    BY <2>1, IdleSender, SenderStays DEF SendersMatch
<1>8. ASSUME NEW t \in Task, Enqueue(t)
      PROVE  SendersMatch'
  <2>1. op'[t] = Idle /\ \A u \in Task : u # t => op'[u] = op[u]
    BY <1>8 DEF Enqueue, Done, TypeOK
  <2> QED
    BY <2>1, IdleSender, SenderStays DEF SendersMatch
<1>9. ASSUME NEW t \in Task, EnqueueFails(t)
      PROVE  SendersMatch'
  <2>1. op'[t] = Idle /\ \A u \in Task : u # t => op'[u] = op[u]
    BY <1>9 DEF EnqueueFails, Done, TypeOK
  <2> QED
    BY <2>1, IdleSender, SenderStays DEF SendersMatch
<1>10. ASSUME NEW t \in Task, NEW c \in Conn, Connect(t, c)
       PROVE  SendersMatch'
  <2>1. /\ op[t].at # "idle" /\ op[t].to \in Node
        /\ op[t].kind = "tcp" /\ op[t].home \in Node /\ op[t].msg \in Message
    BY <1>10, TaskAtWork DEF Connect, Dials
  <2>2. conns'[c] = [kind |-> op[t].kind, from |-> op[t].home, to |-> op[t].to, whole |-> TRUE]
    BY <1>10 DEF Connect, Dials, TypeOK
  <2>3. conns'[c] \in Link
    BY <2>1, <2>2 DEF Link, Kind
  <2>4. conns'[c] # None
    BY <2>3, NoneIsNoLink
  <2>5. /\ op'[t].kind = op[t].kind /\ op'[t].home = op[t].home /\ op'[t].conn = c
        /\ op'[t].to = op[t].to /\ op'[t].msg = op[t].msg /\ op'[t].at = "stream"
        /\ \A u \in Task : u # t => op'[u] = op[u]
    BY <1>10 DEF Connect, TypeOK, Sending
  <2>6. SenderMatches(t)'
    BY <2>1, <2>2, <2>4, <2>5 DEF SenderMatches, Place, Kind
  <2> QED
    BY <2>5, <2>6, SenderStays DEF SendersMatch
<1>11. ASSUME NEW t \in Task, NEW c \in Conn, ConnectWs(t, c)
       PROVE  SendersMatch'
  <2>1. /\ op[t].at # "idle" /\ op[t].to \in Node
        /\ op[t].kind = "ws" /\ op[t].home \in Node /\ op[t].msg \in Message
    BY <1>11, TaskAtWork DEF ConnectWs, Dials
  <2>2. conns'[c] = [kind |-> op[t].kind, from |-> op[t].home, to |-> op[t].to, whole |-> TRUE]
    BY <1>11 DEF ConnectWs, Dials, TypeOK
  <2>3. conns'[c] \in Link
    BY <2>1, <2>2 DEF Link, Kind
  <2>4. conns'[c] # None
    BY <2>3, NoneIsNoLink
  <2>5. /\ op'[t].kind = op[t].kind /\ op'[t].home = op[t].home /\ op'[t].conn = c
        /\ op'[t].to = op[t].to /\ op'[t].msg = op[t].msg /\ op'[t].at = "upgrade"
        /\ \A u \in Task : u # t => op'[u] = op[u]
    BY <1>11 DEF ConnectWs, TypeOK, Sending
  <2>6. SenderMatches(t)'
    BY <2>1, <2>2, <2>4, <2>5 DEF SenderMatches, Place, Kind
  <2> QED
    BY <2>5, <2>6, SenderStays DEF SendersMatch
<1>12. ASSUME NEW t \in Task, NotConnected(t)
       PROVE  SendersMatch'
  <2>1. op'[t] = Idle /\ \A u \in Task : u # t => op'[u] = op[u]
    BY <1>12 DEF NotConnected, Done, TypeOK
  <2> QED
    BY <2>1, IdleSender, SenderStays DEF SendersMatch
<1>13. ASSUME NEW c \in Conn, Accept(c)
       PROVE  SendersMatch'
  <2>1. UNCHANGED op
    BY <1>13 DEF Accept
  <2> QED
    BY <2>1, SenderStays DEF SendersMatch
<1>14. ASSUME NEW c \in Conn, Upgrade(c)
       PROVE  SendersMatch'
  <2>1. UNCHANGED op
    BY <1>14 DEF Upgrade
  <2> QED
    BY <2>1, SenderStays DEF SendersMatch
<1>15. ASSUME NEW c \in Conn, UpgradeFails(c)
       PROVE  SendersMatch'
  <2>1. UNCHANGED op
    BY <1>15 DEF UpgradeFails
  <2> QED
    BY <2>1, SenderStays DEF SendersMatch
<1>16. ASSUME NEW c \in Conn, Insert(c)
       PROVE  SendersMatch'
  <2>1. UNCHANGED op
    BY <1>16 DEF Insert
  <2> QED
    BY <2>1, SenderStays DEF SendersMatch
<1>17. ASSUME NEW c \in Conn, Read(c)
       PROVE  SendersMatch'
  <2>1. UNCHANGED op
    BY <1>17 DEF Read
  <2> QED
    BY <2>1, SenderStays DEF SendersMatch
<1>18. ASSUME NEW c \in Conn, ReadFails(c)
       PROVE  SendersMatch'
  <2>1. UNCHANGED op
    BY <1>18 DEF ReadFails
  <2> QED
    BY <2>1, SenderStays DEF SendersMatch
<1>19. ASSUME NEW c \in Conn, Push(c)
       PROVE  SendersMatch'
  <2>1. UNCHANGED op
    BY <1>19 DEF Push
  <2> QED
    BY <2>1, SenderStays DEF SendersMatch
<1>20. ASSUME NEW c \in Conn, NEW w \in Way, Writer(<<c, w>>)
       PROVE  SendersMatch'
  <2>1. UNCHANGED op
    BY <1>20 DEF Writer
  <2> QED
    BY <2>1, SenderStays DEF SendersMatch
<1>21. ASSUME NEW c \in Conn, NEW w \in Way, WriterEnds(<<c, w>>)
       PROVE  SendersMatch'
  <2>1. UNCHANGED op
    BY <1>21 DEF WriterEnds
  <2> QED
    BY <2>1, SenderStays DEF SendersMatch
<1>22. ASSUME NEW n \in Node, Receive(n)
       PROVE  SendersMatch'
  <2>1. multi[n] \in Seq(Letter) /\ multi[n] # <<>> /\ n \in Task
    BY <1>22 DEF Receive, TypeOK, Task
  <2>2. /\ Head(multi[n]) \in Letter
        /\ Head(multi[n]) = multi[n][1] /\ 1 \in DOMAIN multi[n]
    BY <2>1, TailFacts, LenProperties
  <2>3. conns[Head(multi[n]).from] \in Link
    BY <2>2 DEF LettersMatch, TypeOK, Letter
  <2>4. Answer(Head(multi[n]).msg) \in Message
    BY <2>2 DEF Letter, Message, Answer
  <2>5. CASE Head(multi[n]).msg.type = "ask"
    <3>1. \A u \in Task : u # n => op'[u] = op[u]
      BY <1>22, <2>5 DEF Receive, Sends, TypeOK
    <3>2. op'[n] = [at |-> "pool", kind |-> conns[Head(multi[n]).from].kind, home |-> n,
                    to |-> Head(multi[n]).from, msg |-> Answer(Head(multi[n]).msg), conn |-> None]
      BY <1>22, <2>1, <2>5 DEF Receive, Sends, TypeOK
    <3>3. SenderMatches(n)'
      BY <2>2, <2>3, <2>4, <3>2 DEF SenderMatches, Letter, Link, Place
    <3> QED
      BY <3>1, <3>3, SenderStays DEF SendersMatch
  <2>6. CASE Head(multi[n]).msg.type # "ask"
    <3>1. UNCHANGED op
      BY <1>22, <2>6 DEF Receive
    <3> QED
      BY <3>1, SenderStays DEF SendersMatch
  <2> QED
    BY <2>5, <2>6
<1>23. ASSUME NEW n \in Node, NEW k \in Kind, Forward(n, k)
       PROVE  SendersMatch'
  <2>1. UNCHANGED op
    BY <1>23 DEF Forward
  <2> QED
    BY <2>1, SenderStays DEF SendersMatch
<1>24. ASSUME NEW c \in Conn, Fail(c)
       PROVE  SendersMatch'
  <2>1. UNCHANGED op
    BY <1>24 DEF Fail
  <2> QED
    BY <2>1, SenderStays DEF SendersMatch
<1>25. CASE UNCHANGED vars
  <2>1. UNCHANGED op
    BY <1>25 DEF vars
  <2> QED
    BY <2>1, SenderStays DEF SendersMatch
<1> QED
  BY <1>1, <1>2, <1>3, <1>4, <1>5, <1>6, <1>7, <1>8, <1>9, <1>10, <1>11, <1>12,
     <1>13, <1>14, <1>15, <1>16, <1>17, <1>18, <1>19, <1>20, <1>21, <1>22,
     <1>23, <1>24, <1>25
     DEF Next, Step, SendStep, ConnStep

\* Letters come by connections.
LEMMA LetterOfConn ==
  ASSUME NEW s \in Seq(Letter), NEW i \in DOMAIN s
  PROVE  s[i] \in Letter /\ s[i].from \in Conn
<1>1. i \in 1 .. Len(s)
  BY LenProperties
<1>2. s[i] \in Letter
  BY <1>1, ElementOfSeq
<1> QED
  BY <1>2 DEF Letter

\* Letters that stay where they are stay right.
LEMMA LettersStay ==
  ASSUME TypeOK, LettersMatch, [Next]_vars
  PROVE  /\ \A x \in Node \X Kind : \A i \in DOMAIN rx[x] :
              conns'[rx[x][i].from] # None /\ <<conns'[rx[x][i].from].to, conns'[rx[x][i].from].kind>> = x
         /\ \A n \in Node : \A i \in DOMAIN multi[n] :
              conns'[multi[n][i].from] # None /\ conns'[multi[n][i].from].to = n
<1>1. ASSUME NEW x \in Node \X Kind, NEW i \in DOMAIN rx[x]
      PROVE  conns'[rx[x][i].from] # None /\ <<conns'[rx[x][i].from].to, conns'[rx[x][i].from].kind>> = x
  <2>1. rx[x] \in Seq(Letter)
    BY DEF TypeOK
  <2>2. rx[x][i].from \in Conn
    BY <2>1, LetterOfConn
  <2>3. conns[rx[x][i].from] # None /\ <<conns[rx[x][i].from].to, conns[rx[x][i].from].kind>> = x
    BY DEF LettersMatch, PoolAt
  <2> QED
    BY <2>2, <2>3, LinksStay
<1>2. ASSUME NEW n \in Node, NEW i \in DOMAIN multi[n]
      PROVE  conns'[multi[n][i].from] # None /\ conns'[multi[n][i].from].to = n
  <2>1. multi[n] \in Seq(Letter)
    BY DEF TypeOK
  <2>2. multi[n][i].from \in Conn
    BY <2>1, LetterOfConn
  <2>3. conns[multi[n][i].from] # None /\ conns[multi[n][i].from].to = n
    BY DEF LettersMatch
  <2> QED
    BY <2>2, <2>3, LinksStay
<1> QED
  BY <1>1, <1>2

\* Letters from a right place, and those that came this step, are right.
LEMMA LettersFollow ==
  ASSUME TypeOK, LettersMatch, [Next]_vars,
         \A x \in Node \X Kind : \A i \in DOMAIN rx'[x] :
           \/ \E j \in DOMAIN rx[x] : rx'[x][i] = rx[x][j]
           \/ /\ conns'[rx'[x][i].from] # None
              /\ <<conns'[rx'[x][i].from].to, conns'[rx'[x][i].from].kind>> = x,
         \A n \in Node : \A i \in DOMAIN multi'[n] :
           \/ \E j \in DOMAIN multi[n] : multi'[n][i] = multi[n][j]
           \/ conns'[multi'[n][i].from] # None /\ conns'[multi'[n][i].from].to = n
  PROVE  LettersMatch'
<1>1. ASSUME NEW x \in Node \X Kind, NEW i \in DOMAIN rx'[x]
      PROVE  /\ conns'[rx'[x][i].from] # None
             /\ <<conns'[rx'[x][i].from].to, conns'[rx'[x][i].from].kind>> = x
  BY LettersStay
<1>2. ASSUME NEW n \in Node, NEW i \in DOMAIN multi'[n]
      PROVE  conns'[multi'[n][i].from] # None /\ conns'[multi'[n][i].from].to = n
  BY LettersStay
<1> QED
  BY <1>1, <1>2 DEF LettersMatch, PoolAt

\* What came by a connection stays with the device it came to.
LEMMA StepLetters ==
  ASSUME TypeOK, HandlersMatch, LettersMatch,
         [Next]_vars
  PROVE  LettersMatch'
<1>1. ASSUME NEW c \in Conn, Push(c)
      PROVE  LettersMatch'
  <2>1. /\ conns[c] # None /\ PoolAt(c) \in Node \X Kind
        /\ [msg |-> handler[c].msg, from |-> c] \in Letter
    BY <1>1, PoolOfConn DEF Push, HandlersMatch, Letter
  <2> DEFINE e == [msg |-> handler[c].msg, from |-> c]
  <2>2. PICK x \in Node \X Kind : x = PoolAt(c)
    BY <2>1
  <2>3. /\ rx'[x] = Append(rx[x], e)
        /\ \A y \in Node \X Kind : y # x => rx'[y] = rx[y]
        /\ UNCHANGED <<conns, multi>>
    BY <1>1, <2>2 DEF Push, TypeOK
  <2>4. /\ DOMAIN rx[x] = 1 .. Len(rx[x]) /\ Len(rx[x]) \in Nat
        /\ DOMAIN rx'[x] = 1 .. Len(rx[x]) + 1
        /\ \A i \in 1 .. Len(rx[x]) : rx'[x][i] = rx[x][i]
        /\ rx'[x][Len(rx[x]) + 1] = e
    BY <2>1, <2>2, <2>3, AppendFacts, LenProperties DEF TypeOK
  <2>5. conns'[e.from] # None /\ <<conns'[e.from].to, conns'[e.from].kind>> = x
    BY <2>1, <2>2, <2>3 DEF PoolAt
  <2>6. ASSUME NEW y \in Node \X Kind, NEW i \in DOMAIN rx'[y]
        PROVE  \/ \E j \in DOMAIN rx[y] : rx'[y][i] = rx[y][j]
               \/ y = x /\ rx'[y][i] = e
    <3>1. CASE y = x
      <4>1. i \in 1 .. Len(rx[x]) \/ i = Len(rx[x]) + 1
        BY <2>4, <3>1
      <4> HIDE DEF e
      <4> QED
        BY <2>4, <3>1, <4>1
    <3> QED
      BY <2>3, <3>1
  <2> HIDE DEF e
  <2> QED
    BY <2>3, <2>5, <2>6, LettersFollow
<1>2. ASSUME NEW n \in Node, Receive(n)
      PROVE  LettersMatch'
  <2>1. multi[n] \in Seq(Letter) /\ multi[n] # <<>> /\ UNCHANGED <<conns, rx>>
    BY <1>2 DEF Receive, TypeOK
  <2>2. /\ multi'[n] = Tail(multi[n])
        /\ \A p \in Node : p # n => multi'[p] = multi[p]
    BY <1>2 DEF Receive, TypeOK
  <2>3. /\ DOMAIN multi[n] = 1 .. Len(multi[n]) /\ Len(multi[n]) \in Nat
        /\ DOMAIN multi'[n] = 1 .. Len(multi[n]) - 1
        /\ \A i \in 1 .. Len(multi[n]) - 1 : multi'[n][i] = multi[n][i + 1]
    BY <2>1, <2>2, TailFacts, LenProperties
  <2>4. \A i \in DOMAIN multi'[n] : i + 1 \in DOMAIN multi[n] /\ multi'[n][i] = multi[n][i + 1]
    BY <2>3
  <2>5. \A p \in Node : \A i \in DOMAIN multi'[p] : \E j \in DOMAIN multi[p] : multi'[p][i] = multi[p][j]
    BY <2>2, <2>4
  <2> QED
    BY <2>1, <2>5, LettersFollow
<1>3. ASSUME NEW n \in Node, NEW k \in Kind, Forward(n, k)
      PROVE  LettersMatch'
  <2>1. PICK x \in Node \X Kind : x = <<n, k>>
    OBVIOUS
  <2>2. /\ rx[x] \in Seq(Letter) /\ rx[x] # <<>>
        /\ multi[n] \in Seq(Letter) /\ UNCHANGED conns
    BY <1>3, <2>1 DEF Forward, TypeOK
  <2>3. /\ rx'[x] = Tail(rx[x]) /\ multi'[n] = Append(multi[n], Head(rx[x]))
        /\ \A y \in Node \X Kind : y # x => rx'[y] = rx[y]
        /\ \A p \in Node : p # n => multi'[p] = multi[p]
    BY <1>3, <2>1 DEF Forward, TypeOK
  <2>4. /\ DOMAIN rx[x] = 1 .. Len(rx[x]) /\ Len(rx[x]) \in Nat \ {0}
        /\ Head(rx[x]) = rx[x][1] /\ Head(rx[x]) \in Letter
        /\ DOMAIN rx'[x] = 1 .. Len(rx[x]) - 1
        /\ \A i \in 1 .. Len(rx[x]) - 1 : rx'[x][i] = rx[x][i + 1]
    BY <2>2, <2>3, TailFacts, LenProperties
  <2>5. \A i \in DOMAIN rx'[x] : i + 1 \in DOMAIN rx[x] /\ rx'[x][i] = rx[x][i + 1]
    BY <2>4
  <2> DEFINE e == Head(rx[x])
  <2>6. conns[e.from] # None /\ <<conns[e.from].to, conns[e.from].kind>> = x
    BY <2>4 DEF LettersMatch, PoolAt
  <2>7. conns'[e.from] # None /\ conns'[e.from].to = n
    BY <2>1, <2>2, <2>6
  <2>8. /\ DOMAIN multi[n] = 1 .. Len(multi[n]) /\ Len(multi[n]) \in Nat
        /\ DOMAIN multi'[n] = 1 .. Len(multi[n]) + 1
        /\ \A i \in 1 .. Len(multi[n]) : multi'[n][i] = multi[n][i]
        /\ multi'[n][Len(multi[n]) + 1] = e
    BY <2>2, <2>3, <2>4, AppendFacts, LenProperties
  <2> HIDE DEF e
  <2>9. \A i \in DOMAIN multi'[n] : \/ i \in DOMAIN multi[n] /\ multi'[n][i] = multi[n][i]
                                   \/ multi'[n][i] = e
    BY <2>8
  <2>10. \A i \in DOMAIN rx'[x] : \E j \in DOMAIN rx[x] : rx'[x][i] = rx[x][j]
    BY <2>5
  <2>11. ASSUME NEW y \in Node \X Kind, NEW i \in DOMAIN rx'[y]
         PROVE  \E j \in DOMAIN rx[y] : rx'[y][i] = rx[y][j]
    <3>1. CASE y = x
      BY <2>10, <3>1
    <3>2. CASE y # x
      <4>1. rx'[y] = rx[y]
        BY <2>3, <3>2
      <4> QED
        BY <4>1
    <3> QED
      BY <3>1, <3>2
  <2>12. ASSUME NEW p \in Node, NEW i \in DOMAIN multi'[p]
         PROVE  \/ \E j \in DOMAIN multi[p] : multi'[p][i] = multi[p][j]
                \/ conns'[multi'[p][i].from] # None /\ conns'[multi'[p][i].from].to = p
    <3>1. CASE p = n
      BY <2>7, <2>9, <3>1
    <3>2. CASE p # n
      <4>1. multi'[p] = multi[p]
        BY <2>3, <3>2
      <4> QED
        BY <4>1
    <3> QED
      BY <3>1, <3>2
  <2> QED
    BY <2>11, <2>12, LettersFollow
<1>4. CASE UNCHANGED <<rx, multi>>
  BY <1>4, LettersFollow
<1> QED
  BY <1>1, <1>2, <1>3, <1>4, WhoChangesLetters

\* An entry that leads somewhere goes on to do so.
LEMMA StillLeads ==
  ASSUME TypeOK, [Next]_vars, NEW c \in Conn, NEW x \in Node \X Kind, NEW a \in Place,
         Leads(c, x, a)
  PROVE  Leads(c, x, a)'
BY LinksStay DEF Leads, PoolAt

LEMMA PoolsStay ==
  ASSUME TypeOK, PoolsMatch, [Next]_vars, UNCHANGED pool
  PROVE  PoolsMatch'
<1> SUFFICES ASSUME NEW x \in Node \X Kind, NEW a \in Place, NEW c, c = pool'[x][a], c # None
             PROVE  Leads(c, x, a)'
  BY DEF PoolsMatch, Leads, PoolAt
<1>1. c \in Conn /\ c = pool[x][a]
  BY DEF TypeOK
<1>2. Leads(c, x, a)
  BY <1>1 DEF PoolsMatch
<1> QED
  BY <1>1, <1>2, StillLeads

\* So does a new one that leads somewhere.
LEMMA PoolsGrow ==
  ASSUME TypeOK, PoolsMatch, [Next]_vars,
         NEW y \in Node \X Kind, NEW b \in Place, NEW d \in Conn,
         pool' = [pool EXCEPT ![y][b] = d],
         Leads(d, y, b)'
  PROVE  PoolsMatch'
<1> SUFFICES ASSUME NEW x \in Node \X Kind, NEW a \in Place, NEW c, c = pool'[x][a], c # None
             PROVE  Leads(c, x, a)'
  BY DEF PoolsMatch, Leads, PoolAt
<1>1. CASE x = y /\ a = b
  <2>1. c = d
    BY <1>1 DEF TypeOK
  <2> QED
    BY <1>1, <2>1
<1>2. CASE ~(x = y /\ a = b)
  <2>1. c \in Conn /\ c = pool[x][a]
    BY <1>2 DEF TypeOK
  <2>2. Leads(c, x, a)
    BY <2>1 DEF PoolsMatch
  <2> QED
    BY <2>1, <2>2, StillLeads
<1> QED
  BY <1>1, <1>2

\* Every entry of a map is right when it is made.
LEMMA StepPools ==
  ASSUME TypeOK, SendersMatch, HandlersMatch, PoolsMatch,
         [Next]_vars
  PROVE  PoolsMatch'
<1>1. ASSUME NEW t \in Task, Upgraded(t)
      PROVE  PoolsMatch'
  <2>1. /\ op[t].to \in Place /\ Pool(t) \in Node \X Kind
        /\ op[t].conn \in Conn
    BY <1>1, TaskAtWork DEF Upgraded
  <2>2. /\ UNCHANGED conns
        /\ pool' = [pool EXCEPT ![Pool(t)][op[t].to] = op[t].conn]
    BY <1>1 DEF Upgraded
  <2>3. /\ conns[op[t].conn] # None /\ conns[op[t].conn].kind = op[t].kind
        /\ conns[op[t].conn].from = op[t].home /\ conns[op[t].conn].to = op[t].to
    BY <1>1 DEF Upgraded, SendersMatch, SenderMatches
  <2>4. PICK y \in Node \X Kind, b \in Place, d \in Conn :
          y = Pool(t) /\ b = op[t].to /\ d = op[t].conn
    BY <2>1
  <2>5. Leads(d, y, b)' /\ pool' = [pool EXCEPT ![y][b] = d]
    BY <2>2, <2>3, <2>4 DEF Leads, Pool
  <2> QED
    BY <2>5, PoolsGrow
<1>2. ASSUME NEW t \in Task, NEW c \in Conn, Connect(t, c)
      PROVE  PoolsMatch'
  <2>1. /\ op[t].at # "idle" /\ op[t].to \in Node /\ op[t].to \in Place
        /\ op[t].kind \in Kind /\ op[t].home \in Node /\ Pool(t) \in Node \X Kind
    BY <1>2, TaskAtWork DEF Connect, Dials, Place
  <2>2. conns'[c] = [kind |-> op[t].kind, from |-> op[t].home, to |-> op[t].to, whole |-> TRUE]
    BY <1>2 DEF Connect, Dials, TypeOK
  <2>3. conns'[c] \in Link
    BY <2>1, <2>2 DEF Link
  <2>4. pool' = [pool EXCEPT ![Pool(t)][op[t].to] = c]
    BY <1>2 DEF Connect
  <2>5. PICK y \in Node \X Kind, b \in Place : y = Pool(t) /\ b = op[t].to
    BY <2>1
  <2>6. /\ conns'[c].kind = op[t].kind /\ conns'[c].from = op[t].home /\ conns'[c].to = op[t].to
    BY <2>2
  <2>7. conns'[c] # None
    BY <2>3, NoneIsNoLink
  <2>8. Leads(c, y, b)'
    BY <2>6, <2>5, <2>7 DEF Leads, Pool
  <2>9. pool' = [pool EXCEPT ![y][b] = c]
    BY <2>4, <2>5
  <2> QED
    BY <2>8, <2>9, PoolsGrow
<1>3. ASSUME NEW c \in Conn, Insert(c)
      PROVE  PoolsMatch'
  <2>1. conns[c] # None
    BY <1>3 DEF Insert, HandlersMatch
  <2>2. PoolAt(c) \in Node \X Kind /\ c \in Place
    BY <2>1, PoolOfConn DEF Place
  <2>3. /\ UNCHANGED conns
        /\ pool' = [pool EXCEPT ![PoolAt(c)][c] = c]
    BY <1>3 DEF Insert
  <2>4. PICK y \in Node \X Kind : y = PoolAt(c)
    BY <2>2
  <2>5. Leads(c, y, c)' /\ pool' = [pool EXCEPT ![y][c] = c]
    BY <2>1, <2>3, <2>4 DEF Leads, PoolAt
  <2> QED
    BY <2>2, <2>5, PoolsGrow
<1>4. CASE UNCHANGED pool
  BY <1>4, PoolsStay
<1> QED
  BY <1>1, <1>2, <1>3, <1>4, WhoChangesPools

-----------------------------------------------------------------------------
(* Mutexes *)

\* One task at most moves; others may start or end where no mutex is wanted.
Moves(u) ==
  /\ \A t \in Task : t # u => op'[t] = op[t]
  /\ \A c \in Conn :
       c # u => \/ handler'[c] = handler[c]
                \/ handler[c].at \notin {"insert", "read"} /\ handler'[c].at \notin {"insert", "read"}

WantsMap(t, x) == op[t].at \in {"pool", "upgrade"} /\ Pool(t) = x
WantsStream(t, x) == op[t].at \in {"stream", "body"} /\ Stream(t) = x
NeedsMap(c, x) == handler[c].at = "insert" /\ PoolAt(c) = x
NeedsStream(c, x) == handler[c].at = "read" /\ conns[c].kind = "tcp" /\ x = <<c, "down">>

\* From s, a mutex u may wait for, to r: it is left alone and u wants it as
\* before, u asks for it, or u had it and gives it back.
Follows(s, r, u, wanted, wants) ==
  \/ r = s /\ (wanted <=> wants)
  \/ r = Append(s, u) /\ ~wanted /\ wants
  \/ r = Tail(s) /\ s # <<>> /\ Head(s) = u /\ ~wants

LEMMA QueueFollows ==
  ASSUME NEW S, NEW s \in Seq(S), NEW u \in S, NEW r, NEW W, NEW V,
         Range(s) = W, IsInjective(s), V \ {u} = W \ {u},
         Follows(s, r, u, u \in W, u \in V)
  PROVE  /\ Range(r) = V /\ IsInjective(r)
         /\ s # <<>> /\ Head(s) # u => r # <<>> /\ Head(r) = Head(s)
<1>1. CASE r = s /\ (u \in W <=> u \in V)
  <2>1. \A v : v \in V <=> v \in W
    <3> SUFFICES ASSUME NEW v, v # u
                 PROVE  v \in V <=> v \in W
      BY <1>1
    <3>1. v \in V \ {u} <=> v \in W \ {u}
      OBVIOUS
    <3> QED
      BY <3>1
  <2>2. V = W
    BY <2>1
  <2> QED
    BY <1>1, <2>2
<1>2. CASE r = Append(s, u) /\ u \notin W /\ u \in V
  <2>1. V = W \cup {u}
    BY <1>2
  <2> QED
    BY <1>2, <2>1, AppendFacts
<1>3. CASE r = Tail(s) /\ s # <<>> /\ Head(s) = u /\ u \notin V
  <2>1. V = W \ {u}
    BY <1>3
  <2> QED
    BY <1>3, <2>1, TailFacts
<1> QED
  BY <1>1, <1>2, <1>3 DEF Follows

\* No task is a connection.
LEMMA Wanting ==
  /\ \A t \in Task : \A x :
       /\ t \in WantMap(x) <=> WantsMap(t, x)
       /\ t \in WantMap(x)' <=> WantsMap(t, x)'
       /\ t \in WantStream(x) <=> WantsStream(t, x)
       /\ t \in WantStream(x)' <=> WantsStream(t, x)'
  /\ \A c \in Conn : \A x :
       /\ c \in WantMap(x) <=> NeedsMap(c, x)
       /\ c \in WantMap(x)' <=> NeedsMap(c, x)'
       /\ c \in WantStream(x) <=> NeedsStream(c, x)
       /\ c \in WantStream(x)' <=> NeedsStream(c, x)'
  /\ \A x : /\ WantMap(x) \subseteq Task \cup Conn /\ WantMap(x)' \subseteq Task \cup Conn
            /\ WantStream(x) \subseteq Task \cup Conn /\ WantStream(x)' \subseteq Task \cup Conn
<1>1. \A t \in Task : t \notin Conn
  BY StreamsAssumption DEF StreamsAssumption, Task, Place
<1> QED
  BY <1>1 DEF WantMap, WantStream, WantsMap, WantsStream, NeedsMap, NeedsStream

\* A task that stays wants what it wanted.
LEMMA StillWants ==
  ASSUME TypeOK, SendersMatch, HandlersMatch, [Next]_vars
  PROVE  /\ \A t \in Task : op'[t] = op[t] =>
              \A x : /\ WantsMap(t, x)' <=> WantsMap(t, x)
                     /\ WantsStream(t, x)' <=> WantsStream(t, x)
         /\ \A c \in Conn :
              \/ handler'[c] = handler[c]
              \/ handler[c].at \notin {"insert", "read"} /\ handler'[c].at \notin {"insert", "read"}
              => \A x : /\ NeedsMap(c, x)' <=> NeedsMap(c, x)
                        /\ NeedsStream(c, x)' <=> NeedsStream(c, x)
<1>1. ASSUME NEW t \in Task, op'[t] = op[t], NEW x
      PROVE  /\ WantsMap(t, x)' <=> WantsMap(t, x)
             /\ WantsStream(t, x)' <=> WantsStream(t, x)
  <2>1. op[t].at \in {"stream", "body"} => op[t].conn \in Conn /\ conns[op[t].conn] # None
    BY DEF SendersMatch, SenderMatches
  <2>2. op[t].at \in {"stream", "body"} => Stream(t)' = Stream(t)
    BY <1>1, <2>1, LinksStay DEF Stream, StreamTo
  <2> QED
    BY <1>1, <2>2 DEF WantsMap, WantsStream, Pool
<1>2. ASSUME NEW c \in Conn, handler'[c] = handler[c], NEW x
      PROVE  /\ NeedsMap(c, x)' <=> NeedsMap(c, x)
             /\ NeedsStream(c, x)' <=> NeedsStream(c, x)
  <2>1. handler[c].at \in {"insert", "read"} => conns[c] # None
    BY DEF HandlersMatch
  <2>2. handler[c].at \in {"insert", "read"} =>
          PoolAt(c)' = PoolAt(c) /\ conns'[c].kind = conns[c].kind
    BY <2>1, LinksStay DEF PoolAt
  <2> QED
    BY <1>2, <2>2 DEF NeedsMap, NeedsStream
<1>3. ASSUME NEW c \in Conn,
             handler[c].at \notin {"insert", "read"} /\ handler'[c].at \notin {"insert", "read"}, NEW x
      PROVE  /\ NeedsMap(c, x)' <=> NeedsMap(c, x)
             /\ NeedsStream(c, x)' <=> NeedsStream(c, x)
  BY <1>3 DEF NeedsMap, NeedsStream
<1> QED
  BY <1>1, <1>2, <1>3

\* Nobody but the one that moves wants anything new.
LEMMA OthersWant ==
  ASSUME TypeOK, SendersMatch, HandlersMatch, [Next]_vars, NEW u, Moves(u)
  PROVE  \A x : /\ WantMap(x)' \ {u} = WantMap(x) \ {u}
                /\ WantStream(x)' \ {u} = WantStream(x) \ {u}
<1> SUFFICES ASSUME NEW x, NEW v \in Task \cup Conn, v # u
             PROVE  /\ v \in WantMap(x)' <=> v \in WantMap(x)
                    /\ v \in WantStream(x)' <=> v \in WantStream(x)
  BY Wanting
<1>1. CASE v \in Task
  BY <1>1, Wanting, StillWants DEF Moves
<1>2. CASE v \in Conn
  BY <1>2, Wanting, StillWants DEF Moves
<1> QED
  BY <1>1, <1>2

\* The mutexes match when each of them follows the one that moves.
LEMMA LocksFollow ==
  ASSUME TypeOK, SendersMatch, HandlersMatch, LocksMatch, [Next]_vars,
         NEW u \in Task \cup Conn, Moves(u),
         \A x \in Node \X Kind :
           Follows(holders[x], holders'[x], u, u \in WantMap(x), u \in WantMap(x)'),
         \A x \in Conn \X Way :
           Follows(writers[x], writers'[x], u, u \in WantStream(x), u \in WantStream(x)'),
         u \in Task /\ op'[u].at = "upgrade" => Has(holders, Pool(u), u)',
         u \in Task /\ op'[u].at = "body" => Has(writers, Stream(u), u)'
  PROVE  LocksMatch'
<1>1. ASSUME NEW x \in Node \X Kind
      PROVE  /\ Range(holders'[x]) = WantMap(x)' /\ IsInjective(holders'[x])
             /\ holders[x] # <<>> /\ Head(holders[x]) # u =>
                  holders'[x] # <<>> /\ Head(holders'[x]) = Head(holders[x])
  <2>1. holders[x] \in Seq(Task \cup Conn) /\ Range(holders[x]) = WantMap(x) /\ IsInjective(holders[x])
    BY DEF TypeOK, LocksMatch
  <2>2. WantMap(x)' \ {u} = WantMap(x) \ {u}
    BY OthersWant
  <2> QED
    BY <2>1, <2>2, QueueFollows
<1>2. ASSUME NEW x \in Conn \X Way
      PROVE  /\ Range(writers'[x]) = WantStream(x)' /\ IsInjective(writers'[x])
             /\ writers[x] # <<>> /\ Head(writers[x]) # u =>
                  writers'[x] # <<>> /\ Head(writers'[x]) = Head(writers[x])
  <2>1. writers[x] \in Seq(Task \cup Conn) /\ Range(writers[x]) = WantStream(x) /\ IsInjective(writers[x])
    BY DEF TypeOK, LocksMatch
  <2>2. WantStream(x)' \ {u} = WantStream(x) \ {u}
    BY OthersWant
  <2> QED
    BY <2>1, <2>2, QueueFollows
<1>3. ASSUME NEW t \in Task, op'[t].at = "upgrade", t # u
      PROVE  Has(holders, Pool(t), t)'
  <2>1. op'[t] = op[t]
    BY <1>3 DEF Moves
  <2>2. Has(holders, Pool(t), t) /\ Pool(t) \in Node \X Kind
    BY <1>3, <2>1, TaskAtWork DEF LocksMatch
  <2>3. Pool(t)' = Pool(t)
    BY <2>1 DEF Pool
  <2> QED
    BY <1>1, <1>3, <2>2, <2>3 DEF Has
<1>4. ASSUME NEW t \in Task, op'[t].at = "body", t # u
      PROVE  Has(writers, Stream(t), t)'
  <2>1. op'[t] = op[t]
    BY <1>4 DEF Moves
  <2>2. Has(writers, Stream(t), t) /\ Stream(t) \in Conn \X Way
    BY <1>4, <2>1, TaskAtWork DEF LocksMatch
  <2>3. op[t].conn \in Conn /\ conns[op[t].conn] # None
    BY <1>4, <2>1 DEF SendersMatch, SenderMatches
  <2>4. Stream(t)' = Stream(t)
    BY <2>1, <2>3, LinksStay DEF Stream, StreamTo
  <2> QED
    BY <1>2, <1>4, <2>2, <2>4 DEF Has
<1> QED
  BY <1>1, <1>2, <1>3, <1>4 DEF LocksMatch

\* The same in terms of the step of one task, or of the task of a connection.
LEMMA TaskFollows ==
  ASSUME TypeOK, SendersMatch, HandlersMatch, LocksMatch, [Next]_vars,
         NEW t \in Task, Moves(t),
         \A x \in Node \X Kind : Follows(holders[x], holders'[x], t, WantsMap(t, x), WantsMap(t, x)'),
         \A x \in Conn \X Way : Follows(writers[x], writers'[x], t, WantsStream(t, x), WantsStream(t, x)'),
         op'[t].at = "upgrade" => Has(holders, Pool(t), t)',
         op'[t].at = "body" => Has(writers, Stream(t), t)'
  PROVE  LocksMatch'
<1>1. \A x \in Node \X Kind :
        Follows(holders[x], holders'[x], t, t \in WantMap(x), t \in WantMap(x)')
  BY Wanting DEF Follows
<1>2. \A x \in Conn \X Way :
        Follows(writers[x], writers'[x], t, t \in WantStream(x), t \in WantStream(x)')
  BY Wanting DEF Follows
<1>3. t \in Task \cup Conn
  OBVIOUS
<1> QED
  BY <1>1, <1>2, <1>3, LocksFollow

LEMMA ConnFollows ==
  ASSUME TypeOK, SendersMatch, HandlersMatch, LocksMatch, [Next]_vars,
         NEW c \in Conn, Moves(c),
         \A x \in Node \X Kind : Follows(holders[x], holders'[x], c, NeedsMap(c, x), NeedsMap(c, x)'),
         \A x \in Conn \X Way : Follows(writers[x], writers'[x], c, NeedsStream(c, x), NeedsStream(c, x)')
  PROVE  LocksMatch'
<1>1. \A x \in Node \X Kind :
        Follows(holders[x], holders'[x], c, c \in WantMap(x), c \in WantMap(x)')
  BY Wanting DEF Follows
<1>2. \A x \in Conn \X Way :
        Follows(writers[x], writers'[x], c, c \in WantStream(x), c \in WantStream(x)')
  BY Wanting DEF Follows
<1>3. c \in Task \cup Conn /\ c \notin Task
  BY StreamsAssumption DEF StreamsAssumption, Task, Place
<1> QED
  BY <1>1, <1>2, <1>3, LocksFollow

\* The same when nobody moves.
LEMMA LocksStay ==
  ASSUME TypeOK, SendersMatch, HandlersMatch, LocksMatch, [Next]_vars,
         UNCHANGED <<op, handler, holders, writers>>
  PROVE  LocksMatch'
<1>1. \A x : WantMap(x)' = WantMap(x) /\ WantStream(x)' = WantStream(x)
  <2> SUFFICES ASSUME NEW x, NEW v \in Task \cup Conn
               PROVE  /\ v \in WantMap(x)' <=> v \in WantMap(x)
                      /\ v \in WantStream(x)' <=> v \in WantStream(x)
    BY Wanting
  <2> QED
    BY Wanting, StillWants
<1>2. \A t \in Task : op'[t].at = "upgrade" => Has(holders, Pool(t), t)'
  BY DEF LocksMatch, Has, Pool
<1>3. \A t \in Task : op'[t].at = "body" => Has(writers, Stream(t), t)'
  <2> SUFFICES ASSUME NEW t \in Task, op[t].at = "body"
               PROVE  Has(writers, Stream(t), t)'
    OBVIOUS
  <2>1. Has(writers, Stream(t), t) /\ op[t].conn \in Conn /\ conns[op[t].conn] # None
    BY DEF LocksMatch, SendersMatch, SenderMatches
  <2>2. Stream(t)' = Stream(t)
    BY <2>1, LinksStay DEF Stream, StreamTo
  <2> QED
    BY <2>1, <2>2 DEF Has
<1> QED
  BY <1>1, <1>2, <1>3 DEF LocksMatch

\* A mutex is wanted by those who need it, and held by the one that got past it.
LEMMA StepLocks ==
  ASSUME TypeOK, SendersMatch, HandlersMatch, LettersMatch, LocksMatch,
         [Next]_vars
  PROVE  LocksMatch'
<1>1. ASSUME NEW t \in Sender, Begin(t)
      PROVE  LocksMatch'
  <2>1. todo[t] \in Seq(Job) /\ todo[t] # <<>> /\ t \in Task
    BY <1>1 DEF Begin, TypeOK, Task
  <2>2. Sends(t, Head(todo[t])) /\ Head(todo[t]) \in Job
    BY <1>1, <2>1, TailFacts DEF Begin
  <2>3. /\ op'[t].at = "pool" /\ Pool(t)' = <<Head(todo[t]).home, Head(todo[t]).kind>>
        /\ \A u \in Task : u # t => op'[u] = op[u]
    BY <2>1, <2>2 DEF Sends, TypeOK, Pool
  <2>4. op[t].at = "idle" /\ <<Head(todo[t]).home, Head(todo[t]).kind>> \in Node \X Kind
    BY <2>1, <2>2, <2>2 DEF Sends, Job, Link
  <2>5. Moves(t)
    BY <1>1, <2>3 DEF Begin, Moves
  <2>6. \A x \in Node \X Kind :
          Follows(holders[x], holders'[x], t, WantsMap(t, x), WantsMap(t, x)')
    BY <2>1, <2>2, <2>3, <2>4 DEF Sends, Asks, Follows, WantsMap, TypeOK
  <2>7. \A x \in Conn \X Way :
          Follows(writers[x], writers'[x], t, WantsStream(t, x), WantsStream(t, x)')
    BY <1>1, <2>3, <2>4 DEF Begin, Follows, WantsStream
  <2>8. op'[t].at # "upgrade" /\ op'[t].at # "body"
    BY <2>3
  <2> QED
    BY <2>1, <2>5, <2>6, <2>7, <2>8, TaskFollows
<1>2. ASSUME NEW t \in Task, Found(t)
      PROVE  LocksMatch'
  <2>1. /\ op[t].at = "pool" /\ Pool(t) \in Node \X Kind /\ op[t].to \in Place
    BY <1>2, TaskAtWork DEF Found
  <2>2. holders[Pool(t)] # <<>> /\ Head(holders[Pool(t)]) = t
    BY <1>2 DEF Found, Has
  <2>3. /\ op'[t].at = (IF op[t].kind = "tcp" THEN "stream" ELSE "queue")
        /\ op'[t].home = op[t].home /\ op'[t].conn = Known(t)
        /\ \A u \in Task : u # t => op'[u] = op[u]
    BY <1>2 DEF Found, TypeOK, Sending
  <2>4. Stream(t)' = StreamTo(Known(t), t)
    BY <1>2, <2>3 DEF Found, Stream, StreamTo
  <2>5. Moves(t)
    BY <1>2, <2>3 DEF Found, Moves, TypeOK, Sending
  <2>6. \A x \in Node \X Kind :
          Follows(holders[x], holders'[x], t, WantsMap(t, x), WantsMap(t, x)')
    BY <1>2, <2>1, <2>3, <2>2 DEF Found, Follows, WantsMap, Gives, TypeOK
  <2>7. ASSUME NEW x \in Conn \X Way
        PROVE  Follows(writers[x], writers'[x], t, WantsStream(t, x), WantsStream(t, x)')
    <3>1. WantsStream(t, x)' <=> op[t].kind = "tcp" /\ x = StreamTo(Known(t), t)
      BY <2>3, <2>4 DEF WantsStream
    <3>2. ~WantsStream(t, x)
      BY <2>1 DEF WantsStream
    <3>3. writers'[x] = IF op[t].kind = "tcp" /\ x = StreamTo(Known(t), t)
                          THEN Append(writers[x], t) ELSE writers[x]
      BY <1>2 DEF Found, Asks, TypeOK
    <3> QED
      BY <3>1, <3>2, <3>3 DEF Follows
  <2>8. /\ op'[t].at = "upgrade" => Has(holders, Pool(t), t)'
        /\ op'[t].at = "body" => Has(writers, Stream(t), t)'
    BY <2>3
  <2> QED
    BY <2>5, <2>6, <2>7, <2>8, TaskFollows
<1>3. ASSUME NEW t \in Task, Upgraded(t)
      PROVE  LocksMatch'
  <2>1. op[t].at \in {"pool", "upgrade"} /\ Pool(t) \in Node \X Kind
    BY <1>3, TaskAtWork DEF Upgraded
  <2>2. holders[Pool(t)] # <<>> /\ Head(holders[Pool(t)]) = t
    BY <1>3 DEF Upgraded, LocksMatch, Has
  <2>3. /\ op'[t].at = "queue"
        /\ \A u \in Task : u # t => op'[u] = op[u]
    BY <1>3 DEF Upgraded, Stays, TypeOK, Sending
  <2>4. Moves(t)
    BY <1>3, <2>3 DEF Upgraded, Moves, Stays, TypeOK, Sending
  <2>5. \A x \in Node \X Kind :
          Follows(holders[x], holders'[x], t, WantsMap(t, x), WantsMap(t, x)')
    BY <1>3, <2>1, <2>3, <2>2 DEF Upgraded, Follows, WantsMap, Gives, TypeOK
  <2>6. \A x \in Conn \X Way :
          Follows(writers[x], writers'[x], t, WantsStream(t, x), WantsStream(t, x)')
    BY <1>3, <2>3 DEF Upgraded, Follows, WantsStream
  <2>7. /\ op'[t].at = "upgrade" => Has(holders, Pool(t), t)'
        /\ op'[t].at = "body" => Has(writers, Stream(t), t)'
    BY <2>3
  <2> QED
    BY <2>4, <2>5, <2>6, <2>7, TaskFollows
<1>4. ASSUME NEW t \in Task, NotUpgraded(t)
      PROVE  LocksMatch'
  <2>1. op[t].at \in {"pool", "upgrade"} /\ Pool(t) \in Node \X Kind
    BY <1>4, TaskAtWork DEF NotUpgraded
  <2>2. holders[Pool(t)] # <<>> /\ Head(holders[Pool(t)]) = t
    BY <1>4 DEF NotUpgraded, LocksMatch, Has
  <2>3. /\ op'[t].at = "idle"
        /\ \A u \in Task : u # t => op'[u] = op[u]
    BY <1>4 DEF NotUpgraded, Done, Idle, TypeOK
  <2>4. Moves(t)
    BY <1>4, <2>3 DEF NotUpgraded, Moves, Done, Idle, TypeOK
  <2>5. \A x \in Node \X Kind :
          Follows(holders[x], holders'[x], t, WantsMap(t, x), WantsMap(t, x)')
    BY <1>4, <2>1, <2>3, <2>2 DEF NotUpgraded, Follows, WantsMap, Gives, TypeOK
  <2>6. \A x \in Conn \X Way :
          Follows(writers[x], writers'[x], t, WantsStream(t, x), WantsStream(t, x)')
    BY <1>4, <2>3 DEF NotUpgraded, Follows, WantsStream
  <2>7. /\ op'[t].at = "upgrade" => Has(holders, Pool(t), t)'
        /\ op'[t].at = "body" => Has(writers, Stream(t), t)'
    BY <2>3
  <2> QED
    BY <2>4, <2>5, <2>6, <2>7, TaskFollows
<1>5. ASSUME NEW t \in Task, WriteHeader(t)
      PROVE  LocksMatch'
  <2>1. /\ op'[t].at = "body" /\ op'[t].home = op[t].home /\ op'[t].conn = op[t].conn
        /\ \A u \in Task : u # t => op'[u] = op[u]
    BY <1>5 DEF WriteHeader, Stays, TypeOK, Sending
  <2>2. UNCHANGED <<holders, writers>> /\ Stream(t)' = Stream(t)
    BY <1>5, <2>1 DEF WriteHeader, Stream, StreamTo
  <2>3. Moves(t)
    BY <1>5, <2>1 DEF WriteHeader, Moves, Stays, TypeOK, Sending
  <2>4. \A x \in Node \X Kind :
          Follows(holders[x], holders'[x], t, WantsMap(t, x), WantsMap(t, x)')
    BY <1>5, <2>1 DEF WriteHeader, Follows, WantsMap
  <2>5. \A x \in Conn \X Way :
          Follows(writers[x], writers'[x], t, WantsStream(t, x), WantsStream(t, x)')
    BY <1>5, <2>1, <2>2 DEF WriteHeader, Follows, WantsStream
  <2>6. /\ op'[t].at = "upgrade" => Has(holders, Pool(t), t)'
        /\ op'[t].at = "body" => Has(writers, Stream(t), t)'
    BY <1>5, <2>1, <2>2 DEF WriteHeader, Has
  <2> QED
    BY <2>3, <2>4, <2>5, <2>6, TaskFollows
<1>6. ASSUME NEW t \in Task, WriteBody(t)
      PROVE  LocksMatch'
  <2>1. op[t].at \in {"stream", "body"} /\ Stream(t) \in Conn \X Way
    BY <1>6, TaskAtWork DEF WriteBody
  <2>2. writers[Stream(t)] # <<>> /\ Head(writers[Stream(t)]) = t
    BY <1>6 DEF WriteBody, LocksMatch, Has
  <2>3. /\ op'[t].at = "idle"
        /\ \A u \in Task : u # t => op'[u] = op[u]
    BY <1>6 DEF WriteBody, Done, Idle, TypeOK
  <2>4. Moves(t)
    BY <1>6, <2>3 DEF WriteBody, Moves, Done, Idle, TypeOK
  <2>5. \A x \in Node \X Kind :
          Follows(holders[x], holders'[x], t, WantsMap(t, x), WantsMap(t, x)')
    BY <1>6, <2>3 DEF WriteBody, Follows, WantsMap
  <2>6. \A x \in Conn \X Way :
          Follows(writers[x], writers'[x], t, WantsStream(t, x), WantsStream(t, x)')
    BY <1>6, <2>1, <2>3, <2>2 DEF WriteBody, Follows, WantsStream, Gives, TypeOK
  <2>7. /\ op'[t].at = "upgrade" => Has(holders, Pool(t), t)'
        /\ op'[t].at = "body" => Has(writers, Stream(t), t)'
    BY <2>3
  <2> QED
    BY <2>4, <2>5, <2>6, <2>7, TaskFollows
<1>7. ASSUME NEW t \in Task, WriteVanishes(t)
      PROVE  LocksMatch'
  <2>1. op[t].at \in {"stream", "body"} /\ Stream(t) \in Conn \X Way
    BY <1>7, TaskAtWork DEF WriteVanishes
  <2>2. writers[Stream(t)] # <<>> /\ Head(writers[Stream(t)]) = t
    BY <1>7 DEF WriteVanishes, LocksMatch, Has
  <2>3. /\ op'[t].at = "idle"
        /\ \A u \in Task : u # t => op'[u] = op[u]
    BY <1>7 DEF WriteVanishes, Done, Idle, TypeOK
  <2>4. Moves(t)
    BY <1>7, <2>3 DEF WriteVanishes, Moves, Done, Idle, TypeOK
  <2>5. \A x \in Node \X Kind :
          Follows(holders[x], holders'[x], t, WantsMap(t, x), WantsMap(t, x)')
    BY <1>7, <2>3 DEF WriteVanishes, Follows, WantsMap
  <2>6. \A x \in Conn \X Way :
          Follows(writers[x], writers'[x], t, WantsStream(t, x), WantsStream(t, x)')
    BY <1>7, <2>1, <2>3, <2>2 DEF WriteVanishes, Follows, WantsStream, Gives, TypeOK
  <2>7. /\ op'[t].at = "upgrade" => Has(holders, Pool(t), t)'
        /\ op'[t].at = "body" => Has(writers, Stream(t), t)'
    BY <2>3
  <2> QED
    BY <2>4, <2>5, <2>6, <2>7, TaskFollows
<1>8. ASSUME NEW t \in Task, Enqueue(t)
      PROVE  LocksMatch'
  <2>1. /\ op'[t].at = "idle"
        /\ \A u \in Task : u # t => op'[u] = op[u]
    BY <1>8 DEF Enqueue, Done, Idle, TypeOK
  <2>2. Moves(t)
    BY <1>8, <2>1 DEF Enqueue, Moves, Done, Idle, TypeOK
  <2>3. \A x \in Node \X Kind :
          Follows(holders[x], holders'[x], t, WantsMap(t, x), WantsMap(t, x)')
    BY <1>8, <2>1 DEF Enqueue, Follows, WantsMap
  <2>4. \A x \in Conn \X Way :
          Follows(writers[x], writers'[x], t, WantsStream(t, x), WantsStream(t, x)')
    BY <1>8, <2>1 DEF Enqueue, Follows, WantsStream
  <2>5. /\ op'[t].at = "upgrade" => Has(holders, Pool(t), t)'
        /\ op'[t].at = "body" => Has(writers, Stream(t), t)'
    BY <2>1
  <2> QED
    BY <2>2, <2>3, <2>4, <2>5, TaskFollows
<1>9. ASSUME NEW t \in Task, EnqueueFails(t)
      PROVE  LocksMatch'
  <2>1. /\ op'[t].at = "idle"
        /\ \A u \in Task : u # t => op'[u] = op[u]
    BY <1>9 DEF EnqueueFails, Done, Idle, TypeOK
  <2>2. Moves(t)
    BY <1>9, <2>1 DEF EnqueueFails, Moves, Done, Idle, TypeOK
  <2>3. \A x \in Node \X Kind :
          Follows(holders[x], holders'[x], t, WantsMap(t, x), WantsMap(t, x)')
    BY <1>9, <2>1 DEF EnqueueFails, Follows, WantsMap
  <2>4. \A x \in Conn \X Way :
          Follows(writers[x], writers'[x], t, WantsStream(t, x), WantsStream(t, x)')
    BY <1>9, <2>1 DEF EnqueueFails, Follows, WantsStream
  <2>5. /\ op'[t].at = "upgrade" => Has(holders, Pool(t), t)'
        /\ op'[t].at = "body" => Has(writers, Stream(t), t)'
    BY <2>1
  <2> QED
    BY <2>2, <2>3, <2>4, <2>5, TaskFollows
<1>10. ASSUME NEW t \in Task, NEW c \in Conn, Connect(t, c)
       PROVE  LocksMatch'
  <2>1. /\ op[t].at = "pool" /\ Pool(t) \in Node \X Kind
    BY <1>10, TaskAtWork DEF Connect, Dials
  <2>2. holders[Pool(t)] # <<>> /\ Head(holders[Pool(t)]) = t
    BY <1>10 DEF Connect, Dials, Has
  <2>3. /\ op'[t].at = "stream" /\ op'[t].home = op[t].home /\ op'[t].conn = c
        /\ \A u \in Task : u # t => op'[u] = op[u]
    BY <1>10 DEF Connect, Dials, TypeOK, Sending
  <2>4. conns'[c].from = op[t].home
    BY <1>10 DEF Connect, Dials, TypeOK
  <2>5. Stream(t)' = <<c, "up">>
    BY <2>3, <2>4 DEF Stream, StreamTo
  <2>6. /\ handler[c].at = "none" /\ handler'[c].at \in {"backlog", "upgrade"}
        /\ \A d \in Conn : d # c => handler'[d] = handler[d]
    BY <1>10 DEF Connect, Dials, HandlersMatch, TypeOK, Handler
  <2>7. Moves(t)
    BY <2>3, <2>6 DEF Moves
  <2>8. \A x \in Node \X Kind :
          Follows(holders[x], holders'[x], t, WantsMap(t, x), WantsMap(t, x)')
    BY <1>10, <2>1, <2>3, <2>2 DEF Connect, Follows, WantsMap, Gives, TypeOK
  <2>9. \A x \in Conn \X Way :
          Follows(writers[x], writers'[x], t, WantsStream(t, x), WantsStream(t, x)')
    BY <1>10, <2>1, <2>3, <2>5 DEF Connect, Follows, WantsStream, Asks, TypeOK
  <2>10. /\ op'[t].at = "upgrade" => Has(holders, Pool(t), t)'
         /\ op'[t].at = "body" => Has(writers, Stream(t), t)'
    BY <2>3
  <2> QED
    BY <2>7, <2>8, <2>9, <2>10, TaskFollows
<1>11. ASSUME NEW t \in Task, NEW c \in Conn, ConnectWs(t, c)
       PROVE  LocksMatch'
  <2>1. /\ op[t].at = "pool" /\ Pool(t) \in Node \X Kind
    BY <1>11, TaskAtWork DEF ConnectWs, Dials
  <2>2. holders[Pool(t)] # <<>> /\ Head(holders[Pool(t)]) = t
    BY <1>11 DEF ConnectWs, Dials, Has
  <2>3. /\ op'[t].at = "upgrade" /\ Pool(t)' = Pool(t)
        /\ \A u \in Task : u # t => op'[u] = op[u]
    BY <1>11 DEF ConnectWs, Dials, TypeOK, Sending, Pool
  <2>4. /\ handler[c].at = "none" /\ handler'[c].at \in {"backlog", "upgrade"}
        /\ \A d \in Conn : d # c => handler'[d] = handler[d]
    BY <1>11 DEF ConnectWs, Dials, HandlersMatch, TypeOK, Handler
  <2>5. Moves(t)
    BY <2>3, <2>4 DEF Moves
  <2>6. \A x \in Node \X Kind :
          Follows(holders[x], holders'[x], t, WantsMap(t, x), WantsMap(t, x)')
    BY <1>11, <2>1, <2>3 DEF ConnectWs, Follows, WantsMap
  <2>7. \A x \in Conn \X Way :
          Follows(writers[x], writers'[x], t, WantsStream(t, x), WantsStream(t, x)')
    BY <1>11, <2>1, <2>3 DEF ConnectWs, Follows, WantsStream
  <2>8. /\ op'[t].at = "upgrade" => Has(holders, Pool(t), t)'
        /\ op'[t].at = "body" => Has(writers, Stream(t), t)'
    BY <1>11, <2>3, <2>2 DEF ConnectWs, Has
  <2> QED
    BY <2>5, <2>6, <2>7, <2>8, TaskFollows
<1>12. ASSUME NEW t \in Task, NotConnected(t)
       PROVE  LocksMatch'
  <2>1. op[t].at \in {"pool", "upgrade"} /\ Pool(t) \in Node \X Kind
    BY <1>12, TaskAtWork DEF NotConnected
  <2>2. holders[Pool(t)] # <<>> /\ Head(holders[Pool(t)]) = t
    BY <1>12 DEF NotConnected, LocksMatch, Has
  <2>3. /\ op'[t].at = "idle"
        /\ \A u \in Task : u # t => op'[u] = op[u]
    BY <1>12 DEF NotConnected, Done, Idle, TypeOK
  <2>4. Moves(t)
    BY <1>12, <2>3 DEF NotConnected, Moves, Done, Idle, TypeOK
  <2>5. \A x \in Node \X Kind :
          Follows(holders[x], holders'[x], t, WantsMap(t, x), WantsMap(t, x)')
    BY <1>12, <2>1, <2>3, <2>2 DEF NotConnected, Follows, WantsMap, Gives, TypeOK
  <2>6. \A x \in Conn \X Way :
          Follows(writers[x], writers'[x], t, WantsStream(t, x), WantsStream(t, x)')
    BY <1>12, <2>3 DEF NotConnected, Follows, WantsStream
  <2>7. /\ op'[t].at = "upgrade" => Has(holders, Pool(t), t)'
        /\ op'[t].at = "body" => Has(writers, Stream(t), t)'
    BY <2>3
  <2> QED
    BY <2>4, <2>5, <2>6, <2>7, TaskFollows
<1>13. ASSUME NEW c \in Conn, Accept(c)
       PROVE  LocksMatch'
  <2>1. PoolAt(c) \in Node \X Kind
    BY <1>13, PoolOfConn DEF Accept, HandlersMatch
  <2>2. /\ handler[c].at = "backlog" /\ handler'[c].at = "insert"
        /\ \A d \in Conn : d # c => handler'[d] = handler[d]
        /\ UNCHANGED <<op, conns>>
    BY <1>13 DEF Accept, TypeOK, Handler, At
  <2>3. Moves(c)
    BY <2>2 DEF Moves
  <2>4. \A x \in Node \X Kind :
          Follows(holders[x], holders'[x], c, NeedsMap(c, x), NeedsMap(c, x)')
    BY <1>13, <2>1, <2>2 DEF Accept, Asks, Follows, NeedsMap, PoolAt, TypeOK
  <2>5. \A x \in Conn \X Way :
          Follows(writers[x], writers'[x], c, NeedsStream(c, x), NeedsStream(c, x)')
    BY <1>13, <2>2 DEF Accept, Follows, NeedsStream
  <2> QED
    BY <2>3, <2>4, <2>5, ConnFollows
<1>14. ASSUME NEW c \in Conn, Upgrade(c)
       PROVE  LocksMatch'
  <2>1. PoolAt(c) \in Node \X Kind
    BY <1>14, PoolOfConn DEF Upgrade, HandlersMatch
  <2>2. /\ handler[c].at = "upgrade" /\ handler'[c].at = "insert"
        /\ \A d \in Conn : d # c => handler'[d] = handler[d]
        /\ UNCHANGED <<op, conns>>
    BY <1>14 DEF Upgrade, TypeOK, Handler, At
  <2>3. Moves(c)
    BY <2>2 DEF Moves
  <2>4. \A x \in Node \X Kind :
          Follows(holders[x], holders'[x], c, NeedsMap(c, x), NeedsMap(c, x)')
    BY <1>14, <2>1, <2>2 DEF Upgrade, Asks, Follows, NeedsMap, PoolAt, TypeOK
  <2>5. \A x \in Conn \X Way :
          Follows(writers[x], writers'[x], c, NeedsStream(c, x), NeedsStream(c, x)')
    BY <1>14, <2>2 DEF Upgrade, Follows, NeedsStream
  <2> QED
    BY <2>3, <2>4, <2>5, ConnFollows
<1>15. ASSUME NEW c \in Conn, UpgradeFails(c)
       PROVE  LocksMatch'
  <2>1. /\ handler[c].at = "upgrade" /\ handler'[c].at = "ended"
        /\ \A d \in Conn : d # c => handler'[d] = handler[d]
        /\ UNCHANGED <<op, conns>>
    BY <1>15 DEF UpgradeFails, TypeOK, Handler, At
  <2>2. Moves(c)
    BY <2>1 DEF Moves
  <2>3. \A x \in Node \X Kind :
          Follows(holders[x], holders'[x], c, NeedsMap(c, x), NeedsMap(c, x)')
    BY <1>15, <2>1 DEF UpgradeFails, Follows, NeedsMap
  <2>4. \A x \in Conn \X Way :
          Follows(writers[x], writers'[x], c, NeedsStream(c, x), NeedsStream(c, x)')
    BY <1>15, <2>1 DEF UpgradeFails, Follows, NeedsStream
  <2> QED
    BY <2>2, <2>3, <2>4, ConnFollows
<1>16. ASSUME NEW c \in Conn, Insert(c)
       PROVE  LocksMatch'
  <2>1. PoolAt(c) \in Node \X Kind
    BY <1>16, PoolOfConn DEF Insert, HandlersMatch
  <2>2. /\ handler[c].at = "insert" /\ handler'[c].at = "read"
        /\ \A d \in Conn : d # c => handler'[d] = handler[d]
        /\ UNCHANGED <<op, conns>>
    BY <1>16 DEF Insert, TypeOK, Handler, At, Awaits
  <2>3. Moves(c)
    BY <2>2 DEF Moves
  <2>4. \A x \in Node \X Kind :
          Follows(holders[x], holders'[x], c, NeedsMap(c, x), NeedsMap(c, x)')
    BY <1>16, <2>1, <2>2 DEF Insert, Has, Gives, Follows, NeedsMap, TypeOK
  <2>5. \A x \in Conn \X Way :
          Follows(writers[x], writers'[x], c, NeedsStream(c, x), NeedsStream(c, x)')
    <3>1. CASE conns[c].kind = "tcp"
      <4>1. writers' = [writers EXCEPT ![<<c, "down">>] = Append(@, c)]
        BY <1>16, <3>1 DEF Insert, Awaits, Asks
      <4>2. PICK y \in Conn \X Way : y = <<c, "down">>
        BY StreamsOfConn
      <4>3. /\ writers'[y] = Append(writers[y], c)
            /\ \A x \in Conn \X Way : x # y => writers'[x] = writers[x]
        BY <4>1, <4>2 DEF TypeOK
      <4> QED
        BY <2>2, <3>1, <4>1, <4>2, <4>3 DEF Follows, NeedsStream
    <3>2. CASE conns[c].kind # "tcp"
      <4>1. UNCHANGED writers
        BY <1>16, <3>2 DEF Insert, Awaits, Asks
      <4> QED
        BY <2>2, <3>2, <4>1 DEF Follows, NeedsStream
    <3> QED
      BY <3>1, <3>2
  <2> QED
    BY <2>3, <2>4, <2>5, ConnFollows
<1>17. ASSUME NEW c \in Conn, Read(c)
       PROVE  LocksMatch'
  <2>1. /\ handler[c].at = "read" /\ handler'[c].at = "push"
        /\ \A d \in Conn : d # c => handler'[d] = handler[d]
        /\ UNCHANGED <<op, conns>>
    BY <1>17 DEF Read, TypeOK, Handler, At, Reads
  <2>2. Moves(c)
    BY <2>1 DEF Moves
  <2>3. \A x \in Node \X Kind :
          Follows(holders[x], holders'[x], c, NeedsMap(c, x), NeedsMap(c, x)')
    BY <1>17, <2>1 DEF Read, Follows, NeedsMap
  <2>4. \A x \in Conn \X Way :
          Follows(writers[x], writers'[x], c, NeedsStream(c, x), NeedsStream(c, x)')
    <3>1. CASE conns[c].kind = "tcp"
      <4>1. /\ writers' = [writers EXCEPT ![<<c, "down">>] = Tail(@)]
            /\ writers[<<c, "down">>] # <<>> /\ Head(writers[<<c, "down">>]) = c
        BY <1>17, <3>1 DEF Read, Reads, Releases, Has, Gives
      <4>2. PICK y \in Conn \X Way : y = <<c, "down">>
        BY StreamsOfConn
      <4>3. /\ writers'[y] = Tail(writers[y])
            /\ \A x \in Conn \X Way : x # y => writers'[x] = writers[x]
        BY <4>1, <4>2 DEF TypeOK
      <4> QED
        BY <2>1, <3>1, <4>1, <4>2, <4>3 DEF Follows, NeedsStream
    <3>2. CASE conns[c].kind # "tcp"
      <4>1. UNCHANGED writers
        BY <1>17, <3>2 DEF Read, Reads, Releases, Has, Gives
      <4> QED
        BY <2>1, <3>2, <4>1 DEF Follows, NeedsStream
    <3> QED
      BY <3>1, <3>2
  <2> QED
    BY <2>2, <2>3, <2>4, ConnFollows
<1>18. ASSUME NEW c \in Conn, ReadFails(c)
       PROVE  LocksMatch'
  <2>1. /\ handler[c].at = "read" /\ handler'[c].at = "ended"
        /\ \A d \in Conn : d # c => handler'[d] = handler[d]
        /\ UNCHANGED <<op, conns>>
    BY <1>18 DEF ReadFails, TypeOK, Handler, At, Reads
  <2>2. Moves(c)
    BY <2>1 DEF Moves
  <2>3. \A x \in Node \X Kind :
          Follows(holders[x], holders'[x], c, NeedsMap(c, x), NeedsMap(c, x)')
    BY <1>18, <2>1 DEF ReadFails, Follows, NeedsMap
  <2>4. \A x \in Conn \X Way :
          Follows(writers[x], writers'[x], c, NeedsStream(c, x), NeedsStream(c, x)')
    <3>1. CASE conns[c].kind = "tcp"
      <4>1. /\ writers' = [writers EXCEPT ![<<c, "down">>] = Tail(@)]
            /\ writers[<<c, "down">>] # <<>> /\ Head(writers[<<c, "down">>]) = c
        BY <1>18, <3>1 DEF ReadFails, Reads, Releases, Has, Gives
      <4>2. PICK y \in Conn \X Way : y = <<c, "down">>
        BY StreamsOfConn
      <4>3. /\ writers'[y] = Tail(writers[y])
            /\ \A x \in Conn \X Way : x # y => writers'[x] = writers[x]
        BY <4>1, <4>2 DEF TypeOK
      <4> QED
        BY <2>1, <3>1, <4>1, <4>2, <4>3 DEF Follows, NeedsStream
    <3>2. CASE conns[c].kind # "tcp"
      <4>1. UNCHANGED writers
        BY <1>18, <3>2 DEF ReadFails, Reads, Releases, Has, Gives
      <4> QED
        BY <2>1, <3>2, <4>1 DEF Follows, NeedsStream
    <3> QED
      BY <3>1, <3>2
  <2> QED
    BY <2>2, <2>3, <2>4, ConnFollows
<1>19. ASSUME NEW c \in Conn, Push(c)
       PROVE  LocksMatch'
  <2>1. /\ handler[c].at = "push" /\ handler'[c].at = "read"
        /\ \A d \in Conn : d # c => handler'[d] = handler[d]
        /\ UNCHANGED <<op, conns>>
    BY <1>19 DEF Push, TypeOK, Handler
  <2>2. Moves(c)
    BY <2>1 DEF Moves
  <2>3. \A x \in Node \X Kind :
          Follows(holders[x], holders'[x], c, NeedsMap(c, x), NeedsMap(c, x)')
    BY <1>19, <2>1 DEF Push, Follows, NeedsMap
  <2>4. \A x \in Conn \X Way :
          Follows(writers[x], writers'[x], c, NeedsStream(c, x), NeedsStream(c, x)')
    <3>1. CASE conns[c].kind = "tcp"
      <4>1. writers' = [writers EXCEPT ![<<c, "down">>] = Append(@, c)]
        BY <1>19, <3>1 DEF Push, Asks
      <4>2. PICK y \in Conn \X Way : y = <<c, "down">>
        BY StreamsOfConn
      <4>3. /\ writers'[y] = Append(writers[y], c)
            /\ \A x \in Conn \X Way : x # y => writers'[x] = writers[x]
        BY <4>1, <4>2 DEF TypeOK
      <4> QED
        BY <2>1, <3>1, <4>1, <4>2, <4>3 DEF Follows, NeedsStream
    <3>2. CASE conns[c].kind # "tcp"
      <4>1. UNCHANGED writers
        BY <1>19, <3>2 DEF Push, Asks
      <4> QED
        BY <2>1, <3>2, <4>1 DEF Follows, NeedsStream
    <3> QED
      BY <3>1, <3>2
  <2> QED
    BY <2>2, <2>3, <2>4, ConnFollows
<1>20. ASSUME NEW c \in Conn, NEW w \in Way, Writer(<<c, w>>)
       PROVE  LocksMatch'
  <2>1. UNCHANGED <<op, handler, holders, writers>>
    BY <1>20 DEF Writer
  <2> QED
    BY <2>1, LocksStay
<1>21. ASSUME NEW c \in Conn, NEW w \in Way, WriterEnds(<<c, w>>)
       PROVE  LocksMatch'
  <2>1. UNCHANGED <<op, handler, holders, writers>>
    BY <1>21 DEF WriterEnds
  <2> QED
    BY <2>1, LocksStay
<1>22. ASSUME NEW n \in Node, Receive(n)
       PROVE  LocksMatch'
  <2>1. multi[n] \in Seq(Letter) /\ multi[n] # <<>> /\ n \in Task
    BY <1>22 DEF Receive, TypeOK, Task
  <2> DEFINE r == Head(multi[n])
  <2>2. r \in Letter /\ r = multi[n][1] /\ 1 \in DOMAIN multi[n]
    BY <2>1, TailFacts, LenProperties
  <2>3. conns[r.from] \in Link
    BY <2>2 DEF LettersMatch, TypeOK, Letter
  <2>4. CASE r.msg.type = "ask"
    <3>1. PICK x \in Node \X Kind : x = <<n, conns[r.from].kind>>
      BY <2>3 DEF Link
    <3>2. /\ Sends(n, [kind |-> conns[r.from].kind, home |-> n, to |-> r.from, msg |-> Answer(r.msg)])
          /\ UNCHANGED <<handler, writers>>
      BY <1>22, <2>4 DEF Receive
    <3>3. op[n].at = "idle" /\ holders' = [holders EXCEPT ![x] = Append(@, n)]
      BY <3>1, <3>2 DEF Sends, Asks
    <3>4. op' = [op EXCEPT ![n] = [at |-> "pool", kind |-> conns[r.from].kind, home |-> n,
                                  to |-> r.from, msg |-> Answer(r.msg), conn |-> None]]
      BY <3>2 DEF Sends
    <3>5. /\ op'[n].at = "pool" /\ Pool(n)' = x
          /\ \A u \in Task : u # n => op'[u] = op[u]
      BY <2>1, <3>1, <3>4 DEF Pool, TypeOK
    <3>6. Moves(n)
      BY <3>5, <3>2 DEF Moves
    <3>7. ASSUME NEW y \in Node \X Kind
          PROVE  Follows(holders[y], holders'[y], n, WantsMap(n, y), WantsMap(n, y)')
      <4>1. ~WantsMap(n, y) /\ (WantsMap(n, y)' <=> y = x)
        BY <3>5, <3>3 DEF WantsMap
      <4>2. holders'[y] = IF y = x THEN Append(holders[y], n) ELSE holders[y]
        BY <3>3 DEF TypeOK
      <4> QED
        BY <4>1, <4>2 DEF Follows
    <3>8. ASSUME NEW y \in Conn \X Way
          PROVE  Follows(writers[y], writers'[y], n, WantsStream(n, y), WantsStream(n, y)')
      <4>1. ~WantsStream(n, y) /\ ~WantsStream(n, y)' /\ writers'[y] = writers[y]
        BY <3>5, <3>2, <3>3 DEF WantsStream
      <4> QED
        BY <4>1 DEF Follows
    <3>9. op'[n].at # "upgrade" /\ op'[n].at # "body"
      BY <3>5
    <3> QED
      BY <2>1, <3>6, <3>7, <3>8, <3>9, TaskFollows
  <2>5. CASE r.msg.type # "ask"
    <3>1. UNCHANGED <<op, handler, holders, writers>>
      BY <1>22, <2>5 DEF Receive
    <3> QED
      BY <3>1, LocksStay
  <2> QED
    BY <2>4, <2>5
<1>23. ASSUME NEW n \in Node, NEW k \in Kind, Forward(n, k)
       PROVE  LocksMatch'
  <2>1. UNCHANGED <<op, handler, holders, writers>>
    BY <1>23 DEF Forward
  <2> QED
    BY <2>1, LocksStay
<1>24. ASSUME NEW c \in Conn, Fail(c)
       PROVE  LocksMatch'
  <2>1. UNCHANGED <<op, handler, holders, writers>>
    BY <1>24 DEF Fail
  <2> QED
    BY <2>1, LocksStay
<1>25. CASE UNCHANGED vars
  <2>1. UNCHANGED <<op, handler, holders, writers>>
    BY <1>25 DEF vars
  <2> QED
    BY <2>1, LocksStay
<1> QED
  BY <1>1, <1>2, <1>3, <1>4, <1>5, <1>6, <1>7, <1>8, <1>9, <1>10, <1>11, <1>12,
     <1>13, <1>14, <1>15, <1>16, <1>17, <1>18, <1>19, <1>20, <1>21, <1>22,
     <1>23, <1>24, <1>25
     DEF Next, Step, SendStep, ConnStep

-----------------------------------------------------------------------------
(* Frames *)

LEMMA Halves ==
  ASSUME NEW n \in Nat
  PROVE  /\ n % 2 \in {0, 1} /\ n \div 2 \in Nat
         /\ (n + 1) % 2 = 1 - (n % 2)
         /\ (n + 2) % 2 = n % 2 /\ (n + 2) \div 2 = n \div 2 + 1
         /\ n % 2 = 0 => (n + 1) \div 2 = n \div 2 /\ n = 2 * (n \div 2)
         /\ n % 2 = 1 => (n + 1) \div 2 = n \div 2 + 1 /\ n + 1 = 2 * (n \div 2 + 1)
BY SMT

LEMMA Evens ==
  ASSUME NEW n \in Nat
  PROVE  /\ \A i \in 1 .. n : i % 2 \in {0, 1} /\ (i % 2 # 1 => i - 1 \in 1 .. n)
         /\ \A i \in 1 .. n \div 2 : 2 * i \in 1 .. n
BY SMT

LEMMA LastItem ==
  ASSUME NEW s \in Seq(Item)
  PROVE  /\ Len(s) \in Nat /\ DOMAIN s = 1 .. Len(s)
         /\ \A i \in 1 .. Len(s) : s[i] \in Item
         /\ s = <<>> <=> Len(s) = 0
         /\ ~Incomplete(s) /\ s # <<>> => s[Len(s)].part = "body"
<1>1. Len(s) \in Nat /\ DOMAIN s = 1 .. Len(s) /\ (s = <<>> <=> Len(s) = 0)
  BY LenProperties, EmptySeq
<1>2. \A i \in 1 .. Len(s) : s[i] \in Item
  BY ElementOfSeq
<1>3. s # <<>> => s[Len(s)] \in Item
  BY <1>1, <1>2
<1> QED
  BY <1>1, <1>2, <1>3 DEF Incomplete, Item

\* Frames are complete on a wire of even length.
LEMMA Complete ==
  ASSUME NEW s \in Seq(Item), Alternates(s)
  PROVE  Incomplete(s) <=> Len(s) % 2 = 1
<1>1. Len(s) \in Nat /\ DOMAIN s = 1 .. Len(s) /\ (s = <<>> <=> Len(s) = 0)
  BY LastItem
<1>2. CASE Len(s) = 0
  BY <1>1, <1>2, Halves DEF Incomplete
<1>3. CASE Len(s) # 0
  <2>1. Len(s) \in 1 .. Len(s)
    BY <1>1, <1>3
  <2>2. IF Len(s) % 2 = 1 THEN s[Len(s)].part = "header" ELSE s[Len(s)].part = "body"
    BY <1>1, <2>1 DEF Alternates
  <2> QED
    BY <1>1, <1>3, <2>2 DEF Incomplete
<1> QED
  BY <1>2, <1>3

\* One more item on a wire.
LEMMA OneMore ==
  ASSUME NEW s \in Seq(Item), NEW e \in Item
  PROVE  /\ s \o <<e>> \in Seq(Item) /\ Len(s \o <<e>>) = Len(s) + 1
         /\ DOMAIN (s \o <<e>>) = 1 .. Len(s) + 1
         /\ \A i \in 1 .. Len(s) : (s \o <<e>>)[i] = s[i]
         /\ (s \o <<e>>)[Len(s) + 1] = e
<1>1. <<e>> \in Seq(Item) /\ Len(<<e>>) = 1 /\ <<e>>[1] = e
  OBVIOUS
<1>2. Len(s) \in Nat
  BY LastItem
<1>3. /\ s \o <<e>> \in Seq(Item) /\ Len(s \o <<e>>) = Len(s) + 1
      /\ \A i \in 1 .. Len(s) + 1 :
           (s \o <<e>>)[i] = IF i <= Len(s) THEN s[i] ELSE <<e>>[i - Len(s)]
  BY <1>1, ConcatProperties
<1>4. DOMAIN (s \o <<e>>) = 1 .. Len(s) + 1
  BY <1>3, LenProperties
<1>5. (s \o <<e>>)[Len(s) + 1] = e
  <2>1. Len(s) + 1 \in 1 .. Len(s) + 1 /\ ~(Len(s) + 1 <= Len(s)) /\ Len(s) + 1 - Len(s) = 1
    BY <1>2
  <2> QED
    BY <1>1, <1>3, <2>1
<1>6. \A i \in 1 .. Len(s) : (s \o <<e>>)[i] = s[i]
  BY <1>2, <1>3
<1> QED
  BY <1>3, <1>4, <1>5, <1>6

\* A header after whole frames,
LEMMA HeaderFits ==
  ASSUME NEW s \in Seq(Item), NEW m \in Message, Alternates(s), ~Incomplete(s)
  PROVE  LET r == s \o <<Header(m)>>
         IN Alternates(r) /\ r # <<>> /\ r[Len(r)] = Header(m)
<1> DEFINE r == s \o <<Header(m)>>
           l == Len(s)
<1>1. l \in Nat /\ DOMAIN s = 1 .. l /\ l % 2 = 0
  BY LastItem, Complete, Halves
<1>2. /\ r \in Seq(Item) /\ Len(r) = l + 1 /\ DOMAIN r = 1 .. l + 1
      /\ \A i \in 1 .. l : r[i] = s[i]
      /\ r[l + 1] = Header(m)
  BY FrameType, OneMore
<1>3. \A i \in 1 .. l :
        IF i % 2 = 1 THEN s[i].part = "header" ELSE s[i].part = "body" /\ s[i].msg = s[i - 1].msg
  BY <1>1 DEF Alternates
<1> HIDE DEF r, l
<1>4. r # <<>>
  BY <1>1, <1>2, LastItem
<1>5. ASSUME NEW i \in 1 .. l + 1
      PROVE  IF i % 2 = 1 THEN r[i].part = "header" ELSE r[i].part = "body" /\ r[i].msg = r[i - 1].msg
  <2>1. CASE i \in 1 .. l
    BY <1>1, <1>2, <1>3, <2>1, Evens
  <2>2. CASE i = l + 1
    <3>1. i % 2 = 1 /\ Header(m).part = "header"
      BY <1>1, <2>2, Halves DEF Header
    <3> QED
      BY <1>2, <2>2, <3>1
  <2> QED
    BY <1>1, <2>1, <2>2
<1> QED
  BY <1>2, <1>4, <1>5 DEF Alternates, r, l

\* a body after its header,
LEMMA BodyFits ==
  ASSUME NEW s \in Seq(Item), NEW m \in Message, Alternates(s), s # <<>>, s[Len(s)] = Header(m)
  PROVE  LET r == s \o <<Body(m)>>
         IN Alternates(r) /\ ~Incomplete(r)
<1> DEFINE r == s \o <<Body(m)>>
           l == Len(s)
<1>1. /\ Header(m).part = "header" /\ Header(m).msg = m
      /\ Body(m).part = "body" /\ Body(m).msg = m
  BY DEF Header, Body
<1>2. l \in Nat \ {0} /\ DOMAIN s = 1 .. l /\ l % 2 = 1 /\ s[l] = Header(m)
  BY <1>1, LastItem, Complete DEF Incomplete
<1>3. /\ r \in Seq(Item) /\ Len(r) = l + 1 /\ DOMAIN r = 1 .. l + 1
      /\ \A i \in 1 .. l : r[i] = s[i]
      /\ r[l + 1] = Body(m)
  BY FrameType, OneMore
<1>4. \A i \in 1 .. l :
        IF i % 2 = 1 THEN s[i].part = "header" ELSE s[i].part = "body" /\ s[i].msg = s[i - 1].msg
  BY <1>2 DEF Alternates
<1> HIDE DEF r, l
<1>5. ASSUME NEW i \in 1 .. l + 1
      PROVE  IF i % 2 = 1 THEN r[i].part = "header" ELSE r[i].part = "body" /\ r[i].msg = r[i - 1].msg
  <2>1. CASE i \in 1 .. l
    BY <1>2, <1>3, <1>4, <2>1, Evens
  <2>2. CASE i = l + 1
    <3>1. i % 2 # 1
      BY <1>2, <2>2, Halves
    <3>2. l \in 1 .. l /\ i - 1 = l
      BY <1>2, <2>2
    <3>3. r[i] = Body(m) /\ r[i - 1] = Header(m)
      BY <1>2, <1>3, <2>2, <3>2
    <3> QED
      BY <1>1, <3>1, <3>3
  <2> QED
    BY <1>2, <2>1, <2>2
<1>6. ~Incomplete(r)
  BY <1>1, <1>3 DEF Incomplete
<1> QED
  BY <1>3, <1>5, <1>6 DEF Alternates, r, l

\* and a whole frame after whole frames keep them so.
LEMMA FrameFits ==
  ASSUME NEW s \in Seq(Item), NEW m \in Message, Alternates(s), ~Incomplete(s)
  PROVE  LET r == s \o <<Header(m), Body(m)>>
         IN Alternates(r) /\ ~Incomplete(r)
<1> DEFINE h == s \o <<Header(m)>>
<1>1. h \in Seq(Item) /\ Alternates(h) /\ h # <<>> /\ h[Len(h)] = Header(m)
  BY FrameType, HeaderFits, ConcatProperties
<1>2. <<Header(m), Body(m)>> = <<Header(m)>> \o <<Body(m)>>
  OBVIOUS
<1>3. s \o <<Header(m), Body(m)>> = h \o <<Body(m)>>
  BY <1>2, FrameType, ConcatAssociative
<1> HIDE DEF h
<1> QED
  BY <1>1, <1>3, BodyFits

\* What is left when a frame has been read.
LEMMA FrameLeaves ==
  ASSUME NEW s \in Seq(Item), Alternates(s), Framed(s)
  PROVE  LET r == SubSeq(s, 3, Len(s))
         IN /\ Alternates(r)
            /\ r # <<>> => r[Len(r)] = s[Len(s)]
            /\ r = <<>> => s[Len(s)].part = "body"
<1> DEFINE l == Len(s)
           r == SubSeq(s, 3, l)
<1>1. l \in Nat /\ l >= 2 /\ DOMAIN s = 1 .. l
  BY LastItem DEF Framed
<1>2. /\ r \in Seq(Item) /\ Len(r) = l - 2
      /\ \A i \in 1 .. l - 2 : r[i] = s[i + 2]
  BY <1>1, ReadFacts
<1>3. DOMAIN r = 1 .. l - 2 /\ (r = <<>> <=> l = 2)
  <2> HIDE DEF r, l
  <2> QED
    BY <1>1, <1>2, LastItem
<1>4. s[2].part = "body"
  BY DEF Framed, Body
<1>5. \A i \in 1 .. l :
        IF i % 2 = 1 THEN s[i].part = "header" ELSE s[i].part = "body" /\ s[i].msg = s[i - 1].msg
  BY <1>1 DEF Alternates
<1> HIDE DEF r, l
<1>6. ASSUME NEW i \in 1 .. l - 2
      PROVE  IF i % 2 = 1 THEN r[i].part = "header" ELSE r[i].part = "body" /\ r[i].msg = r[i - 1].msg
  <2>1. i + 2 \in 1 .. l /\ r[i] = s[i + 2] /\ i \in Nat
    BY <1>1, <1>2
  <2>2. (i + 2) % 2 = i % 2
    BY <2>1, Halves
  <2>3. CASE i % 2 = 1
    BY <1>5, <2>1, <2>2, <2>3
  <2>4. CASE i % 2 # 1
    <3>1. l - 2 \in Nat
      BY <1>1
    <3>2. i - 1 \in 1 .. l - 2 /\ i - 1 + 2 = i + 2 - 1
      BY <2>4, <3>1, Evens
    <3>3. r[i - 1] = s[i + 2 - 1]
      BY <1>2, <3>2
    <3> QED
      BY <1>5, <2>1, <2>2, <2>4, <3>3
  <2> QED
    BY <2>3, <2>4
<1>7. r # <<>> => r[Len(r)] = s[l]
  <2> SUFFICES ASSUME r # <<>> PROVE r[Len(r)] = s[l]
    OBVIOUS
  <2>1. l - 2 \in 1 .. l - 2 /\ l - 2 + 2 = l
    BY <1>1, <1>3
  <2> QED
    BY <1>2, <2>1
<1>8. r = <<>> => s[l].part = "body"
  BY <1>3, <1>4
<1> QED
  BY <1>2, <1>3, <1>6, <1>7, <1>8 DEF Alternates, r, l

\* A task half way through a frame keeps its stream, which is a TCP one and
\* which it alone has.
LEMMA HalfWay ==
  ASSUME StreamsInv, [Next]_vars, NEW t \in Task, op[t].at = "body"
  PROVE  /\ Stream(t) \in Conn \X Way
         /\ conns[Stream(t)[1]] # None /\ conns[Stream(t)[1]].kind = "tcp"
         /\ Has(writers, Stream(t), t)
         /\ op'[t] = op[t] => Stream(t)' = Stream(t)
<1>1. Stream(t) \in Conn \X Way /\ Has(writers, Stream(t), t)
  BY TaskAtWork DEF StreamsInv, LocksMatch
<1>2. /\ op[t].conn \in Conn /\ conns[op[t].conn] # None /\ conns[op[t].conn].kind = "tcp"
  BY DEF StreamsInv, SendersMatch, SenderMatches
<1>3. Stream(t)[1] = op[t].conn
  BY DEF Stream, StreamTo
<1>4. op'[t] = op[t] => Stream(t)' = Stream(t)
  BY <1>2, LinksStay DEF StreamsInv, Stream, StreamTo
<1> QED
  BY <1>1, <1>2, <1>3, <1>4

\* Frames stay whole where nothing is written or read and no sender gives up.
LEMMA FrameStays ==
  ASSUME StreamsInv, [Next]_vars, NEW x \in Conn \X Way, FrameIsWhole(x),
         wire'[x] = wire[x],
         \A t \in Task : Writes(t, x) /\ conns[x[1]].whole => op'[t] = op[t],
         \A t \in Task : Writes(t, x)' => op'[t] = op[t]
  PROVE  FrameIsWhole(x)'
<1>1. Alternates(wire[x])'
  BY DEF FrameIsWhole, Alternates
<1>2. ASSUME Incomplete(wire[x])'
      PROVE  conns'[x[1]] # None /\ (conns'[x[1]].whole => \E t \in Task : Writes(t, x)')
  <2>1. x[1] \in Conn /\ conns[x[1]] # None
    BY <1>2 DEF FrameIsWhole, Incomplete
  <2>2. conns'[x[1]] # None /\ (conns'[x[1]].whole => conns[x[1]].whole)
    BY <2>1, LinksStay DEF StreamsInv
  <2>3. ASSUME conns[x[1]].whole
        PROVE  \E t \in Task : Writes(t, x)'
    <3>1. PICK t \in Task : Writes(t, x)
      BY <1>2, <2>1, <2>3 DEF FrameIsWhole, Incomplete
    <3>2. op'[t] = op[t] /\ op[t].at = "body" /\ Stream(t) = x
      BY <2>3, <3>1 DEF Writes
    <3>3. Stream(t)' = x
      BY <3>2, HalfWay
    <3> QED
      BY <3>2, <3>3 DEF Writes
  <2> QED
    BY <2>2, <2>3
<1>3. ASSUME NEW t \in Task, Writes(t, x)'
      PROVE  wire'[x] # <<>> /\ wire'[x][Len(wire'[x])] = Header(op'[t].msg)
  <2>1. op'[t] = op[t] /\ op[t].at = "body"
    BY <1>3 DEF Writes
  <2>2. Writes(t, x)
    BY <1>3, <2>1, HalfWay DEF Writes
  <2> QED
    BY <2>1, <2>2 DEF FrameIsWhole
<1> QED
  BY <1>1, <1>2, <1>3 DEF FrameIsWhole

LEMMA FramesStay ==
  ASSUME StreamsInv, FramesAreWhole, [Next]_vars, UNCHANGED wire,
         \A t \in Task : op[t].at = "body" \/ op'[t].at = "body" => op'[t] = op[t]
  PROVE  FramesAreWhole'
BY FrameStays DEF FramesAreWhole, Writes

\* Frames stay whole, whoever writes, reads or fails.
LEMMA StepFrames ==
  ASSUME StreamsInv, FramesAreWhole,
         [Next]_vars
  PROVE  FramesAreWhole'
<1>1. ASSUME NEW t \in Sender, Begin(t)
      PROVE  FramesAreWhole'
  <2>1. /\ UNCHANGED wire /\ op[t].at # "body" /\ op'[t].at # "body"
        /\ \A u \in Task : u # t => op'[u] = op[u]
    BY <1>1 DEF Begin, Sends, Dials, Done, Stays, Idle, StreamsInv, TypeOK, Sending, Task
  <2> QED
    BY <2>1, FramesStay
<1>2. ASSUME NEW t \in Task, Found(t)
      PROVE  FramesAreWhole'
  <2>1. /\ UNCHANGED wire /\ op[t].at # "body"
        /\ \A u \in Task : u # t => op'[u] = op[u]
    BY <1>2 DEF Found, StreamsInv, TypeOK
  <2>2. op'[t].at \in {"stream", "queue"}
    BY <1>2 DEF Found, StreamsInv, TypeOK, Sending
  <2> QED
    BY <2>1, <2>2, FramesStay
<1>3. ASSUME NEW t \in Task, Upgraded(t)
      PROVE  FramesAreWhole'
  <2>1. /\ UNCHANGED wire /\ op[t].at # "body" /\ op'[t].at # "body"
        /\ \A u \in Task : u # t => op'[u] = op[u]
    BY <1>3 DEF Upgraded, Dials, Done, Stays, Idle, StreamsInv, TypeOK, Sending, Task
  <2> QED
    BY <2>1, FramesStay
<1>4. ASSUME NEW t \in Task, NotUpgraded(t)
      PROVE  FramesAreWhole'
  <2>1. /\ UNCHANGED wire /\ op[t].at # "body" /\ op'[t].at # "body"
        /\ \A u \in Task : u # t => op'[u] = op[u]
    BY <1>4 DEF NotUpgraded, Dials, Done, Stays, Idle, StreamsInv, TypeOK, Sending, Task
  <2> QED
    BY <2>1, FramesStay
<1>5. ASSUME NEW t \in Task, WriteHeader(t)
      PROVE  FramesAreWhole'
  <2>1. PICK x \in Conn \X Way, m \in Message : x = Stream(t) /\ m = op[t].msg
    BY <1>5, TaskAtWork DEF WriteHeader, StreamsInv
  <2>2. /\ x \in Conn \X Way /\ m \in Message
        /\ op[t].conn \in Conn /\ conns[op[t].conn] \in Link /\ x[1] = op[t].conn
        /\ Has(writers, x, t)
    BY <1>5, <2>1, TaskAtWork DEF WriteHeader, StreamsInv, Stream, StreamTo
  <2>3. \A u \in Task : u # t => ~Writes(u, x)
    BY <2>2, HalfWay DEF Has, Writes
  <2>4. ~Writes(t, x) /\ conns[x[1]].whole
    BY <1>5, <2>2, <2>1 DEF WriteHeader, Writes
  <2>5. Alternates(wire[x]) /\ ~Incomplete(wire[x]) /\ wire[x] \in Seq(Item)
    BY <2>2, <2>3, <2>4 DEF FramesAreWhole, FrameIsWhole, StreamsInv, TypeOK
  <2>6. /\ wire'[x] = wire[x] \o <<Header(m)>>
        /\ \A y \in Conn \X Way : y # x => wire'[y] = wire[y]
    BY <1>5, <2>2, <2>1, FrameType, WireType DEF WriteHeader, StreamsInv
  <2>7. /\ op'[t].at = "body" /\ op'[t].msg = m /\ op'[t].home = op[t].home
        /\ op'[t].conn = op[t].conn /\ UNCHANGED conns
        /\ \A u \in Task : u # t => op'[u] = op[u]
    BY <1>5, <2>1 DEF WriteHeader, Stays, StreamsInv, TypeOK, Sending
  <2>8. Writes(t, x)'
    BY <2>7, <2>1 DEF Writes, Stream, StreamTo
  <2>9. /\ Alternates(wire[x])' /\ wire'[x] # <<>>
        /\ wire'[x][Len(wire'[x])] = Header(m)
    BY <2>2, <2>5, <2>6, HeaderFits
  <2>10. ASSUME NEW u \in Task, Writes(u, x)'
         PROVE  u = t
    <3> SUFFICES ASSUME u # t PROVE FALSE
      OBVIOUS
    <3>1. op'[u] = op[u] /\ op[u].at = "body"
      BY <2>7, <2>10 DEF Writes
    <3>2. Stream(u)' = Stream(u)
      BY <3>1, HalfWay
    <3> QED
      BY <2>3, <2>10, <3>1, <3>2 DEF Writes
  <2>11. FrameIsWhole(x)'
    BY <2>2, <2>7, <2>8, <2>9, <2>10, NoneIsNoLink DEF FrameIsWhole
  <2>12. ASSUME NEW y \in Conn \X Way, y # x
         PROVE  FrameIsWhole(y)'
    <3>1. ~Writes(t, y) /\ ~Writes(t, y)'
      BY <1>5, <2>8, <2>12 DEF WriteHeader, Writes
    <3> QED
      BY <2>6, <2>7, <2>12, <3>1, FrameStays DEF FramesAreWhole
  <2> QED
    BY <2>11, <2>12 DEF FramesAreWhole
<1>6. ASSUME NEW t \in Task, WriteBody(t)
      PROVE  FramesAreWhole'
  <2>1. PICK x \in Conn \X Way, m \in Message : x = Stream(t) /\ m = op[t].msg
    BY <1>6, TaskAtWork DEF WriteBody, StreamsInv
  <2>2. /\ x \in Conn \X Way /\ m \in Message
        /\ Has(writers, x, t) /\ Writes(t, x)
    BY <1>6, <2>1, TaskAtWork, HalfWay DEF WriteBody, StreamsInv, Writes
  <2>3. \A u \in Task : u # t => ~Writes(u, x)
    BY <2>2, HalfWay DEF Has, Writes
  <2>4. /\ Alternates(wire[x]) /\ wire[x] # <<>> /\ wire[x] \in Seq(Item)
        /\ wire[x][Len(wire[x])] = Header(m)
    BY <2>2, <2>1 DEF FramesAreWhole, FrameIsWhole, StreamsInv, TypeOK
  <2>5. /\ wire'[x] = wire[x] \o <<Body(m)>>
        /\ \A y \in Conn \X Way : y # x => wire'[y] = wire[y]
    BY <1>6, <2>2, <2>1, FrameType, WireType DEF WriteBody, StreamsInv
  <2>6. op'[t].at = "idle" /\ \A u \in Task : u # t => op'[u] = op[u]
    BY <1>6 DEF WriteBody, Done, Idle, StreamsInv, TypeOK
  <2>7. Alternates(wire[x])' /\ ~Incomplete(wire[x])'
    BY <2>2, <2>4, <2>5, <2>1, BodyFits
  <2>8. ASSUME NEW u \in Task, Writes(u, x)'
        PROVE  FALSE
    <3>1. u # t /\ op'[u] = op[u] /\ op[u].at = "body"
      BY <2>6, <2>8 DEF Writes
    <3>2. Stream(u)' = Stream(u)
      BY <3>1, HalfWay
    <3> QED
      BY <2>3, <2>8, <3>1, <3>2 DEF Writes
  <2>9. FrameIsWhole(x)'
    BY <2>7, <2>8 DEF FrameIsWhole
  <2>10. ASSUME NEW y \in Conn \X Way, y # x
         PROVE  FrameIsWhole(y)'
    <3>1. ~Writes(t, y) /\ ~Writes(t, y)'
      BY <2>2, <2>6, <2>10 DEF Writes
    <3> QED
      BY <2>5, <2>6, <2>10, <3>1, FrameStays DEF FramesAreWhole
  <2> QED
    BY <2>9, <2>10 DEF FramesAreWhole
<1>7. ASSUME NEW t \in Task, WriteVanishes(t)
      PROVE  FramesAreWhole'
  <2>1. /\ op'[t].at = "idle" /\ UNCHANGED wire /\ ~conns[Stream(t)[1]].whole
        /\ \A u \in Task : u # t => op'[u] = op[u]
    BY <1>7 DEF WriteVanishes, Done, Idle, StreamsInv, TypeOK, Stream, StreamTo
  <2>2. ASSUME NEW y \in Conn \X Way
        PROVE  FrameIsWhole(y)'
    <3>1. /\ Writes(t, y) => ~conns[y[1]].whole
          /\ ~Writes(t, y)'
      BY <2>1 DEF Writes
    <3> QED
      BY <2>1, <3>1, FrameStays DEF FramesAreWhole
  <2> QED
    BY <2>2 DEF FramesAreWhole
<1>8. ASSUME NEW t \in Task, Enqueue(t)
      PROVE  FramesAreWhole'
  <2>1. /\ UNCHANGED wire /\ op[t].at # "body" /\ op'[t].at # "body"
        /\ \A u \in Task : u # t => op'[u] = op[u]
    BY <1>8 DEF Enqueue, Dials, Done, Stays, Idle, StreamsInv, TypeOK, Sending, Task
  <2> QED
    BY <2>1, FramesStay
<1>9. ASSUME NEW t \in Task, EnqueueFails(t)
      PROVE  FramesAreWhole'
  <2>1. /\ UNCHANGED wire /\ op[t].at # "body" /\ op'[t].at # "body"
        /\ \A u \in Task : u # t => op'[u] = op[u]
    BY <1>9 DEF EnqueueFails, Dials, Done, Stays, Idle, StreamsInv, TypeOK, Sending, Task
  <2> QED
    BY <2>1, FramesStay
<1>10. ASSUME NEW t \in Task, NEW c \in Conn, Connect(t, c)
       PROVE  FramesAreWhole'
  <2>1. /\ UNCHANGED wire /\ op[t].at # "body" /\ op'[t].at # "body"
        /\ \A u \in Task : u # t => op'[u] = op[u]
    BY <1>10 DEF Connect, Dials, Done, Stays, Idle, StreamsInv, TypeOK, Sending, Task
  <2> QED
    BY <2>1, FramesStay
<1>11. ASSUME NEW t \in Task, NEW c \in Conn, ConnectWs(t, c)
       PROVE  FramesAreWhole'
  <2>1. /\ UNCHANGED wire /\ op[t].at # "body" /\ op'[t].at # "body"
        /\ \A u \in Task : u # t => op'[u] = op[u]
    BY <1>11 DEF ConnectWs, Dials, Done, Stays, Idle, StreamsInv, TypeOK, Sending, Task
  <2> QED
    BY <2>1, FramesStay
<1>12. ASSUME NEW t \in Task, NotConnected(t)
       PROVE  FramesAreWhole'
  <2>1. /\ UNCHANGED wire /\ op[t].at # "body" /\ op'[t].at # "body"
        /\ \A u \in Task : u # t => op'[u] = op[u]
    BY <1>12 DEF NotConnected, Dials, Done, Stays, Idle, StreamsInv, TypeOK, Sending, Task
  <2> QED
    BY <2>1, FramesStay
<1>13. ASSUME NEW c \in Conn, Accept(c)
       PROVE  FramesAreWhole'
  <2>1. UNCHANGED <<wire, op>>
    BY <1>13 DEF Accept
  <2> QED
    BY <2>1, FramesStay
<1>14. ASSUME NEW c \in Conn, Upgrade(c)
       PROVE  FramesAreWhole'
  <2>1. UNCHANGED <<wire, op>>
    BY <1>14 DEF Upgrade
  <2> QED
    BY <2>1, FramesStay
<1>15. ASSUME NEW c \in Conn, UpgradeFails(c)
       PROVE  FramesAreWhole'
  <2>1. UNCHANGED <<wire, op>>
    BY <1>15 DEF UpgradeFails
  <2> QED
    BY <2>1, FramesStay
<1>16. ASSUME NEW c \in Conn, Insert(c)
       PROVE  FramesAreWhole'
  <2>1. UNCHANGED <<wire, op>>
    BY <1>16 DEF Insert
  <2> QED
    BY <2>1, FramesStay
<1>17. ASSUME NEW c \in Conn, Read(c)
       PROVE  FramesAreWhole'
  <2>1. PICK x \in Conn \X Way : x = <<c, "up">>
    BY StreamsOfConn
  <2> DEFINE s == wire[x]
             r == SubSeq(s, 3, Len(s))
  <2>2. /\ s \in Seq(Item) /\ Framed(s) /\ UNCHANGED <<op, conns>>
        /\ wire'[x] = r
        /\ \A y \in Conn \X Way : y # x => wire'[y] = wire[y]
    BY <1>17, <2>1 DEF Read, StreamsInv, TypeOK
  <2>3. FrameIsWhole(x)
    BY DEF FramesAreWhole
  <2>4. /\ Alternates(r)
        /\ r # <<>> => r[Len(r)] = s[Len(s)]
        /\ r = <<>> => s[Len(s)].part = "body"
    BY <2>2, <2>3, FrameLeaves DEF FrameIsWhole
  <2>5. s # <<>>
    BY <2>2, LastItem DEF Framed
  <2> HIDE DEF s, r
  <2>6. Incomplete(r) => Incomplete(s)
    BY <2>4, <2>5 DEF Incomplete
  <2>7. Alternates(wire[x])' /\ (Incomplete(wire[x])' => Incomplete(wire[x]))
    BY <2>2, <2>4, <2>6 DEF Alternates, Incomplete, s
  <2>8. \A u \in Task : Writes(u, x)' <=> Writes(u, x)
    BY <2>2 DEF Writes, Stream, StreamTo
  <2>9. ASSUME NEW u \in Task, Writes(u, x)
        PROVE  wire'[x] # <<>> /\ wire'[x][Len(wire'[x])] = Header(op'[u].msg)
    <3>1. s[Len(s)] = Header(op[u].msg)
      BY <2>3, <2>9 DEF FrameIsWhole, s
    <3>2. s[Len(s)].part = "header"
      BY <3>1 DEF Header
    <3> QED
      BY <2>2, <2>4, <3>1, <3>2
  <2>10. FrameIsWhole(x)'
    BY <2>2, <2>3, <2>7, <2>8, <2>9 DEF FrameIsWhole
  <2>11. ASSUME NEW y \in Conn \X Way, y # x
         PROVE  FrameIsWhole(y)'
    BY <2>2, <2>11, FrameStays DEF FramesAreWhole
  <2> QED
    BY <2>10, <2>11 DEF FramesAreWhole
<1>18. ASSUME NEW c \in Conn, ReadFails(c)
       PROVE  FramesAreWhole'
  <2>1. UNCHANGED <<wire, op>>
    BY <1>18 DEF ReadFails
  <2> QED
    BY <2>1, FramesStay
<1>19. ASSUME NEW c \in Conn, Push(c)
       PROVE  FramesAreWhole'
  <2>1. UNCHANGED <<wire, op>>
    BY <1>19 DEF Push
  <2> QED
    BY <2>1, FramesStay
<1>20. ASSUME NEW c \in Conn, NEW w \in Way, Writer(<<c, w>>)
       PROVE  FramesAreWhole'
  <2> DEFINE x == <<c, w>>
  <2>1. /\ x \in Conn \X Way /\ queue[x].q \in Seq(Message) /\ queue[x].q # <<>>
        /\ conns[x[1]].whole /\ UNCHANGED <<op, conns>>
    BY <1>20 DEF Writer, StreamsInv, TypeOK
  <2>2. PICK m \in Message : m = Head(queue[x].q)
    BY <2>1, TailFacts
  <2>3. conns[c].kind = "ws"
    BY <2>1 DEF StreamsInv, QueuesMatch
  <2>4. \A u \in Task : ~Writes(u, x)
    BY <2>3, HalfWay DEF Writes
  <2>5. Alternates(wire[x]) /\ ~Incomplete(wire[x]) /\ wire[x] \in Seq(Item)
    BY <2>1, <2>4 DEF FramesAreWhole, FrameIsWhole, StreamsInv, TypeOK
  <2>6. /\ wire'[x] = wire[x] \o <<Header(m), Body(m)>>
        /\ \A y \in Conn \X Way : y # x => wire'[y] = wire[y]
    BY <1>20, <2>1, <2>2, FrameType, WireType DEF Writer, StreamsInv
  <2>7. Alternates(wire[x])' /\ ~Incomplete(wire[x])'
    BY <2>2, <2>5, <2>6, FrameFits
  <2>8. FrameIsWhole(x)'
    BY <2>1, <2>4, <2>7 DEF FrameIsWhole, Writes, Stream, StreamTo
  <2>9. ASSUME NEW y \in Conn \X Way, y # x
        PROVE  FrameIsWhole(y)'
    BY <2>1, <2>6, <2>9, FrameStays DEF FramesAreWhole
  <2> QED
    BY <2>8, <2>9 DEF FramesAreWhole
<1>21. ASSUME NEW c \in Conn, NEW w \in Way, WriterEnds(<<c, w>>)
       PROVE  FramesAreWhole'
  <2>1. UNCHANGED <<wire, op>>
    BY <1>21 DEF WriterEnds
  <2> QED
    BY <2>1, FramesStay
<1>22. ASSUME NEW n \in Node, Receive(n)
       PROVE  FramesAreWhole'
  <2>1. UNCHANGED wire /\ op[n].at = "idle" /\ n \in Task
    BY <1>22 DEF Receive, Task
  <2>2. /\ \A u \in Task : u # n => op'[u] = op[u]
        /\ op'[n] = op[n] \/ op'[n].at = "pool"
    BY <1>22, <2>1 DEF Receive, Sends, StreamsInv, TypeOK
  <2> QED
    BY <2>1, <2>2, FramesStay
<1>23. ASSUME NEW n \in Node, NEW k \in Kind, Forward(n, k)
       PROVE  FramesAreWhole'
  <2>1. UNCHANGED <<wire, op>>
    BY <1>23 DEF Forward
  <2> QED
    BY <2>1, FramesStay
<1>24. ASSUME NEW c \in Conn, Fail(c)
       PROVE  FramesAreWhole'
  <2>1. UNCHANGED <<wire, op>>
    BY <1>24 DEF Fail
  <2> QED
    BY <2>1, FramesStay
<1>25. CASE UNCHANGED vars
  <2>1. UNCHANGED <<wire, op>>
    BY <1>25 DEF vars
  <2> QED
    BY <2>1, FramesStay
<1> QED
  BY <1>1, <1>2, <1>3, <1>4, <1>5, <1>6, <1>7, <1>8, <1>9, <1>10, <1>11, <1>12,
     <1>13, <1>14, <1>15, <1>16, <1>17, <1>18, <1>19, <1>20, <1>21, <1>22,
     <1>23, <1>24, <1>25
     DEF Next, Step, SendStep, ConnStep

-----------------------------------------------------------------------------
(* What readers find *)

LEMMA NeverGarbled ==
  ASSUME NEW s \in Seq(Item), Alternates(s)
  PROVE  ~Garbled(s)
<1> SUFFICES ASSUME s # <<>> PROVE s[1].part # "body" /\ (Len(s) >= 2 => Framed(s))
  BY DEF Garbled
<1>1. /\ Len(s) \in Nat \ {0} /\ DOMAIN s = 1 .. Len(s)
      /\ \A i \in 1 .. Len(s) : s[i] \in Item
  BY LastItem
<1>2. 1 % 2 = 1 /\ 2 % 2 # 1
  BY SMT
<1>3. s[1].part = "header"
  BY <1>1, <1>2 DEF Alternates
<1>4. ASSUME Len(s) >= 2
      PROVE  Framed(s)
  <2>1. 2 \in 1 .. Len(s) /\ 2 - 1 = 1
    BY <1>1, <1>4
  <2>2. s[2].part = "body" /\ s[2].msg = s[1].msg /\ s[2] \in Item
    BY <1>1, <1>2, <2>1 DEF Alternates
  <2>3. s[2] = Body(s[1].msg)
    BY <2>2 DEF Item, Body
  <2> QED
    BY <1>3, <1>4, <2>3 DEF Framed
<1> QED
  BY <1>3, <1>4

\* A reader that goes on to its end has seen its connection fail.
LEMMA EndedStays ==
  ASSUME StreamsInv, EndedHasFailed, [Next]_vars,
         \A c \in Conn : handler'[c].at = "ended" =>
            handler[c].at = "ended" \/ (conns[c] # None /\ ~conns[c].whole)
  PROVE  EndedHasFailed'
<1> SUFFICES ASSUME NEW c \in Conn, handler'[c].at = "ended"
             PROVE  conns'[c] # None /\ ~conns'[c].whole
  BY DEF EndedHasFailed
<1>1. conns[c] # None /\ ~conns[c].whole
  BY DEF EndedHasFailed
<1> QED
  BY <1>1, LinksStay DEF StreamsInv

LEMMA StepEnded ==
  ASSUME StreamsInv, FramesAreWhole, EndedHasFailed, [Next]_vars
  PROVE  EndedHasFailed'
<1>1. /\ handler \in [Conn -> Handler]
      /\ \A c \in Conn : handler[c].at # "none" => conns[c] # None
  BY DEF StreamsInv, TypeOK, HandlersMatch
<1>2. CASE UNCHANGED handler
  BY <1>2, EndedStays
<1>3. ASSUME NEW t \in Task, NEW c \in Conn, Dials(t, c)
      PROVE  EndedHasFailed'
  <2>1. \A d \in Conn : handler'[d].at = "ended" => handler[d].at = "ended"
    BY <1>1, <1>3 DEF Dials, Handler
  <2> QED
    BY <2>1, EndedStays
<1>4. ASSUME NEW c \in Conn, NEW at \in {"insert", "read"}, At(c, at)
      PROVE  EndedHasFailed'
  <2>1. \A d \in Conn : handler'[d].at = "ended" => handler[d].at = "ended"
    BY <1>1, <1>4 DEF At, Handler
  <2> QED
    BY <2>1, EndedStays
<1>5. ASSUME NEW c \in Conn, NEW m, NEW at \in {"read", "push"},
             handler' = [handler EXCEPT ![c] = [at |-> at, msg |-> m]]
      PROVE  EndedHasFailed'
  <2>1. \A d \in Conn : handler'[d].at = "ended" => handler[d].at = "ended"
    BY <1>1, <1>5
  <2> QED
    BY <2>1, EndedStays
<1>6. ASSUME NEW c \in Conn, At(c, "ended"), handler[c].at # "none", ~conns[c].whole
      PROVE  EndedHasFailed'
  <2>1. \A d \in Conn : handler'[d].at = "ended" => handler[d].at = "ended" \/ d = c
    BY <1>1, <1>6 DEF At
  <2> QED
    BY <1>1, <1>6, <2>1, EndedStays
<1>7. ASSUME NEW c \in Conn, ReadFails(c)
      PROVE  EndedHasFailed'
  <2>1. <<c, "up">> \in Conn \X Way
    BY StreamsOfConn
  <2>2. PICK s \in Seq(Item) : s = wire[<<c, "up">>] /\ Alternates(s)
    <3>1. wire[<<c, "up">>] \in Seq(Item)
      BY <2>1 DEF StreamsInv, TypeOK
    <3>2. Alternates(wire[<<c, "up">>])
      BY <2>1 DEF FramesAreWhole, FrameIsWhole
    <3> QED
      BY <3>1, <3>2
  <2>3. ~Garbled(wire[<<c, "up">>])
    BY <2>2, NeverGarbled
  <2>4. ~conns[c].whole /\ handler[c].at # "none" /\ At(c, "ended")
    BY <1>7, <2>3 DEF ReadFails, Reads
  <2> QED
    BY <1>6, <2>4
<1>8. ASSUME NEW t \in Task, SendStep(t) \/ NotConnected(t)
      PROVE  EndedHasFailed'
  <2>1. UNCHANGED handler \/ \E c \in Conn : Dials(t, c)
    BY <1>8 DEF SendStep, Found, Upgraded, NotUpgraded, WriteHeader, WriteBody, WriteVanishes,
                Enqueue, EnqueueFails, Connect, ConnectWs, NotConnected
  <2> QED
    BY <1>2, <1>3, <2>1
<1>9. ASSUME NEW c \in Conn, ConnStep(c)
      PROVE  EndedHasFailed'
  <2>1. CASE Accept(c) \/ Upgrade(c) \/ Insert(c)
    <3>1. Accept(c) \/ Upgrade(c) => At(c, "insert")
      BY DEF Accept, Upgrade
    <3>2. Insert(c) => At(c, "read")
      BY DEF Insert, Awaits
    <3> QED
      BY <1>4, <2>1, <3>1, <3>2
  <2>2. CASE UpgradeFails(c)
    BY <1>6, <2>2 DEF UpgradeFails
  <2>3. CASE Read(c)
    BY <1>5, <2>3 DEF Read
  <2>4. CASE Push(c)
    BY <1>5, <2>4 DEF Push
  <2>5. CASE ReadFails(c)
    BY <1>7, <2>5
  <2>6. CASE \E w \in Way : Writer(<<c, w>>) \/ WriterEnds(<<c, w>>)
    <3>1. UNCHANGED handler
      BY <2>6 DEF Writer, WriterEnds
    <3> QED
      BY <1>2, <3>1
  <2> QED
    BY <1>9, <2>1, <2>2, <2>3, <2>4, <2>5, <2>6 DEF ConnStep
<1>10. (\E t \in Sender : Begin(t)) \/ (\E c \in Conn : Fail(c)) \/ UNCHANGED vars
         => UNCHANGED handler
  BY DEF Begin, Fail, vars
<1>11. (\E n \in Node : Receive(n) \/ \E k \in Kind : Forward(n, k)) => UNCHANGED handler
  BY DEF Receive, Forward
<1> QED
  BY <1>2, <1>8, <1>9, <1>10, <1>11 DEF Next, Step

-----------------------------------------------------------------------------
(* The streams, as OrderedStreams has them *)

Ends == [x \in Conn \X Way |-> End(x[1], x[2])]
Flights == [x \in Conn \X Way |-> Flight(x[1], x[2])]
Arrivals == [x \in Node \X Kind |-> Arrived(rx[x])]
Inboxes == [n \in Node |-> Arrived(multi[n])]
Failures == {x \in Conn \X Way : Broken(x[1])}

\* What comes first of a sequence put in front.
LEMMA HeadOfConcat ==
  ASSUME NEW S, NEW s \in Seq(S), NEW e \in S
  PROVE  /\ <<e>> \o s # <<>> /\ <<e>> \o s \in Seq(S)
         /\ Head(<<e>> \o s) = e /\ Tail(<<e>> \o s) = s
<1>1. <<e>> \in Seq(S) /\ Len(<<e>>) = 1 /\ <<e>>[1] = e /\ Len(s) \in Nat
  BY LenProperties
<1> DEFINE r == <<e>> \o s
<1>2. /\ r \in Seq(S) /\ Len(r) = 1 + Len(s)
      /\ \A i \in 1 .. 1 + Len(s) : r[i] = IF i <= 1 THEN <<e>>[i] ELSE s[i - 1]
  BY <1>1, ConcatProperties
<1> HIDE DEF r
<1>3. r # <<>>
  BY <1>1, <1>2, EmptySeq
<1>4. /\ Head(r) = r[1] /\ Tail(r) \in Seq(S) /\ Len(Tail(r)) = Len(s)
      /\ \A i \in 1 .. Len(s) : Tail(r)[i] = r[i + 1]
  BY <1>1, <1>2, <1>3, TailFacts
<1>5. r[1] = e
  BY <1>1, <1>2
<1>6. \A i \in 1 .. Len(s) : Tail(r)[i] = s[i]
  <2> SUFFICES ASSUME NEW i \in 1 .. Len(s) PROVE Tail(r)[i] = s[i]
    OBVIOUS
  <2>1. i + 1 \in 1 .. 1 + Len(s) /\ ~(i + 1 <= 1) /\ i + 1 - 1 = i
    BY <1>1
  <2> QED
    BY <1>2, <1>4, <2>1
<1>7. Tail(r) = s
  BY <1>4, <1>6, SeqEqual
<1> QED
  BY <1>2, <1>3, <1>4, <1>5, <1>7 DEF r

LEMMA HeadThenTail ==
  ASSUME NEW S, NEW s \in Seq(S), s # <<>>
  PROVE  Tail(s) \in Seq(S) /\ Head(s) \in S /\ s = <<Head(s)>> \o Tail(s)
<1>1. /\ Tail(s) \in Seq(S) /\ Head(s) \in S /\ Head(s) = s[1]
      /\ Len(s) \in Nat \ {0} /\ Len(Tail(s)) = Len(s) - 1
      /\ \A i \in 1 .. Len(s) - 1 : Tail(s)[i] = s[i + 1]
  BY TailFacts
<1> DEFINE e == Head(s)
           r == Tail(s)
           f == <<e>> \o r
<1>2. <<e>> \in Seq(S) /\ Len(<<e>>) = 1 /\ <<e>>[1] = e
  BY <1>1
<1>3. /\ f \in Seq(S) /\ Len(f) = 1 + Len(r)
      /\ \A i \in 1 .. 1 + Len(r) : f[i] = IF i <= 1 THEN <<e>>[i] ELSE r[i - 1]
  BY <1>1, <1>2, ConcatProperties
<1> HIDE DEF e, r, f
<1>4. ASSUME NEW i \in 1 .. Len(s)
      PROVE  s[i] = f[i]
  <2>1. i \in 1 .. 1 + Len(r)
    BY <1>1 DEF r
  <2>2. CASE i = 1
    BY <1>1, <1>2, <1>3, <2>1, <2>2 DEF e
  <2>3. CASE i # 1
    <3>1. i - 1 \in 1 .. Len(s) - 1 /\ i - 1 + 1 = i /\ ~(i <= 1)
      BY <1>1, <2>3
    <3>2. r[i - 1] = s[i]
      BY <1>1, <3>1 DEF r
    <3> QED
      BY <1>3, <2>1, <3>1, <3>2
  <2> QED
    BY <2>2, <2>3
<1>5. Len(f) = Len(s)
  BY <1>1, <1>3 DEF r
<1>6. s = f
  BY <1>3, <1>4, <1>5, SeqEqual
<1> QED
  BY <1>1, <1>6 DEF e, r, f

\* s is what is left of t without some of its last.
StartOf(s, t) == \E n \in 0 .. Len(t) : s = SubSeq(t, 1, n)

LEMMA StartOfConcat ==
  ASSUME NEW S, NEW s \in Seq(S), NEW t \in Seq(S)
  PROVE  StartOf(s, s \o t)
<1> DEFINE r == s \o t
           l == Len(s)
<1>1. l \in Nat /\ Len(t) \in Nat /\ \A i \in 1 .. l : s[i] \in S
  BY LenProperties, ElementOfSeq
<1>2. /\ r \in Seq(S) /\ Len(r) = l + Len(t)
      /\ \A i \in 1 .. l + Len(t) : r[i] = IF i <= l THEN s[i] ELSE t[i - l]
  BY ConcatProperties
<1>3. Len(s) = l
  OBVIOUS
<1> HIDE DEF r, l
<1>4. \A i \in 1 .. l : r[i] = s[i]
  BY <1>1, <1>2
<1>5. /\ SubSeq(r, 1, l) \in Seq(S) /\ Len(SubSeq(r, 1, l)) = l
      /\ \A i \in 1 .. l : SubSeq(r, 1, l)[i] = s[i]
  <2>1. /\ SubSeq(r, 1, l) \in Seq(S)
        /\ Len(SubSeq(r, 1, l)) = IF 1 <= l THEN l - 1 + 1 ELSE 0
        /\ \A i \in 1 .. l - 1 + 1 : SubSeq(r, 1, l)[i] = r[1 + i - 1]
    BY <1>1, <1>4, SubSeqProperties
  <2>2. l - 1 + 1 = l /\ \A i \in 1 .. l : 1 + i - 1 = i
    BY <1>1
  <2> QED
    BY <1>1, <1>4, <2>1, <2>2
<1>6. s = SubSeq(r, 1, l)
  BY <1>3, <1>5, SeqEqual
<1>7. l \in 0 .. Len(r)
  BY <1>1, <1>2
<1> QED
  BY <1>6, <1>7 DEF StartOf, r

\* Messages that are put together: what is added at the end,
LEMMA ConcatAppend ==
  ASSUME NEW r \in Seq(Message), NEW s \in Seq(Message), NEW t \in Seq(Message), NEW e \in Message
  PROVE  r \o (s \o Append(t, e)) = Append(r \o (s \o t), e)
<1>1. /\ <<e>> \in Seq(Message) /\ s \o t \in Seq(Message) /\ r \o (s \o t) \in Seq(Message)
      /\ Append(t, e) = t \o <<e>>
      /\ Append(r \o (s \o t), e) = (r \o (s \o t)) \o <<e>>
  BY ConcatProperties, AppendIsConcat
<1>2. s \o (t \o <<e>>) = (s \o t) \o <<e>>
  BY <1>1, ConcatAssociative
<1>3. r \o ((s \o t) \o <<e>>) = (r \o (s \o t)) \o <<e>>
  BY <1>1, ConcatAssociative
<1> QED
  BY <1>1, <1>2, <1>3

LEMMA ConcatAppendInner ==
  ASSUME NEW r \in Seq(Message), NEW s \in Seq(Message), NEW e \in Message
  PROVE  r \o (Append(s, e) \o <<>>) = Append(r \o (s \o <<>>), e)
<1>1. /\ Append(s, e) \in Seq(Message) /\ <<>> \in Seq(Message)
      /\ s \o <<>> = s /\ Append(s, e) \o <<>> = Append(s, e)
  BY AppendProperties, ConcatEmptySeq, EmptySeq
<1>2. s \o Append(<<>>, e) = Append(s \o <<>>, e)
  BY <1>1, AppendIsConcat
<1>3. r \o (s \o Append(<<>>, e)) = Append(r \o (s \o <<>>), e)
  BY <1>1, ConcatAppend
<1> QED
  BY <1>1, <1>2, <1>3

\* what moves from one of them to the next,
LEMMA ConcatMove ==
  ASSUME NEW r \in Seq(Message), NEW s \in Seq(Message), NEW t \in Seq(Message), NEW e \in Message
  PROVE  r \o (Append(s, e) \o t) = r \o (s \o (<<e>> \o t))
<1>1. <<e>> \in Seq(Message) /\ Append(s, e) = s \o <<e>>
  BY AppendIsConcat
<1>2. (s \o <<e>>) \o t = s \o (<<e>> \o t)
  BY <1>1, ConcatAssociative
<1> QED
  BY <1>1, <1>2

\* what comes first,
LEMMA ConcatFirst ==
  ASSUME NEW s \in Seq(Message), NEW t \in Seq(Message), NEW e \in Message
  PROVE  /\ <<>> \o ((<<e>> \o s) \o t) = <<e>> \o (s \o t)
         /\ <<e>> \o (s \o t) # <<>>
         /\ Head(<<e>> \o (s \o t)) = e
         /\ Tail(<<e>> \o (s \o t)) = <<>> \o (s \o t)
<1>1. /\ <<e>> \in Seq(Message) /\ s \o t \in Seq(Message) /\ <<>> \o (s \o t) = s \o t
  BY ConcatProperties, ConcatEmptySeq
<1>2. (<<e>> \o s) \o t = <<e>> \o (s \o t) /\ <<e>> \o (s \o t) \in Seq(Message)
  BY <1>1, ConcatAssociative, ConcatProperties
<1>3. <<>> \o (<<e>> \o (s \o t)) = <<e>> \o (s \o t)
  BY <1>2, ConcatEmptySeq
<1>4. /\ <<e>> \o (s \o t) # <<>>
      /\ Head(<<e>> \o (s \o t)) = e /\ Tail(<<e>> \o (s \o t)) = s \o t
  BY <1>1, HeadOfConcat
<1> QED
  BY <1>1, <1>2, <1>3, <1>4

\* and what is left without the last, or the last two.
LEMMA ConcatPrefix ==
  ASSUME NEW r \in Seq(Message), NEW s \in Seq(Message), NEW t \in Seq(Message)
  PROVE  /\ StartOf(r \o (s \o <<>>), r \o (s \o t))
         /\ StartOf(<<>>, r \o (s \o t))
<1>1. /\ s \o <<>> = s /\ r \o s \in Seq(Message) /\ s \o t \in Seq(Message)
      /\ r \o (s \o t) \in Seq(Message) /\ <<>> \in Seq(Message)
  BY ConcatEmptySeq, ConcatProperties, EmptySeq
<1>2. (r \o s) \o t = r \o (s \o t)
  BY ConcatAssociative
<1>3. StartOf(r \o s, (r \o s) \o t)
  BY <1>1, StartOfConcat
<1>4. StartOf(<<>>, <<>> \o (r \o (s \o t)))
  BY <1>1, StartOfConcat
<1>5. <<>> \o (r \o (s \o t)) = r \o (s \o t)
  BY <1>1, ConcatEmptySeq
<1> QED
  BY <1>1, <1>2, <1>3, <1>4, <1>5

\* The messages on a wire, as frames come and go.
LEMMA FramesType ==
  ASSUME NEW s \in Seq(Item)
  PROVE  /\ Frames(s) \in Seq(Message)
         /\ Len(Frames(s)) = Len(s) \div 2
         /\ \A i \in 1 .. Len(s) \div 2 : Frames(s)[i] = s[2 * i].msg
<1>1. Len(s) \in Nat /\ \A i \in 1 .. Len(s) : s[i] \in Item
  BY LastItem
<1> DEFINE n == Len(s) \div 2
<1>2. n \in Nat /\ \A i \in 1 .. n : 2 * i \in 1 .. Len(s)
  BY <1>1, Halves, Evens
<1>3. \A i \in 1 .. n : s[2 * i].msg \in Message
  BY <1>1, <1>2 DEF Item
<1>4. Frames(s) = [i \in 1 .. n |-> s[2 * i].msg]
  BY DEF Frames
<1> HIDE DEF n
<1>5. Frames(s) \in [1 .. n -> Message]
  BY <1>3, <1>4
<1>6. Frames(s) \in Seq(Message)
  BY <1>2, <1>5, SeqDef
<1>7. Len(Frames(s)) = n
  BY <1>2, <1>5, <1>6, LenProperties
<1>8. \A i \in 1 .. n : Frames(s)[i] = s[2 * i].msg
  BY <1>4
<1> QED
  BY <1>6, <1>7, <1>8 DEF n

LEMMA HeaderFrames ==
  ASSUME NEW s \in Seq(Item), NEW m \in Message, Alternates(s), ~Incomplete(s)
  PROVE  Frames(s \o <<Header(m)>>) = Frames(s)
<1> DEFINE r == s \o <<Header(m)>>
           n == Len(s) \div 2
<1>1. Len(s) \in Nat /\ Len(s) % 2 = 0
  BY LastItem, Complete, Halves
<1>2. /\ r \in Seq(Item) /\ Len(r) = Len(s) + 1
      /\ \A i \in 1 .. Len(s) : r[i] = s[i]
  BY FrameType, OneMore
<1> HIDE DEF r
<1>3. Len(r) \div 2 = n /\ n \in Nat /\ \A i \in 1 .. n : 2 * i \in 1 .. Len(s)
  BY <1>1, <1>2, Halves, Evens
<1>4. /\ Frames(r) \in Seq(Message) /\ Frames(s) \in Seq(Message)
      /\ Len(Frames(r)) = n /\ Len(Frames(s)) = n
      /\ \A i \in 1 .. n : Frames(r)[i] = r[2 * i].msg /\ Frames(s)[i] = s[2 * i].msg
  BY <1>2, <1>3, FramesType
<1> HIDE DEF n
<1>5. \A i \in 1 .. n : Frames(r)[i] = Frames(s)[i]
  BY <1>2, <1>3, <1>4
<1>6. Frames(r) = Frames(s)
  BY <1>4, <1>5, SeqEqual
<1> QED
  BY <1>6 DEF r

LEMMA BodyFrames ==
  ASSUME NEW s \in Seq(Item), NEW m \in Message, Alternates(s), Incomplete(s)
  PROVE  Frames(s \o <<Body(m)>>) = Append(Frames(s), m)
<1> DEFINE r == s \o <<Body(m)>>
           n == Len(s) \div 2
<1>1. Len(s) \in Nat /\ Len(s) % 2 = 1
  BY LastItem, Complete
<1>2. /\ r \in Seq(Item) /\ Len(r) = Len(s) + 1
      /\ \A i \in 1 .. Len(s) : r[i] = s[i]
      /\ r[Len(s) + 1].msg = m
  BY FrameType, OneMore DEF Body
<1> HIDE DEF r
<1>3. /\ Len(r) \div 2 = n + 1 /\ n \in Nat /\ \A i \in 1 .. n : 2 * i \in 1 .. Len(s)
      /\ 2 * (n + 1) = Len(s) + 1
  BY <1>1, <1>2, Halves, Evens
<1>4. /\ Frames(r) \in Seq(Message) /\ Frames(s) \in Seq(Message)
      /\ Len(Frames(r)) = n + 1 /\ Len(Frames(s)) = n
      /\ \A i \in 1 .. n + 1 : Frames(r)[i] = r[2 * i].msg
      /\ \A i \in 1 .. n : Frames(s)[i] = s[2 * i].msg
  BY <1>2, <1>3, FramesType
<1> HIDE DEF n
<1>5. /\ Append(Frames(s), m) \in Seq(Message) /\ Len(Append(Frames(s), m)) = n + 1
      /\ \A i \in 1 .. n : Append(Frames(s), m)[i] = Frames(s)[i]
      /\ Append(Frames(s), m)[n + 1] = m
  BY <1>4, AppendProperties
<1>6. ASSUME NEW i \in 1 .. n + 1
      PROVE  Frames(r)[i] = Append(Frames(s), m)[i]
  <2>1. CASE i \in 1 .. n
    <3>1. i \in 1 .. n + 1 /\ r[2 * i] = s[2 * i]
      BY <1>2, <1>3, <2>1
    <3> QED
      BY <1>4, <1>5, <2>1, <3>1
  <2>2. CASE i = n + 1
    BY <1>2, <1>3, <1>4, <1>5, <2>2
  <2>3. i \in 1 .. n \/ i = n + 1
    <3>1. n \in Nat
      BY <1>3
    <3> QED
      BY <3>1
  <2> QED
    BY <2>1, <2>2, <2>3
<1>7. Frames(r) = Append(Frames(s), m)
  BY <1>4, <1>5, <1>6, SeqEqual
<1> QED
  BY <1>7 DEF r

LEMMA WholeFrames ==
  ASSUME NEW s \in Seq(Item), NEW m \in Message, Alternates(s), ~Incomplete(s)
  PROVE  Frames(s \o <<Header(m), Body(m)>>) = Append(Frames(s), m)
<1> DEFINE h == s \o <<Header(m)>>
<1>1. h \in Seq(Item) /\ Alternates(h) /\ h # <<>> /\ h[Len(h)] = Header(m)
  BY FrameType, HeaderFits, ConcatProperties
<1>2. Incomplete(h)
  BY <1>1 DEF Incomplete, Header
<1>3. <<Header(m), Body(m)>> = <<Header(m)>> \o <<Body(m)>>
  OBVIOUS
<1>4. s \o <<Header(m), Body(m)>> = h \o <<Body(m)>>
  BY <1>3, FrameType, ConcatAssociative
<1>5. Frames(h) = Frames(s)
  BY HeaderFrames
<1> HIDE DEF h
<1>6. Frames(h \o <<Body(m)>>) = Append(Frames(h), m)
  BY <1>1, <1>2, BodyFrames
<1> QED
  BY <1>4, <1>5, <1>6

LEMMA ReadFrames ==
  ASSUME NEW s \in Seq(Item), Alternates(s), Framed(s)
  PROVE  /\ s[1].msg \in Message
         /\ Frames(s) = <<s[1].msg>> \o Frames(SubSeq(s, 3, Len(s)))
<1> DEFINE r == SubSeq(s, 3, Len(s))
           n == Len(s) \div 2
           m == s[1].msg
           k == Len(r) \div 2
<1>1. Len(s) \in Nat /\ Len(s) >= 2 /\ \A i \in 1 .. Len(s) : s[i] \in Item
  BY LastItem DEF Framed
<1>2. /\ r \in Seq(Item) /\ Len(r) = Len(s) - 2
      /\ \A i \in 1 .. Len(s) - 2 : r[i] = s[i + 2]
  BY <1>1, ReadFacts
<1>3. m \in Message
  BY <1>1 DEF Item
<1>4. s[2].msg = m
  BY DEF Framed, Body
<1> HIDE DEF r, m
<1>5. /\ k \in Nat /\ n = k + 1
      /\ \A i \in 1 .. k : 2 * i \in 1 .. Len(s) - 2 /\ 2 * i + 2 = 2 * (i + 1)
  <2>1. Len(r) \in Nat /\ Len(r) + 2 = Len(s)
    BY <1>1, <1>2
  <2>2. k \in Nat /\ (Len(r) + 2) \div 2 = k + 1 /\ \A i \in 1 .. k : 2 * i \in 1 .. Len(r)
    BY <2>1, Halves, Evens
  <2>3. \A i \in 1 .. k : 2 * i + 2 = 2 * (i + 1)
    BY <2>2
  <2> QED
    BY <1>2, <2>1, <2>2, <2>3
<1>6. /\ Frames(r) \in Seq(Message) /\ Frames(s) \in Seq(Message)
      /\ Len(Frames(r)) = k /\ Len(Frames(s)) = n
      /\ \A i \in 1 .. k : Frames(r)[i] = r[2 * i].msg
      /\ \A i \in 1 .. n : Frames(s)[i] = s[2 * i].msg
  BY <1>2, FramesType
<1> HIDE DEF n, k
<1> DEFINE f == <<m>> \o Frames(r)
<1>7. f \in Seq(Message) /\ f # <<>> /\ Head(f) = m /\ Tail(f) = Frames(r)
  BY <1>3, <1>6, HeadOfConcat
<1>8. Len(f) = n /\ f[1] = m /\ \A i \in 1 .. k : f[i + 1] = Frames(r)[i]
  <2> HIDE DEF f
  <2>1. /\ Head(f) = f[1] /\ Len(f) \in Nat /\ Len(Tail(f)) = Len(f) - 1
        /\ \A i \in 1 .. Len(f) - 1 : Tail(f)[i] = f[i + 1]
    BY <1>7, TailFacts
  <2>2. k \in Nat /\ n = k + 1
    BY <1>5
  <2>3. Len(Tail(f)) = k
    BY <1>6, <1>7
  <2>4. Len(f) = n /\ Len(f) - 1 = k
    BY <2>1, <2>2, <2>3
  <2> QED
    BY <1>7, <2>1, <2>4
<1> HIDE DEF f
<1>9. ASSUME NEW i \in 1 .. n
      PROVE  Frames(s)[i] = f[i]
  <2>1. CASE i = 1
    <3>1. 2 * i = 2
      BY <2>1
    <3> QED
      BY <1>4, <1>6, <1>8, <2>1, <3>1
  <2>2. CASE i # 1
    <3>1. i - 1 \in 1 .. k /\ i - 1 + 1 = i
      BY <1>5, <2>2
    <3>2. 2 * (i - 1) + 2 = 2 * i /\ 2 * (i - 1) \in 1 .. Len(s) - 2
      BY <1>5, <3>1
    <3>3. r[2 * (i - 1)] = s[2 * i]
      BY <1>2, <3>2
    <3>4. f[i] = Frames(r)[i - 1] /\ Frames(r)[i - 1] = r[2 * (i - 1)].msg
      BY <1>6, <1>8, <3>1
    <3> QED
      BY <1>6, <3>3, <3>4
  <2> QED
    BY <2>1, <2>2
<1>10. Frames(s) = f
  BY <1>6, <1>7, <1>8, <1>9, SeqEqual
<1> QED
  BY <1>3, <1>10 DEF f, r, m

\* A stream is a connection and a way.
LEMMA StreamIs ==
  /\ \A x \in Conn \X Way : x[1] \in Conn /\ x[2] \in Way /\ x = <<x[1], x[2]>>
  /\ \A c \in Conn, w \in Way : <<c, w>> \in Conn \X Way
OBVIOUS

LEMMA FlightType ==
  ASSUME StreamsInv, NEW c \in Conn, NEW w \in Way
  PROVE  /\ wire[<<c, w>>] \in Seq(Item) /\ queue[<<c, w>>].q \in Seq(Message)
         /\ InHand(c, w) \in Seq(Message) /\ Written(c, w) \in Seq(Message)
         /\ Queued(c, w) \in Seq(Message) /\ Flight(c, w) \in Seq(Message)
<1>1. <<c, w>> \in Conn \X Way
  BY StreamIs
<1>2. wire[<<c, w>>] \in Seq(Item) /\ queue[<<c, w>>].q \in Seq(Message)
  BY <1>1 DEF StreamsInv, TypeOK
<1>3. InHand(c, w) \in Seq(Message)
  <2>1. handler[c].at = "push" => handler[c].msg \in Message
    BY DEF StreamsInv, HandlersMatch
  <2> QED
    BY <2>1, EmptySeq DEF InHand
<1>4. Written(c, w) \in Seq(Message)
  BY <1>2, FramesType, EmptySeq DEF Written
<1>5. Queued(c, w) \in Seq(Message)
  BY <1>2, EmptySeq DEF Queued
<1>6. Flight(c, w) \in Seq(Message)
  BY <1>3, <1>4, <1>5, ConcatProperties DEF Flight
<1> QED
  BY <1>2, <1>3, <1>4, <1>5, <1>6

LEMMA VarsAre ==
  /\ Promised!vars = <<Ends, Flights, Arrivals, Inboxes, Failures>>
  /\ Promised!vars' = <<Ends', Flights', Arrivals', Inboxes', Failures'>>
BY DEF Promised!vars, Ends, Flights, Arrivals, Inboxes, Failures

LEMMA NoneIsNoPort == None \notin Node \X Kind
BY StreamsAssumption DEF StreamsAssumption

LEMMA LinksSame ==
  ASSUME UNCHANGED conns
  PROVE  Ends' = Ends /\ Failures' = Failures
BY DEF Ends, End, PoolAt, Failures, Broken

LEMMA FlightSame ==
  ASSUME NEW c \in Conn, NEW w \in Way,
         wire'[<<c, w>>] = wire[<<c, w>>], queue'[<<c, w>>].q = queue[<<c, w>>].q,
         conns'[c] = conns[c],
         \/ handler'[c] = handler[c]
         \/ w # "up"
         \/ handler[c].at \notin {"push", "ended"} /\ handler'[c].at \notin {"push", "ended"}
  PROVE  Flight(c, w)' = Flight(c, w)
<1>1. InHand(c, w)' = InHand(c, w)
  BY DEF InHand
<1>2. Written(c, w)' = Written(c, w)
  BY DEF Written, Frames
<1>3. Queued(c, w)' = Queued(c, w)
  BY DEF Queued
<1> QED
  BY <1>1, <1>2, <1>3 DEF Flight

\* Steps that the streams do not show,
LEMMA Stutters ==
  ASSUME UNCHANGED <<conns, rx, multi>>,
         \A c \in Conn, w \in Way : Flight(c, w)' = Flight(c, w)
  PROVE  [Promised!Next]_Promised!vars
<1>1. Flights' = Flights
  BY StreamIs DEF Flights
<1>2. Arrivals' = Arrivals /\ Inboxes' = Inboxes
  BY DEF Arrivals, Inboxes, Arrived
<1> QED
  BY <1>1, <1>2, LinksSame, VarsAre

LEMMA Quiet ==
  ASSUME UNCHANGED <<conns, rx, multi, wire>>,
         \A x \in Conn \X Way : queue'[x].q = queue[x].q,
         \A c \in Conn :
           \/ handler'[c] = handler[c]
           \/ handler[c].at \notin {"push", "ended"} /\ handler'[c].at \notin {"push", "ended"}
  PROVE  [Promised!Next]_Promised!vars
<1>1. \A c \in Conn, w \in Way : Flight(c, w)' = Flight(c, w)
  BY FlightSame, StreamIs
<1> QED
  BY <1>1, Stutters

\* and a message that is sent.
LEMMA Sent ==
  ASSUME StreamsInv, UNCHANGED <<conns, rx, multi>>,
         NEW c \in Conn, NEW w \in Way, NEW m \in Message, conns[c] # None, conns[c].whole,
         Flight(c, w)' = Append(Flight(c, w), m),
         \A d \in Conn, v \in Way : <<d, v>> # <<c, w>> => Flight(d, v)' = Flight(d, v)
  PROVE  [Promised!Next]_Promised!vars
<1> DEFINE x == <<c, w>>
<1>1. x \in Conn \X Way /\ x[1] = c /\ x[2] = w
  BY StreamIs
<1> HIDE DEF x
<1>2. Arrivals' = Arrivals /\ Inboxes' = Inboxes /\ Ends' = Ends /\ Failures' = Failures
  BY LinksSame DEF Arrivals, Inboxes, Arrived
<1>3. Ends[x] # None /\ x \notin Failures
  <2>1. conns[c] \in Link
    BY DEF StreamsInv, TypeOK
  <2>2. End(c, w) \in Node \X Kind
    BY <2>1 DEF End, PoolAt, Link
  <2> QED
    BY <1>1, <2>2, NoneIsNoPort DEF Ends, Failures, Broken
<1>4. /\ Flights[x] = Flight(c, w) /\ Flights'[x] = Append(Flight(c, w), m)
      /\ \A y \in Conn \X Way : y # x => Flights'[y] = Flights[y]
      /\ Flights = [y \in Conn \X Way |-> Flights[y]]
      /\ Flights' = [y \in Conn \X Way |-> Flights'[y]]
  BY <1>1, StreamIs DEF Flights, x
<1>5. Flights' = [Flights EXCEPT ![x] = Append(Flights[x], m)]
  BY <1>1, <1>4
<1>6. Len(Flights'[x]) = Len(Flights[x]) + 1
  BY <1>4, FlightType, AppendProperties
<1>7. Promised!Put(x)
  BY <1>2, <1>3, <1>5, <1>6 DEF Promised!Put, Ends, Flights, Arrivals, Inboxes, Failures
<1> QED
  BY <1>1, <1>7 DEF Promised!Next

\* Frames that are not complete do not count.
LEMMA HeaderHides ==
  ASSUME StreamsInv, FramesAreWhole, [Next]_vars, NEW t \in Task, WriteHeader(t)
  PROVE  [Promised!Next]_Promised!vars
<1>1. PICK x \in Conn \X Way, m \in Message : x = Stream(t) /\ m = op[t].msg
  BY TaskAtWork DEF WriteHeader, StreamsInv
<1>2. /\ op[t].conn \in Conn /\ x[1] = op[t].conn /\ Has(writers, x, t)
      /\ conns[x[1]].whole /\ op[t].at = "stream"
  BY <1>1, TaskAtWork DEF WriteHeader, StreamsInv, Stream, StreamTo
<1>3. \A u \in Task : ~Writes(u, x)
  BY <1>2, HalfWay DEF Has, Writes
<1>4. Alternates(wire[x]) /\ ~Incomplete(wire[x]) /\ wire[x] \in Seq(Item)
  BY <1>2, <1>3 DEF FramesAreWhole, FrameIsWhole, StreamsInv, TypeOK
<1>5. /\ wire'[x] = wire[x] \o <<Header(m)>>
      /\ \A y \in Conn \X Way : y # x => wire'[y] = wire[y]
      /\ UNCHANGED <<conns, queue, handler, rx, multi>>
  BY <1>1, FrameType, WireType DEF WriteHeader, StreamsInv
<1>6. Frames(wire'[x]) = Frames(wire[x])
  BY <1>4, <1>5, HeaderFrames
<1>7. ASSUME NEW c \in Conn, NEW w \in Way
      PROVE  Flight(c, w)' = Flight(c, w)
  <2>1. CASE x = <<c, w>>
    <3>1. Written(c, w)' = Written(c, w)
      BY <1>5, <1>6, <2>1 DEF Written, Frames
    <3> QED
      BY <1>5, <3>1 DEF Flight, InHand, Queued
  <2>2. CASE x # <<c, w>>
    BY <1>5, <2>2, StreamIs, FlightSame
  <2> QED
    BY <2>1, <2>2
<1> QED
  BY <1>5, <1>7, Stutters

\* A body makes its frame count.
LEMMA BodySends ==
  ASSUME StreamsInv, FramesAreWhole, EndedHasFailed, [Next]_vars, NEW t \in Task, WriteBody(t)
  PROVE  [Promised!Next]_Promised!vars
<1>1. PICK x \in Conn \X Way, m \in Message : x = Stream(t) /\ m = op[t].msg
  BY TaskAtWork DEF WriteBody, StreamsInv
<1>2. /\ x[1] \in Conn /\ x[2] \in Way /\ x = <<x[1], x[2]>>
      /\ conns[x[1]] # None /\ conns[x[1]].kind = "tcp" /\ conns[x[1]].whole
      /\ Writes(t, x)
  BY <1>1, StreamIs, TaskAtWork, HalfWay DEF WriteBody, StreamsInv, Writes, Stream, StreamTo
<1>3. /\ Alternates(wire[x]) /\ wire[x] \in Seq(Item)
      /\ wire[x] # <<>> /\ wire[x][Len(wire[x])] = Header(m)
  BY <1>1, <1>2 DEF FramesAreWhole, FrameIsWhole, StreamsInv, TypeOK
<1>4. Incomplete(wire[x])
  BY <1>3 DEF Incomplete, Header
<1>5. /\ wire'[x] = wire[x] \o <<Body(m)>>
      /\ \A y \in Conn \X Way : y # x => wire'[y] = wire[y]
      /\ UNCHANGED <<conns, queue, handler, rx, multi>>
  BY <1>1, FrameType, WireType DEF WriteBody, StreamsInv
<1>6. Frames(wire'[x]) = Append(Frames(wire[x]), m)
  BY <1>3, <1>4, <1>5, BodyFrames
<1> DEFINE c == x[1]
           w == x[2]
<1>7. handler[c].at # "ended" /\ queue[x].q = <<>>
  BY <1>2 DEF EndedHasFailed, StreamsInv, QueuesMatch
<1>8. /\ InHand(c, w)' = InHand(c, w)
      /\ Written(c, w) = Frames(wire[x]) /\ Written(c, w)' = Append(Frames(wire[x]), m)
      /\ Queued(c, w) = <<>> /\ Queued(c, w)' = <<>>
  <2>1. Frames(wire[x])' = Frames(wire'[x])
    BY DEF Frames
  <2>2. InHand(c, w)' = InHand(c, w)
    BY <1>5 DEF InHand
  <2>3. Queued(c, w) = <<>> /\ Queued(c, w)' = <<>>
    BY <1>2, <1>5, <1>7 DEF Queued
  <2>4. Written(c, w) = Frames(wire[x])
    BY <1>2, <1>7 DEF Written
  <2>5. Written(c, w)' = Frames(wire[x])'
    BY <1>2, <1>5, <1>7 DEF Written
  <2> QED
    BY <1>6, <2>1, <2>2, <2>3, <2>4, <2>5
<1> HIDE DEF c, w
<1>9. c \in Conn /\ w \in Way /\ x = <<c, w>> /\ conns[c] # None /\ conns[c].whole
  BY <1>2 DEF c, w
<1>10. Flight(c, w)' = Append(Flight(c, w), m)
  <2>1. InHand(c, w) \in Seq(Message) /\ Written(c, w) \in Seq(Message)
    BY <1>9, FlightType
  <2>2. /\ Flight(c, w) = InHand(c, w) \o (Written(c, w) \o <<>>)
        /\ Flight(c, w)' = InHand(c, w) \o (Append(Written(c, w), m) \o <<>>)
    BY <1>8 DEF Flight
  <2> QED
    BY <2>1, <2>2, ConcatAppendInner
<1>11. \A d \in Conn, v \in Way : <<d, v>> # <<c, w>> => Flight(d, v)' = Flight(d, v)
  BY <1>5, <1>9, StreamIs, FlightSame
<1> QED
  BY <1>5, <1>9, <1>10, <1>11, Sent

\* A message in the queue of a WebSocket writer counts while the connection lasts.
LEMMA EnqueueSends ==
  ASSUME StreamsInv, NEW t \in Task, Enqueue(t)
  PROVE  [Promised!Next]_Promised!vars
<1>1. PICK x \in Conn \X Way, m \in Message : x = Stream(t) /\ m = op[t].msg
  BY TaskAtWork DEF Enqueue, StreamsInv
<1>2. /\ x[1] \in Conn /\ x[2] \in Way /\ x = <<x[1], x[2]>>
      /\ queue[x].open /\ conns[x[1]] # None
  BY <1>1, StreamIs DEF Enqueue, StreamsInv, QueuesMatch
<1>3. /\ queue' = [queue EXCEPT ![x].q = Append(@, m)]
      /\ UNCHANGED <<conns, wire, handler, rx, multi>>
  BY <1>1 DEF Enqueue
<1>4. /\ queue'[x].q = Append(queue[x].q, m)
      /\ \A y \in Conn \X Way : y # x => queue'[y] = queue[y]
  BY <1>3 DEF StreamsInv, TypeOK
<1> DEFINE c == x[1]
           w == x[2]
<1> HIDE DEF c, w
<1>5. c \in Conn /\ w \in Way /\ x = <<c, w>> /\ conns[c] # None
  BY <1>2 DEF c, w
<1>6. \A d \in Conn, v \in Way : <<d, v>> # <<c, w>> => Flight(d, v)' = Flight(d, v)
  BY <1>3, <1>4, <1>5, StreamIs, FlightSame
<1>7. InHand(c, w)' = InHand(c, w) /\ Written(c, w)' = Written(c, w)
  BY <1>3 DEF InHand, Written, Frames
<1>8. CASE conns[c].whole
  <2>1. Queued(c, w) = queue[x].q /\ Queued(c, w)' = Append(queue[x].q, m)
    BY <1>3, <1>4, <1>5, <1>8 DEF Queued
  <2>2. /\ InHand(c, w) \in Seq(Message) /\ Written(c, w) \in Seq(Message)
        /\ Queued(c, w) \in Seq(Message)
    BY <1>5, FlightType
  <2>3. Flight(c, w)' = Append(Flight(c, w), m)
    <3>1. Flight(c, w)' = InHand(c, w) \o (Written(c, w) \o Append(Queued(c, w), m))
      BY <1>7, <2>1 DEF Flight
    <3>2. Flight(c, w) = InHand(c, w) \o (Written(c, w) \o Queued(c, w))
      BY DEF Flight
    <3>3. /\ InHand(c, w) \o (Written(c, w) \o Append(Queued(c, w), m))
            = Append(InHand(c, w) \o (Written(c, w) \o Queued(c, w)), m)
      BY <2>2, ConcatAppend
    <3> QED
      BY <3>1, <3>2, <3>3
  <2> QED
    BY <1>3, <1>5, <1>6, <1>8, <2>3, Sent
<1>9. CASE ~conns[c].whole
  <2>1. Queued(c, w)' = Queued(c, w)
    BY <1>3, <1>9 DEF Queued
  <2>2. Flight(c, w)' = Flight(c, w)
    BY <1>7, <2>1 DEF Flight
  <2> QED
    BY <1>3, <1>6, <2>2, Stutters
<1> QED
  BY <1>8, <1>9

\* The writer moves a message from its queue to the wire.
LEMMA WriterHides ==
  ASSUME StreamsInv, FramesAreWhole, EndedHasFailed, [Next]_vars,
         NEW c \in Conn, NEW w \in Way, Writer(<<c, w>>)
  PROVE  [Promised!Next]_Promised!vars
<1> DEFINE x == <<c, w>>
<1>1. /\ x \in Conn \X Way /\ queue[x].q \in Seq(Message) /\ queue[x].q # <<>>
      /\ conns[c].whole /\ UNCHANGED <<conns, handler, rx, multi>>
      /\ queue' = [queue EXCEPT ![x].q = Tail(@)]
  BY StreamIs DEF Writer, StreamsInv, TypeOK
<1>2. PICK m \in Message : m = Head(queue[x].q)
  BY <1>1, TailFacts
<1>3. conns[c] # None /\ conns[c].kind = "ws" /\ handler[c].at # "ended"
  BY <1>1 DEF StreamsInv, QueuesMatch, EndedHasFailed
<1>4. \A u \in Task : ~Writes(u, x)
  BY <1>3, HalfWay DEF Writes
<1>5. Alternates(wire[x]) /\ ~Incomplete(wire[x]) /\ wire[x] \in Seq(Item)
  BY <1>1, <1>4 DEF FramesAreWhole, FrameIsWhole, StreamsInv, TypeOK
<1>6. /\ wire'[x] = wire[x] \o <<Header(m), Body(m)>>
      /\ \A y \in Conn \X Way : y # x => wire'[y] = wire[y]
  BY <1>1, <1>2, FrameType, WireType DEF Writer, StreamsInv
<1>7. Frames(wire'[x]) = Append(Frames(wire[x]), m)
  BY <1>5, <1>6, WholeFrames
<1>8. /\ queue'[x].q = Tail(queue[x].q)
      /\ \A y \in Conn \X Way : y # x => queue'[y] = queue[y]
  BY <1>1 DEF StreamsInv, TypeOK
<1>9. Tail(queue[x].q) \in Seq(Message) /\ queue[x].q = <<m>> \o Tail(queue[x].q)
  BY <1>1, <1>2, HeadThenTail
<1>10. /\ InHand(c, w)' = InHand(c, w)
       /\ Written(c, w) = Frames(wire[x]) /\ Written(c, w)' = Append(Frames(wire[x]), m)
       /\ Queued(c, w) = <<m>> \o Tail(queue[x].q) /\ Queued(c, w)' = Tail(queue[x].q)
  BY <1>1, <1>3, <1>7, <1>8, <1>9 DEF InHand, Written, Queued, Frames
<1>11. Flight(c, w)' = Flight(c, w)
  <2>1. InHand(c, w) \in Seq(Message) /\ Written(c, w) \in Seq(Message)
    BY FlightType
  <2>2. PICK h \in Seq(Message), f \in Seq(Message), q \in Seq(Message) :
             h = InHand(c, w) /\ f = Written(c, w) /\ q = Tail(queue[x].q)
    BY <1>9, <2>1
  <2>3. Flight(c, w) = h \o (f \o (<<m>> \o q)) /\ Flight(c, w)' = h \o (Append(f, m) \o q)
    BY <1>10, <2>2 DEF Flight
  <2>4. h \o (Append(f, m) \o q) = h \o (f \o (<<m>> \o q))
    BY ConcatMove
  <2> QED
    BY <2>3, <2>4
<1>12. ASSUME NEW d \in Conn, NEW v \in Way, <<d, v>> # x
       PROVE  Flight(d, v)' = Flight(d, v)
  <2>1. wire'[<<d, v>>] = wire[<<d, v>>] /\ queue'[<<d, v>>] = queue[<<d, v>>]
    BY <1>6, <1>8, <1>12, StreamIs
  <2> QED
    BY <1>1, <2>1, FlightSame
<1> QED
  BY <1>1, <1>11, <1>12, Stutters

\* What a writer leaves in its queue is not delivered.
LEMMA WriterEndHides ==
  ASSUME StreamsInv, NEW c \in Conn, NEW w \in Way, WriterEnds(<<c, w>>)
  PROVE  [Promised!Next]_Promised!vars
<1>1. /\ ~conns[c].whole /\ UNCHANGED <<conns, wire, handler, rx, multi>>
      /\ \A y \in Conn \X Way : y # <<c, w>> => queue'[y] = queue[y]
  BY DEF WriterEnds, StreamsInv, TypeOK
<1>2. ASSUME NEW d \in Conn, NEW v \in Way
      PROVE  Flight(d, v)' = Flight(d, v)
  <2>1. CASE <<d, v>> = <<c, w>>
    <3>1. d = c
      BY <2>1
    <3> QED
      BY <1>1, <3>1 DEF Flight, InHand, Written, Queued, Frames
  <2>2. CASE <<d, v>> # <<c, w>>
    BY <1>1, <2>2, StreamIs, FlightSame
  <2> QED
    BY <2>1, <2>2
<1> QED
  BY <1>1, <1>2, Stutters

\* The reader takes a message in hand.
LEMMA ReadHides ==
  ASSUME StreamsInv, FramesAreWhole, NEW c \in Conn, Read(c)
  PROVE  [Promised!Next]_Promised!vars
<1>1. PICK x \in Conn \X Way : x = <<c, "up">>
  BY StreamsOfConn
<1>2. PICK s \in Seq(Item) : s = wire[x]
  BY DEF StreamsInv, TypeOK
<1>3. /\ Alternates(s) /\ Framed(s) /\ handler[c].at = "read"
      /\ UNCHANGED <<conns, queue, rx, multi>>
      /\ wire'[x] = SubSeq(s, 3, Len(s))
      /\ \A y \in Conn \X Way : y # x => wire'[y] = wire[y]
      /\ handler'[c] = [at |-> "push", msg |-> s[1].msg]
      /\ \A d \in Conn : d # c => handler'[d] = handler[d]
  <2>1. Alternates(s)
    BY <1>2 DEF FramesAreWhole, FrameIsWhole
  <2> QED
    BY <1>1, <1>2, <2>1 DEF Read, Reads, StreamsInv, TypeOK
<1>4. PICK m \in Message : m = s[1].msg /\ Frames(s) = <<m>> \o Frames(SubSeq(s, 3, Len(s)))
  BY <1>3, ReadFrames
<1> DEFINE r == Frames(SubSeq(s, 3, Len(s)))
<1>5. r \in Seq(Message)
  <2>1. Len(s) >= 2
    BY <1>3 DEF Framed
  <2> QED
    BY <2>1, ReadFacts, FramesType
<1>6. /\ InHand(c, "up") = <<>> /\ InHand(c, "up")' = <<m>>
      /\ Written(c, "up") = <<m>> \o r /\ Written(c, "up")' = r
      /\ Queued(c, "up")' = Queued(c, "up")
  <2>1. Frames(wire[x])' = Frames(wire'[x])
    BY DEF Frames
  <2>2. InHand(c, "up") = <<>> /\ InHand(c, "up")' = <<m>>
    BY <1>3, <1>4 DEF InHand
  <2>3. Queued(c, "up")' = Queued(c, "up")
    BY <1>3 DEF Queued
  <2>4. Written(c, "up") = Frames(s)
    BY <1>1, <1>2, <1>3 DEF Written
  <2>5. Written(c, "up")' = Frames(wire[x])'
    BY <1>1, <1>3 DEF Written
  <2> QED
    BY <1>3, <1>4, <2>1, <2>2, <2>3, <2>4, <2>5
<1> HIDE DEF r
<1>7. Flight(c, "up")' = Flight(c, "up")
  <2>1. Queued(c, "up") \in Seq(Message)
    BY FlightType DEF Way
  <2>2. /\ Flight(c, "up") = <<>> \o ((<<m>> \o r) \o Queued(c, "up"))
        /\ Flight(c, "up")' = <<m>> \o (r \o Queued(c, "up"))
    BY <1>6 DEF Flight
  <2>3. <<>> \o ((<<m>> \o r) \o Queued(c, "up")) = <<m>> \o (r \o Queued(c, "up"))
    BY <1>5, <2>1, ConcatFirst
  <2> QED
    BY <2>2, <2>3
<1>8. ASSUME NEW d \in Conn, NEW w \in Way, <<d, w>> # x
      PROVE  Flight(d, w)' = Flight(d, w)
  <2>1. wire'[<<d, w>>] = wire[<<d, w>>] /\ (handler'[d] = handler[d] \/ w # "up")
    BY <1>1, <1>3, <1>8, StreamIs
  <2> QED
    BY <1>3, <2>1, FlightSame
<1> QED
  BY <1>1, <1>3, <1>7, <1>8, Stutters

\* Letters, as OrderedStreams has them.
Passed == [msg : Message, by : Conn \X Way]
Stamped(l) == [msg |-> l.msg, by |-> <<l.from, "up">>]

LEMMA ArrivedType ==
  ASSUME NEW s \in Seq(Letter)
  PROVE  /\ Arrived(s) \in Seq(Passed) /\ Len(Arrived(s)) = Len(s)
         /\ \A i \in 1 .. Len(s) : Arrived(s)[i] = Stamped(s[i])
         /\ \A l \in Letter : Stamped(l) \in Passed
<1>1. /\ Len(s) \in Nat /\ DOMAIN s = 1 .. Len(s)
      /\ \A i \in 1 .. Len(s) : s[i] \in Letter
  BY LenProperties, ElementOfSeq
<1>2. \A l \in Letter : Stamped(l) \in Passed
  BY DEF Letter, Stamped, Passed, Way
<1>3. Arrived(s) = [i \in 1 .. Len(s) |-> Stamped(s[i])]
  BY <1>1 DEF Arrived, Stamped
<1>4. Arrived(s) \in [1 .. Len(s) -> Passed]
  BY <1>1, <1>2, <1>3
<1>5. Arrived(s) \in Seq(Passed)
  BY <1>1, <1>4, SeqDef
<1>6. Len(Arrived(s)) = Len(s)
  BY <1>1, <1>4, <1>5, LenProperties
<1> QED
  BY <1>2, <1>3, <1>5, <1>6

LEMMA ArrivedAppend ==
  ASSUME NEW s \in Seq(Letter), NEW e \in Letter
  PROVE  Arrived(Append(s, e)) = Append(Arrived(s), Stamped(e))
<1> DEFINE r == Append(s, e)
           a == Append(Arrived(s), Stamped(e))
           n == Len(s)
<1>1. /\ r \in Seq(Letter) /\ n \in Nat /\ Len(r) = n + 1
      /\ \A i \in 1 .. n : r[i] = s[i]
      /\ r[n + 1] = e
  BY AppendProperties, LenProperties
<1>2. /\ Arrived(s) \in Seq(Passed) /\ Len(Arrived(s)) = n /\ Stamped(e) \in Passed
      /\ \A i \in 1 .. n : Arrived(s)[i] = Stamped(s[i])
  BY ArrivedType
<1>3. /\ a \in Seq(Passed) /\ Len(a) = n + 1
      /\ \A i \in 1 .. n : a[i] = Arrived(s)[i]
      /\ a[n + 1] = Stamped(e)
  BY <1>2, AppendProperties
<1> HIDE DEF r, a, n
<1>4. /\ Arrived(r) \in Seq(Passed) /\ Len(Arrived(r)) = n + 1
      /\ \A i \in 1 .. n + 1 : Arrived(r)[i] = Stamped(r[i])
  BY <1>1, ArrivedType
<1>5. ASSUME NEW i \in 1 .. n + 1
      PROVE  Arrived(r)[i] = a[i]
  <2>1. i \in 1 .. n \/ i = n + 1
    BY <1>1
  <2> QED
    BY <1>1, <1>2, <1>3, <1>4, <2>1
<1>6. Arrived(r) = a
  BY <1>3, <1>4, <1>5, SeqEqual
<1> QED
  BY <1>6 DEF r, a

LEMMA ArrivedTail ==
  ASSUME NEW s \in Seq(Letter), s # <<>>
  PROVE  /\ Arrived(s) # <<>> /\ Head(Arrived(s)) = Stamped(Head(s))
         /\ Tail(Arrived(s)) = Arrived(Tail(s))
<1> DEFINE a == Arrived(s)
           n == Len(s)
<1>1. /\ Tail(s) \in Seq(Letter) /\ Head(s) = s[1] /\ n \in Nat \ {0}
      /\ Len(Tail(s)) = n - 1 /\ \A i \in 1 .. n - 1 : Tail(s)[i] = s[i + 1]
  BY TailFacts
<1>2. /\ a \in Seq(Passed) /\ Len(a) = n
      /\ \A i \in 1 .. n : a[i] = Stamped(s[i])
  BY ArrivedType
<1> HIDE DEF a, n
<1>3. a # <<>>
  BY <1>1, <1>2, EmptySeq
<1>4. /\ Tail(a) \in Seq(Passed) /\ Head(a) = a[1] /\ Len(Tail(a)) = n - 1
      /\ \A i \in 1 .. n - 1 : Tail(a)[i] = a[i + 1]
  BY <1>2, <1>3, TailFacts
<1>5. /\ Arrived(Tail(s)) \in Seq(Passed) /\ Len(Arrived(Tail(s))) = n - 1
      /\ \A i \in 1 .. n - 1 : Arrived(Tail(s))[i] = Stamped(Tail(s)[i])
  BY <1>1, ArrivedType
<1>6. ASSUME NEW i \in 1 .. n - 1
      PROVE  Tail(a)[i] = Arrived(Tail(s))[i]
  <2>1. i + 1 \in 1 .. n
    BY <1>1
  <2> QED
    BY <1>1, <1>2, <1>4, <1>5, <2>1
<1>7. Tail(a) = Arrived(Tail(s))
  BY <1>4, <1>5, <1>6, SeqEqual
<1>8. Head(a) = Stamped(Head(s))
  BY <1>1, <1>2, <1>4
<1> QED
  BY <1>3, <1>7, <1>8 DEF a

LEMMA OneChanges ==
  ASSUME NEW X, NEW f, NEW g, NEW x \in X, NEW v,
         f = [y \in X |-> f[y]], g = [y \in X |-> g[y]],
         g[x] = v, \A y \in X : y # x => g[y] = f[y]
  PROVE  g = [f EXCEPT ![x] = v]
OBVIOUS

\* The message in the hand of the reader of c arrives,
LEMMA PushArrives ==
  ASSUME StreamsInv, NEW c \in Conn, Push(c)
  PROVE  [Promised!Next]_Promised!vars
<1> DEFINE ch == <<c, "up">>
           x == PoolAt(c)
           l == [msg |-> handler[c].msg, from |-> c]
<1>1. /\ ch \in Conn \X Way /\ ch[1] = c /\ ch[2] = "up" /\ conns[c] # None /\ x \in Node \X Kind
      /\ handler[c].at = "push" /\ handler[c].msg \in Message /\ l \in Letter
      /\ rx \in [Node \X Kind -> Seq(Letter)]
  BY StreamsOfConn, PoolOfConn DEF Push, StreamsInv, HandlersMatch, TypeOK, Letter
<1>2. /\ UNCHANGED <<conns, wire, queue, multi>>
      /\ rx' = [rx EXCEPT ![x] = Append(@, l)]
      /\ handler'[c].at = "read"
      /\ \A d \in Conn : d # c => handler'[d] = handler[d]
  BY DEF Push, StreamsInv, TypeOK
<1>3. PICK m \in Message, f \in Seq(Message), q \in Seq(Message) :
           m = handler[c].msg /\ f = Written(c, "up") /\ q = Queued(c, "up")
  BY <1>1, FlightType DEF Way
<1>4. Flight(c, "up") = <<m>> \o (f \o q) /\ Flight(c, "up")' = <<>> \o (f \o q)
  <2>1. InHand(c, "up") = <<m>> /\ InHand(c, "up")' = <<>>
    BY <1>1, <1>2, <1>3 DEF InHand
  <2>2. Written(c, "up")' = f
    BY <1>1, <1>2, <1>3 DEF Written, Frames
  <2>3. Queued(c, "up")' = q
    BY <1>2, <1>3 DEF Queued
  <2> QED
    BY <1>3, <2>1, <2>2, <2>3 DEF Flight
<1>5. /\ Flight(c, "up") # <<>> /\ Head(Flight(c, "up")) = m
      /\ Flight(c, "up")' = Tail(Flight(c, "up"))
  <2>1. /\ <<m>> \o (f \o q) # <<>> /\ Head(<<m>> \o (f \o q)) = m
        /\ Tail(<<m>> \o (f \o q)) = <<>> \o (f \o q)
    BY ConcatFirst
  <2> QED
    BY <1>4, <2>1
<1>6. ASSUME NEW d \in Conn, NEW w \in Way, <<d, w>> # ch
      PROVE  Flight(d, w)' = Flight(d, w)
  BY <1>2, <1>6, FlightSame
<1> HIDE DEF ch, x, l
<1>7. /\ Flights[ch] = Flight(c, "up") /\ Flights'[ch] = Flight(c, "up")'
      /\ \A y \in Conn \X Way : y # ch => Flights'[y] = Flights[y]
      /\ Flights = [y \in Conn \X Way |-> Flights[y]]
      /\ Flights' = [y \in Conn \X Way |-> Flights'[y]]
  BY <1>1, <1>6, StreamIs DEF Flights
<1>8. Flights' = [Flights EXCEPT ![ch] = Tail(Flights[ch])]
  BY <1>1, <1>5, <1>7
<1>9. Ends[ch] = x /\ Ends[ch] # None
  BY <1>1, NoneIsNoPort DEF Ends, End, x
<1>10. Arrivals' = [Arrivals EXCEPT ![x] = Append(Arrivals[x], [msg |-> Head(Flights[ch]), by |-> ch])]
  <2>1. Stamped(l) = [msg |-> m, by |-> ch]
    BY <1>3 DEF Stamped, l, ch
  <2>2. Arrived(rx'[x]) = Append(Arrived(rx[x]), Stamped(l))
    BY <1>1, <1>2, ArrivedAppend
  <2>3. /\ \A y \in Node \X Kind : y # x => rx'[y] = rx[y]
        /\ Arrivals = [y \in Node \X Kind |-> Arrived(rx[y])]
        /\ Arrivals' = [y \in Node \X Kind |-> Arrived(rx'[y])]
    BY <1>1, <1>2 DEF Arrivals, Arrived
  <2>4. Head(Flights[ch]) = m
    BY <1>5, <1>7
  <2>5. Arrivals'[x] = Append(Arrivals[x], [msg |-> m, by |-> ch])
    BY <1>1, <2>1, <2>2, <2>3
  <2>6. \A y \in Node \X Kind : y # x => Arrivals'[y] = Arrivals[y]
    BY <2>3
  <2>7. Arrivals = [y \in Node \X Kind |-> Arrivals[y]] /\ Arrivals' = [y \in Node \X Kind |-> Arrivals'[y]]
    BY DEF Arrivals
  <2> QED
    BY <1>1, <2>4, <2>5, <2>6, <2>7, OneChanges
<1>11. Inboxes' = Inboxes /\ Ends' = Ends /\ Failures' = Failures
  BY <1>2, LinksSame DEF Inboxes, Arrived
<1>12. Flights[ch] # <<>> /\ Flights'[ch] = Tail(Flights[ch])
  BY <1>5, <1>7
<1>13. Promised!Arrive(ch)
  BY <1>8, <1>9, <1>10, <1>11, <1>12
     DEF Promised!Arrive, Ends, Flights, Arrivals, Inboxes, Failures
<1> QED
  BY <1>1, <1>13 DEF Promised!Next

\* passes to the inbox,
LEMMA ForwardPasses ==
  ASSUME StreamsInv, NEW n \in Node, NEW k \in Kind, Forward(n, k)
  PROVE  [Promised!Next]_Promised!vars
<1> DEFINE x == <<n, k>>
<1>1. /\ x \in Node \X Kind /\ x[1] = n
      /\ rx \in [Node \X Kind -> Seq(Letter)] /\ multi \in [Node -> Seq(Letter)]
      /\ rx[x] # <<>>
      /\ multi' = [multi EXCEPT ![n] = Append(@, Head(rx[x]))]
      /\ rx' = [rx EXCEPT ![x] = Tail(@)]
      /\ UNCHANGED <<conns, wire, queue, handler>>
  BY DEF Forward, StreamsInv, TypeOK
<1> HIDE DEF x
<1>2. Head(rx[x]) \in Letter
  BY <1>1, TailFacts
<1>3. /\ Arrived(rx[x]) # <<>> /\ Arrived(rx'[x]) = Tail(Arrived(rx[x]))
      /\ Arrived(multi'[n]) = Append(Arrived(multi[n]), Head(Arrived(rx[x])))
  BY <1>1, <1>2, ArrivedTail, ArrivedAppend
<1>4. /\ Arrivals = [y \in Node \X Kind |-> Arrived(rx[y])]
      /\ Arrivals' = [y \in Node \X Kind |-> Arrived(rx'[y])]
      /\ Inboxes = [d \in Node |-> Arrived(multi[d])]
      /\ Inboxes' = [d \in Node |-> Arrived(multi'[d])]
      /\ \A y \in Node \X Kind : y # x => rx'[y] = rx[y]
      /\ \A d \in Node : d # n => multi'[d] = multi[d]
  BY <1>1 DEF Arrivals, Inboxes, Arrived
<1>5. /\ Arrivals[x] # <<>> /\ Arrivals'[x] = Tail(Arrivals[x])
      /\ Inboxes'[n] = Append(Inboxes[n], Head(Arrivals[x]))
      /\ \A y \in Node \X Kind : y # x => Arrivals'[y] = Arrivals[y]
      /\ \A d \in Node : d # n => Inboxes'[d] = Inboxes[d]
  BY <1>1, <1>3, <1>4
<1>6. Arrivals' = [Arrivals EXCEPT ![x] = Tail(Arrivals[x])]
  BY <1>1, <1>4, <1>5
<1>7. Inboxes' = [Inboxes EXCEPT ![x[1]] = Append(Inboxes[x[1]], Head(Arrivals[x]))]
  BY <1>1, <1>4, <1>5
<1>8. Flights' = Flights /\ Ends' = Ends /\ Failures' = Failures
  <2>1. \A c \in Conn, w \in Way : Flight(c, w)' = Flight(c, w)
    BY <1>1, FlightSame
  <2> QED
    BY <1>1, <2>1, StreamIs, LinksSame DEF Flights
<1>9. Promised!Pass(x)
  BY <1>5, <1>6, <1>7, <1>8
     DEF Promised!Pass, Ends, Flights, Arrivals, Inboxes, Failures
<1>10. x \in Promised!Port
  BY <1>1 DEF Promised!Port
<1> QED
  BY <1>9, <1>10 DEF Promised!Next

\* and is taken.
LEMMA ReceiveTakes ==
  ASSUME StreamsInv, NEW n \in Node, Receive(n)
  PROVE  [Promised!Next]_Promised!vars
<1>1. /\ multi \in [Node -> Seq(Letter)] /\ multi[n] # <<>>
      /\ multi' = [multi EXCEPT ![n] = Tail(@)]
      /\ UNCHANGED <<conns, wire, queue, handler, rx>>
  BY DEF Receive, StreamsInv, TypeOK
<1>2. Arrived(multi[n]) # <<>> /\ Arrived(multi'[n]) = Tail(Arrived(multi[n]))
  BY <1>1, ArrivedTail
<1>3. /\ Inboxes = [d \in Node |-> Arrived(multi[d])]
      /\ Inboxes' = [d \in Node |-> Arrived(multi'[d])]
      /\ \A d \in Node : d # n => multi'[d] = multi[d]
  BY <1>1 DEF Inboxes, Arrived
<1>4. Inboxes[n] # <<>> /\ Inboxes'[n] = Tail(Inboxes[n])
  BY <1>2, <1>3
<1>5. Inboxes' = [Inboxes EXCEPT ![n] = Tail(Inboxes[n])]
  BY <1>3, <1>4
<1>6. Flights' = Flights /\ Ends' = Ends /\ Failures' = Failures /\ Arrivals' = Arrivals
  <2>1. \A c \in Conn, w \in Way : Flight(c, w)' = Flight(c, w)
    BY <1>1, FlightSame
  <2> QED
    BY <1>1, <2>1, StreamIs, LinksSame DEF Flights, Arrivals, Arrived
<1>7. Promised!Take(n)
  BY <1>4, <1>5, <1>6
     DEF Promised!Take, Ends, Flights, Arrivals, Inboxes, Failures
<1> QED
  BY <1>7 DEF Promised!Next

\* Connections begin
LEMMA EndType ==
  ASSUME TypeOK, NEW c \in Conn, NEW w \in Way
  PROVE  /\ End(c, w) \in (Node \X Kind) \cup {None}
         /\ End(c, w) = None <=> conns[c] = None
<1>1. CASE conns[c] = None
  BY <1>1 DEF End
<1>2. CASE conns[c] # None
  <2>1. conns[c] \in Link
    BY <1>2 DEF TypeOK
  <2>2. End(c, w) \in Node \X Kind
    BY <1>2, <2>1 DEF End, PoolAt, Link
  <2> QED
    BY <1>2, <2>2, NoneIsNoPort
<1> QED
  BY <1>1, <1>2

LEMMA DialConnects ==
  ASSUME StreamsInv, TypeOK', NEW t \in Task, NEW c \in Conn, Dials(t, c), UNCHANGED queue
  PROVE  [Promised!Next]_Promised!vars
<1>1. /\ conns[c] = None /\ conns'[c] # None /\ conns'[c].whole
      /\ \A d \in Conn : d # c => conns'[d] = conns[d] /\ handler'[d] = handler[d]
      /\ handler[c].at = "none" /\ handler'[c].at \in {"backlog", "upgrade"}
      /\ UNCHANGED <<wire, rx, multi, queue>>
  <2>1. conns' = [conns EXCEPT ![c] = [kind |-> op[t].kind, from |-> op[t].home,
                                       to |-> op[t].to, whole |-> TRUE]]
    BY DEF Dials
  <2>2. conns \in [Conn -> Link \cup {None}] /\ conns' \in [Conn -> Link \cup {None}]
        /\ handler \in [Conn -> Handler]
    BY DEF StreamsInv, TypeOK
  <2>3. op[t].kind \in Kind /\ op[t].home \in Node /\ op[t].to \in Node
    BY TaskAtWork DEF Dials, StreamsInv
  <2>4. conns'[c] \in Link /\ conns'[c].whole
    BY <2>1, <2>2, <2>3 DEF Link
  <2>5. handler[c].at = "none"
    BY DEF Dials, StreamsInv, HandlersMatch
  <2>6. /\ handler'[c].at \in {"backlog", "upgrade"}
        /\ \A d \in Conn : d # c => handler'[d] = handler[d]
    BY <2>2 DEF Dials, Handler
  <2>7. \A d \in Conn : d # c => conns'[d] = conns[d]
    BY <2>1, <2>2
  <2>8. conns[c] = None /\ UNCHANGED <<wire, rx, multi, queue>>
    BY DEF Dials
  <2> QED
    BY <2>4, <2>5, <2>6, <2>7, <2>8, NoneIsNoLink
<1>2. ASSUME NEW d \in Conn, NEW w \in Way
      PROVE  Flight(d, w)' = Flight(d, w)
  <2>1. CASE d = c
    <3>1. <<c, w>> \in Conn \X Way
      OBVIOUS
    <3>2. queue[<<c, w>>].q = <<>>
      BY <1>1, <3>1 DEF StreamsInv, QueuesMatch
    <3>3. Queued(c, w) = <<>> /\ Queued(c, w)' = <<>>
      BY <1>1, <3>2 DEF Queued
    <3>4. InHand(c, w) = <<>> /\ InHand(c, w)' = <<>>
      BY <1>1 DEF InHand
    <3>5. Written(c, w)' = Written(c, w)
      BY <1>1 DEF Written, Frames
    <3> QED
      BY <2>1, <3>3, <3>4, <3>5 DEF Flight
  <2>2. CASE d # c
    BY <1>1, <2>2, FlightSame
  <2> QED
    BY <2>1, <2>2
<1>3. Flights' = Flights /\ Arrivals' = Arrivals /\ Inboxes' = Inboxes
  BY <1>1, <1>2, StreamIs DEF Flights, Arrivals, Inboxes, Arrived
<1>4. ASSUME NEW x \in Conn \X Way
      PROVE  /\ Ends'[x] \in (Node \X Kind) \cup {None}
             /\ Ends[x] # None => Ends'[x] = Ends[x]
             /\ Broken(x[1])' <=> Broken(x[1])
  <2>1. x[1] \in Conn /\ x[2] \in Way
    BY StreamIs
  <2>2. Ends'[x] = End(x[1], x[2])' /\ Ends[x] = End(x[1], x[2])
    BY DEF Ends
  <2>3. conns'[x[1]] = None \/ conns'[x[1]] \in Link
    BY <2>1 DEF TypeOK
  <2>4. End(x[1], x[2])' \in (Node \X Kind) \cup {None}
    BY <2>3 DEF End, PoolAt, Link
  <2>5. CASE x[1] = c
    <3>1. End(x[1], x[2]) = None
      BY <1>1, <2>5 DEF End
    <3>2. ~Broken(x[1])' /\ ~Broken(x[1])
      BY <1>1, <2>5 DEF Broken
    <3> QED
      BY <2>2, <2>4, <3>1, <3>2
  <2>6. CASE x[1] # c
    <3>1. End(x[1], x[2])' = End(x[1], x[2])
      BY <1>1, <2>1, <2>6 DEF End, PoolAt
    <3>2. Broken(x[1])' <=> Broken(x[1])
      BY <1>1, <2>1, <2>6 DEF Broken
    <3> QED
      BY <2>2, <2>4, <3>1, <3>2
  <2> QED
    BY <2>5, <2>6
<1>5. Ends' \in [Conn \X Way -> (Node \X Kind) \cup {None}]
  <2>1. Ends' = [x \in Conn \X Way |-> Ends'[x]]
    BY DEF Ends
  <2> QED
    BY <1>4, <2>1
<1>6. Failures' = Failures
  BY <1>4 DEF Failures
<1>7. Promised!Connect
  BY <1>3, <1>4, <1>5, <1>6
     DEF Promised!Connect, Promised!Port, Ends, Flights, Arrivals, Inboxes, Failures
<1> QED
  BY <1>7 DEF Promised!Next

\* and fail.
LEMMA Loses ==
  ASSUME TypeOK, UNCHANGED <<rx, multi>>, Ends' = Ends,
         \A c \in Conn : Broken(c) => Broken(c)',
         \A c \in Conn : Broken(c)' => conns[c] # None,
         \A c \in Conn, w \in Way :
           \/ Flight(c, w)' = Flight(c, w)
           \/ Broken(c)' /\ StartOf(Flight(c, w)', Flight(c, w))
  PROVE  [Promised!Next]_Promised!vars
<1>1. Arrivals' = Arrivals /\ Inboxes' = Inboxes
  BY DEF Arrivals, Inboxes, Arrived
<1>2. Failures \subseteq Failures' /\ \A x \in Failures' : Ends[x] # None
  BY StreamIs, EndType DEF Failures, Ends
<1>3. DOMAIN Flights' = Conn \X Way
  BY DEF Flights
<1>4. ASSUME NEW x \in Conn \X Way
      PROVE  \/ Flights'[x] = Flights[x]
             \/ x \in Failures' /\ StartOf(Flights'[x], Flights[x])
  <2>1. x[1] \in Conn /\ x[2] \in Way
    BY StreamIs
  <2>2. Flights'[x] = Flight(x[1], x[2])' /\ Flights[x] = Flight(x[1], x[2])
    BY DEF Flights
  <2>3. Broken(x[1])' => x \in Failures'
    BY DEF Failures
  <2> QED
    BY <2>1, <2>2, <2>3
<1>5. Promised!Lose
  BY <1>1, <1>2, <1>3, <1>4
     DEF Promised!Lose, StartOf, Ends, Flights, Arrivals, Inboxes, Failures
<1> QED
  BY <1>5 DEF Promised!Next

LEMMA FailLoses ==
  ASSUME StreamsInv, NEW c \in Conn, Fail(c)
  PROVE  [Promised!Next]_Promised!vars
<1>1. /\ conns[c] # None /\ conns[c].whole /\ conns[c] \in Link
      /\ conns' = [conns EXCEPT ![c].whole = FALSE]
      /\ UNCHANGED <<wire, queue, handler, rx, multi>>
      /\ conns \in [Conn -> Link \cup {None}]
  BY DEF Fail, StreamsInv, TypeOK
<1>2. /\ conns'[c] \in Link /\ ~conns'[c].whole /\ conns'[c].kind = conns[c].kind
      /\ conns'[c].from = conns[c].from /\ conns'[c].to = conns[c].to
      /\ \A d \in Conn : d # c => conns'[d] = conns[d]
  BY <1>1 DEF Link
<1>3. conns'[c] # None
  BY <1>2, NoneIsNoLink
<1>4. Ends' = Ends
  <2>1. \A d \in Conn, w \in Way : End(d, w)' = End(d, w)
    BY <1>1, <1>2, <1>3 DEF End, PoolAt
  <2> QED
    BY <2>1, StreamIs DEF Ends
<1>5. /\ \A d \in Conn : Broken(d) => Broken(d)'
      /\ \A d \in Conn : Broken(d)' => conns[d] # None
      /\ Broken(c)'
  BY <1>1, <1>2, <1>3 DEF Broken
<1>6. ASSUME NEW d \in Conn, NEW w \in Way
      PROVE  \/ Flight(d, w)' = Flight(d, w)
             \/ Broken(d)' /\ StartOf(Flight(d, w)', Flight(d, w))
  <2>1. CASE d = c
    <3>1. InHand(c, w)' = InHand(c, w) /\ Written(c, w)' = Written(c, w) /\ Queued(c, w)' = <<>>
      BY <1>1, <1>2 DEF InHand, Written, Queued, Frames
    <3>2. PICK h \in Seq(Message), f \in Seq(Message), q \in Seq(Message) :
               h = InHand(c, w) /\ f = Written(c, w) /\ q = Queued(c, w)
      BY FlightType
    <3>3. Flight(c, w) = h \o (f \o q) /\ Flight(c, w)' = h \o (f \o <<>>)
      BY <3>1, <3>2 DEF Flight
    <3>4. StartOf(h \o (f \o <<>>), h \o (f \o q))
      BY ConcatPrefix
    <3> QED
      BY <1>5, <2>1, <3>3, <3>4
  <2>2. CASE d # c
    BY <1>1, <1>2, <2>2, FlightSame
  <2> QED
    BY <2>1, <2>2
<1> QED
  BY <1>1, <1>4, <1>5, <1>6, Loses DEF StreamsInv

\* What was under way on a failed connection is lost with its reader.
LEMMA ReaderLoses ==
  ASSUME StreamsInv, NEW c \in Conn, Broken(c), handler[c].at # "push",
         At(c, "ended"), UNCHANGED <<conns, wire, queue, rx, multi>>
  PROVE  [Promised!Next]_Promised!vars
<1>1. handler'[c].at = "ended" /\ \A d \in Conn : d # c => handler'[d] = handler[d]
  BY DEF At, StreamsInv, TypeOK
<1>2. /\ Ends' = Ends
      /\ \A d \in Conn : Broken(d)' <=> Broken(d)
      /\ \A d \in Conn : Broken(d) => conns[d] # None
  BY LinksSame DEF Broken
<1>3. ASSUME NEW d \in Conn, NEW w \in Way
      PROVE  \/ Flight(d, w)' = Flight(d, w)
             \/ Broken(d)' /\ StartOf(Flight(d, w)', Flight(d, w))
  <2>1. CASE d = c /\ w = "up"
    <3>1. /\ InHand(c, "up")' = <<>> /\ Written(c, "up")' = <<>> /\ Queued(c, "up")' = <<>>
      BY <1>1 DEF InHand, Written, Queued, Broken
    <3>2. Flight(c, "up")' = <<>>
      BY <3>1, ConcatEmptySeq, EmptySeq DEF Flight
    <3>3. PICK h \in Seq(Message), f \in Seq(Message), q \in Seq(Message) :
               h = InHand(c, w) /\ f = Written(c, w) /\ q = Queued(c, w)
      BY FlightType
    <3>4. Flight(c, w) = h \o (f \o q)
      BY <3>3 DEF Flight
    <3>5. StartOf(<<>>, h \o (f \o q))
      BY ConcatPrefix
    <3> QED
      BY <1>2, <2>1, <3>2, <3>4, <3>5
  <2>2. CASE ~(d = c /\ w = "up")
    BY <1>1, <2>2, FlightSame
  <2> QED
    BY <2>1, <2>2
<1> QED
  BY <1>2, <1>3, Loses DEF StreamsInv

\* Every step is one of the promised ones or shows nothing.
LEMMA SendStepPromised ==
  ASSUME StreamsInv, FramesAreWhole, EndedHasFailed, [Next]_vars, TypeOK',
         NEW t \in Task, SendStep(t) \/ NotConnected(t)
  PROVE  [Promised!Next]_Promised!vars
<1>1. CASE Found(t) \/ NotUpgraded(t) \/ WriteVanishes(t) \/ EnqueueFails(t) \/ NotConnected(t)
  <2>1. UNCHANGED <<conns, rx, multi, wire, queue, handler>>
    BY <1>1 DEF Found, NotUpgraded, WriteVanishes, EnqueueFails, NotConnected
  <2> QED
    BY <2>1, Quiet
<1>2. CASE Upgraded(t)
  <2>1. UNCHANGED <<conns, rx, multi, wire, handler>>
    BY <1>2 DEF Upgraded
  <2>2. \A x \in Conn \X Way : queue'[x].q = queue[x].q
    BY <1>2, OpensKeeps DEF Upgraded, StreamsInv
  <2> QED
    BY <2>1, <2>2, Quiet
<1>3. CASE \E c \in Conn : Connect(t, c) \/ ConnectWs(t, c)
  BY <1>3, DialConnects DEF Connect, ConnectWs
<1>4. CASE WriteHeader(t)
  BY <1>4, HeaderHides
<1>5. CASE WriteBody(t)
  BY <1>5, BodySends
<1>6. CASE Enqueue(t)
  BY <1>6, EnqueueSends
<1> QED
  BY <1>1, <1>2, <1>3, <1>4, <1>5, <1>6 DEF SendStep

LEMMA ConnStepPromised ==
  ASSUME StreamsInv, FramesAreWhole, EndedHasFailed, [Next]_vars,
         NEW c \in Conn, ConnStep(c)
  PROVE  [Promised!Next]_Promised!vars
<1>1. /\ handler \in [Conn -> Handler] /\ queue \in [Conn \X Way -> [open : BOOLEAN, q : Seq(Message)]]
      /\ handler[c].at # "none" => conns[c] # None
  BY DEF StreamsInv, TypeOK, HandlersMatch
<1>2. CASE Accept(c) \/ Upgrade(c) \/ Insert(c)
  <2>1. UNCHANGED <<conns, rx, multi, wire>>
    BY <1>2 DEF Accept, Upgrade, Insert
  <2>2. \A x \in Conn \X Way : queue'[x].q = queue[x].q
    <3>1. Accept(c) \/ Upgrade(c) => UNCHANGED queue
      BY DEF Accept, Upgrade
    <3>2. ASSUME Insert(c)
          PROVE  queue' = [queue EXCEPT ![<<c, "down">>].open = conns[c].kind = "ws"]
      BY <3>2 DEF Insert
    <3> QED
      BY <1>2, <3>1, <3>2, OpensKeeps DEF StreamsInv
  <2>3. /\ handler[c].at \in {"backlog", "upgrade", "insert"}
        /\ \E at \in {"insert", "read"} : At(c, at)
    BY <1>2 DEF Accept, Upgrade, Insert, Awaits
  <2>4. handler'[c].at \notin {"push", "ended"} /\ \A d \in Conn : d # c => handler'[d] = handler[d]
    BY <1>1, <2>3 DEF At, Handler
  <2> QED
    BY <2>1, <2>2, <2>3, <2>4, Quiet
<1>3. CASE UpgradeFails(c)
  <2>1. /\ Broken(c) /\ handler[c].at # "push" /\ At(c, "ended")
        /\ UNCHANGED <<conns, wire, queue, rx, multi>>
    BY <1>1, <1>3 DEF UpgradeFails, Broken
  <2> QED
    BY <2>1, ReaderLoses
<1>4. CASE ReadFails(c)
  <2>1. PICK s \in Seq(Item) : s = wire[<<c, "up">>] /\ Alternates(s)
    <3>1. <<c, "up">> \in Conn \X Way
      BY StreamsOfConn
    <3>2. wire[<<c, "up">>] \in Seq(Item)
      BY <3>1 DEF StreamsInv, TypeOK
    <3>3. Alternates(wire[<<c, "up">>])
      BY <3>1 DEF FramesAreWhole, FrameIsWhole
    <3> QED
      BY <3>2, <3>3
  <2>2. ~Garbled(wire[<<c, "up">>])
    BY <2>1, NeverGarbled
  <2>3. /\ Broken(c) /\ handler[c].at # "push" /\ At(c, "ended")
        /\ UNCHANGED <<conns, wire, queue, rx, multi>>
    BY <1>1, <1>4, <2>2 DEF ReadFails, Reads, Broken
  <2> QED
    BY <2>3, ReaderLoses
<1>5. CASE Read(c)
  BY <1>5, ReadHides
<1>6. CASE Push(c)
  BY <1>6, PushArrives
<1>7. CASE \E w \in Way : Writer(<<c, w>>) \/ WriterEnds(<<c, w>>)
  BY <1>7, WriterHides, WriterEndHides
<1> QED
  BY <1>2, <1>3, <1>4, <1>5, <1>6, <1>7 DEF ConnStep

LEMMA StepPromised ==
  ASSUME StreamsInv, FramesAreWhole, EndedHasFailed, [Next]_vars
  PROVE  [Promised!Next]_Promised!vars
<1>1. TypeOK'
  BY StepType DEF StreamsInv
<1>2. ASSUME UNCHANGED <<conns, rx, multi, wire, queue, handler>>
      PROVE  [Promised!Next]_Promised!vars
  BY <1>2, Quiet
<1>3. CASE (\E t \in Sender : Begin(t)) \/ UNCHANGED vars
  <2>1. UNCHANGED <<conns, rx, multi, wire, queue, handler>>
    BY <1>3 DEF Begin, vars
  <2> QED
    BY <1>2, <2>1
<1>4. CASE \E t \in Task : SendStep(t) \/ NotConnected(t)
  BY <1>1, <1>4, SendStepPromised
<1>5. CASE \E c \in Conn : ConnStep(c)
  BY <1>5, ConnStepPromised
<1>6. CASE \E n \in Node : Receive(n) \/ \E k \in Kind : Forward(n, k)
  BY <1>6, ReceiveTakes, ForwardPasses
<1>7. CASE \E c \in Conn : Fail(c)
  BY <1>7, FailLoses
<1> QED
  BY <1>3, <1>4, <1>5, <1>6, <1>7 DEF Next, Step

LEMMA InitPromised == Init => Promised!Init
<1> SUFFICES ASSUME Init PROVE Promised!Init
  OBVIOUS
<1>1. Frames(<<>>) = <<>> /\ Arrived(<<>>) = <<>>
  <2>1. <<>> \in Seq(Item) /\ Len(<<>>) = 0 /\ <<>> \in Seq(Letter)
    BY EmptySeq
  <2>2. 0 \div 2 = 0
    BY SMT
  <2>3. Frames(<<>>) \in Seq(Message) /\ Len(Frames(<<>>)) = 0
    BY <2>1, <2>2, FramesType
  <2>4. Arrived(<<>>) \in Seq(Passed) /\ Len(Arrived(<<>>)) = 0
    BY <2>1, ArrivedType
  <2> QED
    BY <2>3, <2>4, EmptySeq
<1>2. ASSUME NEW x \in Conn \X Way
      PROVE  End(x[1], x[2]) = None /\ Flight(x[1], x[2]) = <<>> /\ ~Broken(x[1])
  <2>1. x[1] \in Conn /\ x = <<x[1], x[2]>> /\ wire[x] = <<>> /\ conns[x[1]] = None
    BY StreamIs DEF Init
  <2>2. InHand(x[1], x[2]) = <<>> /\ Written(x[1], x[2]) = <<>> /\ Queued(x[1], x[2]) = <<>>
    BY <1>1, <2>1 DEF Init, InHand, Written, Queued
  <2>3. Flight(x[1], x[2]) = <<>>
    BY <2>2, ConcatEmptySeq, EmptySeq DEF Flight
  <2> QED
    BY <2>1, <2>3 DEF End, Broken
<1>3. \A x \in Node \X Kind : Arrived(rx[x]) = <<>>
  BY <1>1 DEF Init
<1>4. \A n \in Node : Arrived(multi[n]) = <<>>
  BY <1>1 DEF Init
<1> QED
  BY <1>2, <1>3, <1>4 DEF Promised!Init, Promised!Port

-----------------------------------------------------------------------------
(* Theorems *)

LEMMA InitStreams == Init => StreamsInv /\ FramesAreWhole /\ EndedHasFailed
<1> SUFFICES ASSUME Init PROVE StreamsInv /\ FramesAreWhole /\ EndedHasFailed
  OBVIOUS
<1>1. /\ <<>> \in Seq(Task \cup Conn) /\ <<>> \in Seq(Item) /\ <<>> \in Seq(Message)
      /\ <<>> \in Seq(Letter)
      /\ Len(<<>>) = 0 /\ DOMAIN <<>> = {} /\ Range(<<>>) = {} /\ IsInjective(<<>>)
  BY EmptySeq DEF Range, IsInjective
<1>2. Idle \in Sending /\ [at |-> "none", msg |-> None] \in Handler
  BY DEF Idle, Sending, Handler
<1>3. 0 \in 0 .. MaxFail /\ Jobs \subseteq [Sender -> Seq(Job)]
  BY StreamsAssumption DEF StreamsAssumption
<1>4. TypeOK
  BY <1>1, <1>2, <1>3 DEF Init, TypeOK
<1>5. InBounds
  BY <1>1, Capacities DEF Init, InBounds
<1>6. SendersMatch
  BY DEF Init, SendersMatch, SenderMatches, Idle
<1>7. HandlersMatch /\ QueuesMatch /\ LettersMatch /\ PoolsMatch
  BY <1>1 DEF Init, HandlersMatch, QueuesMatch, LettersMatch, PoolsMatch
<1>8. LocksMatch
  <2>1. \A x : WantMap(x) = {} /\ WantStream(x) = {}
    BY DEF Init, WantMap, WantStream, Idle
  <2> QED
    BY <1>1, <2>1 DEF Init, LocksMatch, Idle
<1>9. FramesAreWhole
  BY <1>1 DEF Init, FramesAreWhole, FrameIsWhole, Alternates, Incomplete, Writes, Idle
<1>10. EndedHasFailed
  BY DEF Init, EndedHasFailed
<1> QED
  BY <1>4, <1>5, <1>6, <1>7, <1>8, <1>9, <1>10 DEF StreamsInv

LEMMA StepStreams ==
  ASSUME StreamsInv, [Next]_vars
  PROVE  StreamsInv'
BY StepType, StepBounds, StepSenders, StepHandlers, StepQueues, StepLetters, StepPools, StepLocks
   DEF StreamsInv

\* Whatever the tasks of all devices do in whatever order, and whichever
\* connections fail half way: every mutex is wanted by exactly the tasks whose
\* next step needs it and held by the one that is past it, every entry of a map
\* leads to a connection with the device it names, every task sends over a
\* connection of its own device, letters stay with the device they came to and
\* nothing overflows (tcp.rs:47-112, ws.rs:55-150, multi.rs:40-60).
THEOREM StreamsInvariant == Spec => []StreamsInv
<1>1. Init => StreamsInv
  BY InitStreams
<1>2. StreamsInv /\ [Next]_vars => StreamsInv'
  BY StepStreams
<1> QED
  BY <1>1, <1>2, PTL DEF Spec

\* No frame is ever torn: what is on the wire is whole frames, and at most one
\* more that the task that has the stream is still writing or that a failed
\* connection will not deliver (tcp.rs:62-69, ws.rs:71-150, frame.rs).
THEOREM FramesStayWhole == Spec => []FramesAreWhole
<1>1. Init => StreamsInv /\ FramesAreWhole
  BY InitStreams
<1>2. StreamsInv /\ FramesAreWhole /\ [Next]_vars => StreamsInv' /\ FramesAreWhole'
  BY StepStreams, StepFrames
<1> QED
  BY <1>1, <1>2, PTL DEF Spec

\* No reader gives up a connection that works: what it finds is never anything
\* but a frame (tcp.rs:114-117, ws.rs:142-147).
THEOREM ReadersGoOn == Spec => []EndedHasFailed
<1>1. Init => StreamsInv /\ FramesAreWhole /\ EndedHasFailed
  BY InitStreams
<1>2. /\ StreamsInv /\ FramesAreWhole /\ EndedHasFailed /\ [Next]_vars
      => StreamsInv' /\ FramesAreWhole' /\ EndedHasFailed'
  BY StepStreams, StepFrames, StepEnded
<1> QED
  BY <1>1, <1>2, PTL DEF Spec

\* Locks, frames, the queues of WebSocket writers, readers and bounded channels
\* together make ordered streams: each way of a connection delivers what was
\* sent whole, once and in order, from any number of tasks that send at once,
\* and nothing is lost but the last messages of a connection that has failed
\* (tcp.rs:62-112, ws.rs:71-150, multi.rs:40-60).
THEOREM OrderedStreamsImplemented == Spec => ImplementsOrderedStreams
<1>1. Init => Promised!Init /\ StreamsInv /\ FramesAreWhole /\ EndedHasFailed
  BY InitStreams, InitPromised
<1>2. /\ StreamsInv /\ FramesAreWhole /\ EndedHasFailed /\ [Next]_vars
      => StreamsInv' /\ FramesAreWhole' /\ EndedHasFailed'
  BY StepStreams, StepFrames, StepEnded
<1>3. StreamsInv /\ FramesAreWhole /\ EndedHasFailed /\ [Next]_vars
      => [Promised!Next]_Promised!vars
  BY StepPromised
<1> QED
  BY <1>1, <1>2, <1>3, PTL DEF Spec, ImplementsOrderedStreams, Promised!Spec
=============================================================================
