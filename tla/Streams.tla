------------------------------- MODULE Streams -------------------------------
(***************************************************************************)
(* The TCP and WebSocket transports of every device and the MultiTransport *)
(* that joins them (transport/src/tcp.rs, ws.rs, multi.rs, frame.rs), with *)
(* the tasks that send and the inbound loop that receives and replies.     *)
(*                                                                         *)
(* A connection c has two ways: "up" from the device that dialled to the   *)
(* one that accepted, "down" back.  Its dialler is known to the other by   *)
(* an address of its own, the ephemeral port, for which c itself stands.   *)
(* A mutex is the queue of the tasks that hold or want it, first come      *)
(* first served, as tokio's is.                                            *)
(*                                                                         *)
(* Abstracted: a frame is its header and its body; what is written to a    *)
(* connection that has failed vanishes, which its sender may learn of or   *)
(* not.  One message on its way from a transport's channel to the common   *)
(* one counts as being in the former.  Processes do not end.               *)
(***************************************************************************)
EXTENDS Naturals, Sequences, Functions

CONSTANTS
  Node,        \* devices, also standing for their listening address
  Conn,        \* connections, also standing for their ephemeral address
  Sender,      \* tasks that send to addresses of their own choice
  Id,          \* names of messages
  Jobs,        \* what tasks may have to send: jobs[t] is sent one after the other
  None,
  MaxFail,     \* bound on connections that fail, or are not made
  Buffer,      \* header and bodies that fit in one way of a connection
  WriteQueue,  \* capacity of the queue of a WebSocket writer
  RxQueue,     \* capacity of the channel of one transport
  MultiQueue   \* capacity of the channel of the MultiTransport

Kind == {"tcp", "ws"}
Way == {"up", "down"}
Task == Sender \cup Node  \* the inbound loop of n is the task n
Place == Node \cup Conn   \* addresses

Message == [id : Id, type : {"ask", "tell", "answer"}]
Job == [kind : Kind, home : Node, to : Node, msg : Message]
Link == [kind : Kind, from : Node, to : Node, whole : BOOLEAN]
Sending == [at : {"idle", "pool", "upgrade", "stream", "body", "queue"},
            kind : Kind \cup {None}, home : Node \cup {None}, to : Place \cup {None},
            msg : Message \cup {None}, conn : Conn \cup {None}]
Handler == [at : {"none", "backlog", "upgrade", "insert", "read", "push", "ended"},
            msg : Message \cup {None}]
Item == [part : {"header", "body"}, msg : Message]  \* of a frame
Letter == [msg : Message, from : Conn]              \* in a channel

ASSUME StreamsAssumption ==
  /\ Node \cap Conn = {} /\ Sender \cap Place = {}
  /\ None \notin Task \cup Place \cup Kind \cup Message \cup Link \cup (Node \X Kind)
  /\ Jobs \subseteq [Sender -> Seq(Job)]
  /\ MaxFail \in Nat
  /\ {Buffer, WriteQueue, RxQueue, MultiQueue} \subseteq Nat \ {0}

VARIABLES
  conns,    \* conns[c]: [kind, from, to, whole], or None
  pool,     \* pool[n, k]: the map conns of the transport k of n
  holders,  \* holders[n, k]: the mutex around that map
  writers,  \* writers[c, w]: the mutex around the stream of c at the end that writes way w
  wire,     \* wire[c, w]: what has been written and not read
  queue,    \* queue[c, w]: [open, q] of the WebSocket writer, the Sender in its map
  handler,  \* handler[c]: the task that serves c at the accepting end, [at, msg]
  rx,       \* rx[n, k]: the channel of a transport
  multi,    \* multi[n]: the common channel
  op,       \* op[t]: where t is in send_to
  todo,     \* todo[t]: what t has still to send
  fails     \* failures so far

netVars == <<conns, wire>>
vars == <<conns, pool, holders, writers, wire, queue, handler, rx, multi, op, todo, fails>>

Idle == [at |-> "idle", kind |-> None, home |-> None, to |-> None, msg |-> None, conn |-> None]

Init ==
  /\ conns = [c \in Conn |-> None]
  /\ pool = [x \in Node \X Kind |-> [a \in Place |-> None]]
  /\ holders = [x \in Node \X Kind |-> <<>>]
  /\ writers = [x \in Conn \X Way |-> <<>>]
  /\ wire = [x \in Conn \X Way |-> <<>>]
  /\ queue = [x \in Conn \X Way |-> [open |-> FALSE, q |-> <<>>]]
  /\ handler = [c \in Conn |-> [at |-> "none", msg |-> None]]
  /\ rx = [x \in Node \X Kind |-> <<>>]
  /\ multi = [n \in Node |-> <<>>]
  /\ op = [t \in Task |-> Idle]
  /\ todo \in Jobs
  /\ fails = 0

-----------------------------------------------------------------------------
(* Mutexes *)

Asks(mutex, x, t) == mutex' = [mutex EXCEPT ![x] = Append(@, t)]
Gives(mutex, x) == mutex' = [mutex EXCEPT ![x] = Tail(@)]
Has(mutex, x, t) == mutex[x] # <<>> /\ Head(mutex[x]) = t

-----------------------------------------------------------------------------
(* send_to *)

Pool(t) == <<op[t].home, op[t].kind>>
StreamTo(c, t) == <<c, IF conns[c].from = op[t].home THEN "up" ELSE "down">>
Stream(t) == StreamTo(op[t].conn, t)
Stays(t, at) == op' = [op EXCEPT ![t].at = at]
Done(t) == op' = [op EXCEPT ![t] = Idle]

\* MultiTransport chooses the transport, which asks for its map.
Sends(t, job) ==
  /\ op[t].at = "idle"
  /\ op' = [op EXCEPT ![t] = [at |-> "pool", kind |-> job.kind, home |-> job.home,
                              to |-> job.to, msg |-> job.msg, conn |-> None]]
  /\ Asks(holders, <<job.home, job.kind>>, t)

Begin(t) ==
  /\ todo[t] # <<>>
  /\ Sends(t, Head(todo[t]))
  /\ todo' = [todo EXCEPT ![t] = Tail(@)]
  /\ UNCHANGED <<conns, pool, writers, wire, queue, handler, rx, multi, fails>>

\* The map has a connection for the address; a WebSocket one must have its
\* writer, a TCP one may have failed long ago.
Known(t) == pool[Pool(t)][op[t].to]
Usable(t) ==
  Known(t) # None /\ (op[t].kind = "ws" => queue[StreamTo(Known(t), t)].open)

Found(t) ==
  /\ op[t].at = "pool" /\ Has(holders, Pool(t), t)
  /\ Usable(t)
  /\ IF op[t].kind = "tcp"
       THEN /\ op' = [op EXCEPT ![t].conn = Known(t), ![t].at = "stream"]
            /\ Asks(writers, StreamTo(Known(t), t), t)
       ELSE op' = [op EXCEPT ![t].conn = Known(t), ![t].at = "queue"] /\ UNCHANGED writers
  /\ Gives(holders, Pool(t))
  /\ UNCHANGED <<conns, pool, wire, queue, handler, rx, multi, todo, fails>>

\* A connection to an address somebody listens at.
Dials(t, c) ==
  /\ op[t].at = "pool" /\ Has(holders, Pool(t), t)
  /\ ~Usable(t) /\ op[t].to \in Node
  /\ conns[c] = None /\ c = CHOOSE d \in Conn : conns[d] = None
  /\ conns' = [conns EXCEPT ![c] = [kind |-> op[t].kind, from |-> op[t].home,
                                    to |-> op[t].to, whole |-> TRUE]]
  /\ handler' = [handler EXCEPT ![c].at = IF op[t].kind = "tcp" THEN "backlog" ELSE "upgrade"]
  /\ UNCHANGED <<wire, rx, multi, todo, fails>>

\* TcpStream::connect does not wait for the other's accept.
Connect(t, c) ==
  /\ op[t].kind = "tcp" /\ Dials(t, c)
  /\ pool' = [pool EXCEPT ![Pool(t)][op[t].to] = c]
  /\ op' = [op EXCEPT ![t].conn = c, ![t].at = "stream"]
  /\ Asks(writers, <<c, "up">>, t)
  /\ Gives(holders, Pool(t))
  /\ UNCHANGED queue

\* connect_async does: the upgrade needs an answer, and the map stays locked.
ConnectWs(t, c) ==
  /\ op[t].kind = "ws" /\ Dials(t, c)
  /\ op' = [op EXCEPT ![t].conn = c, ![t].at = "upgrade"]
  /\ UNCHANGED <<pool, holders, writers, queue>>

Upgraded(t) ==
  LET c == op[t].conn
  IN /\ op[t].at = "upgrade"
     /\ handler[c].at # "upgrade" /\ conns[c].whole
     /\ pool' = [pool EXCEPT ![Pool(t)][op[t].to] = c]
     /\ queue' = [queue EXCEPT ![<<c, "up">>].open = TRUE]
     /\ Stays(t, "queue")
     /\ Gives(holders, Pool(t))
     /\ UNCHANGED <<conns, writers, wire, handler, rx, multi, todo, fails>>

\* Nobody listens at an ephemeral address; others may be out of reach.
NotConnected(t) ==
  /\ op[t].at = "pool" /\ Has(holders, Pool(t), t)
  /\ ~Usable(t)
  /\ IF op[t].to \in Conn THEN UNCHANGED fails ELSE fails < MaxFail /\ fails' = fails + 1
  /\ Done(t)
  /\ Gives(holders, Pool(t))
  /\ UNCHANGED <<conns, pool, writers, wire, queue, handler, rx, multi, todo>>

NotUpgraded(t) ==
  /\ op[t].at = "upgrade" /\ ~conns[op[t].conn].whole
  /\ Done(t)
  /\ Gives(holders, Pool(t))
  /\ UNCHANGED <<conns, pool, writers, wire, queue, handler, rx, multi, todo, fails>>

Fits(x, k) == Len(wire[x]) + k <= Buffer
Puts(x, s) == wire' = [wire EXCEPT ![x] = @ \o s]
Header(m) == [part |-> "header", msg |-> m]
Body(m) == [part |-> "body", msg |-> m]

\* Mutant of WriteHeader: the stream is not locked for the frame.
WriteHeaderUnlocked(t) ==
  /\ op[t].at = "stream"
  /\ conns[op[t].conn].whole /\ Fits(Stream(t), 1)
  /\ Puts(Stream(t), <<Header(op[t].msg)>>)
  /\ Stays(t, "body")
  /\ UNCHANGED <<conns, pool, holders, writers, queue, handler, rx, multi, todo, fails>>

\* write_frame under the lock of the stream: the header first, if not all fits,
WriteHeader(t) ==
  /\ op[t].at = "stream" /\ Has(writers, Stream(t), t)
  /\ conns[op[t].conn].whole /\ Fits(Stream(t), 1)
  /\ Puts(Stream(t), <<Header(op[t].msg)>>)
  /\ Stays(t, "body")
  /\ UNCHANGED <<conns, pool, holders, writers, queue, handler, rx, multi, todo, fails>>

\* and then the rest.
WriteBody(t) ==
  /\ op[t].at = "body"
  /\ conns[op[t].conn].whole /\ Fits(Stream(t), 1)
  /\ Puts(Stream(t), <<Body(op[t].msg)>>)
  /\ Done(t)
  /\ Gives(writers, Stream(t))
  /\ UNCHANGED <<conns, pool, holders, queue, handler, rx, multi, todo, fails>>

\* The connection has failed.
WriteVanishes(t) ==
  /\ op[t].at \in {"stream", "body"} /\ Has(writers, Stream(t), t)
  /\ ~conns[op[t].conn].whole
  /\ Done(t)
  /\ Gives(writers, Stream(t))
  /\ UNCHANGED <<conns, pool, holders, wire, queue, handler, rx, multi, todo, fails>>

\* WebSocket: the message goes to the writer's queue, when there is room,
Enqueue(t) ==
  /\ op[t].at = "queue"
  /\ queue[Stream(t)].open /\ Len(queue[Stream(t)].q) < WriteQueue
  /\ queue' = [queue EXCEPT ![Stream(t)].q = Append(@, op[t].msg)]
  /\ Done(t)
  /\ UNCHANGED <<conns, pool, holders, writers, wire, handler, rx, multi, todo, fails>>

\* and nowhere if the writer has ended.
EnqueueFails(t) ==
  /\ op[t].at = "queue" /\ ~queue[Stream(t)].open
  /\ Done(t)
  /\ UNCHANGED <<conns, pool, holders, writers, wire, queue, handler, rx, multi, todo, fails>>

\* The WebSocket writer.
Writer(x) ==
  /\ queue[x].q # <<>> /\ conns[x[1]].whole /\ Fits(x, 2)
  /\ Puts(x, <<Header(Head(queue[x].q)), Body(Head(queue[x].q))>>)
  /\ queue' = [queue EXCEPT ![x].q = Tail(@)]
  /\ UNCHANGED <<conns, pool, holders, writers, handler, rx, multi, op, todo, fails>>

\* It ends with the first message that cannot be sent.
WriterEnds(x) ==
  /\ queue[x].q # <<>> /\ ~conns[x[1]].whole
  /\ queue' = [queue EXCEPT ![x] = [open |-> FALSE, q |-> <<>>]]
  /\ UNCHANGED <<conns, pool, holders, writers, wire, handler, rx, multi, op, todo, fails>>

-----------------------------------------------------------------------------
(* Accepting *)

PoolAt(c) == <<conns[c].to, conns[c].kind>>
At(c, at) == handler' = [handler EXCEPT ![c].at = at]

\* The TCP accept loop enters the connection in the map before it takes the
\* next; the WebSocket one leaves all of that to a task of the connection.
Accept(c) ==
  /\ handler[c].at = "backlog"
  /\ \A d \in Conn : handler[d].at = "insert" => PoolAt(d) # PoolAt(c)
  /\ At(c, "insert") /\ Asks(holders, PoolAt(c), c)
  /\ UNCHANGED <<conns, pool, writers, wire, queue, rx, multi, op, todo, fails>>

\* Mutant of Upgrade: the map is locked for it.
UpgradeLocked(c) ==
  /\ handler[c].at = "upgrade" /\ conns[c].whole
  /\ holders[PoolAt(c)] = <<>>
  /\ At(c, "insert") /\ Asks(holders, PoolAt(c), c)
  /\ UNCHANGED <<conns, pool, writers, wire, queue, rx, multi, op, todo, fails>>

\* accept_async, before the map is asked for.
Upgrade(c) ==
  /\ handler[c].at = "upgrade" /\ conns[c].whole
  /\ At(c, "insert") /\ Asks(holders, PoolAt(c), c)
  /\ UNCHANGED <<conns, pool, writers, wire, queue, rx, multi, op, todo, fails>>

UpgradeFails(c) ==
  /\ handler[c].at = "upgrade" /\ ~conns[c].whole
  /\ At(c, "ended")
  /\ UNCHANGED <<conns, pool, holders, writers, wire, queue, rx, multi, op, todo, fails>>

\* The next frame is waited for, by TCP with the stream locked.
Awaits(c) ==
  /\ At(c, "read")
  /\ IF conns[c].kind = "tcp" THEN Asks(writers, <<c, "down">>, c) ELSE UNCHANGED writers

\* Mutant of Insert: under the address the dialler listens at.
InsertUnderListener(c) ==
  /\ handler[c].at = "insert" /\ Has(holders, PoolAt(c), c)
  /\ pool' = [pool EXCEPT ![PoolAt(c)][conns[c].from] = c]
  /\ queue' = [queue EXCEPT ![<<c, "down">>].open = conns[c].kind = "ws"]
  /\ Gives(holders, PoolAt(c))
  /\ Awaits(c)
  /\ UNCHANGED <<conns, wire, rx, multi, op, todo, fails>>

\* Mutant of Insert: the map stays locked while frames are read.
InsertKeepsMap(c) ==
  /\ handler[c].at = "insert" /\ Has(holders, PoolAt(c), c)
  /\ pool' = [pool EXCEPT ![PoolAt(c)][c] = c]
  /\ queue' = [queue EXCEPT ![<<c, "down">>].open = conns[c].kind = "ws"]
  /\ Awaits(c)
  /\ UNCHANGED <<conns, holders, wire, rx, multi, op, todo, fails>>

Insert(c) ==
  /\ handler[c].at = "insert" /\ Has(holders, PoolAt(c), c)
  /\ pool' = [pool EXCEPT ![PoolAt(c)][c] = c]
  /\ queue' = [queue EXCEPT ![<<c, "down">>].open = conns[c].kind = "ws"]
  /\ Gives(holders, PoolAt(c))
  /\ Awaits(c)
  /\ UNCHANGED <<conns, wire, rx, multi, op, todo, fails>>

-----------------------------------------------------------------------------
(* Receiving *)

Reads(c) == handler[c].at = "read" /\ (conns[c].kind = "tcp" => Has(writers, <<c, "down">>, c))
Releases(c) == IF conns[c].kind = "tcp" THEN Gives(writers, <<c, "down">>) ELSE UNCHANGED writers

\* The wire starts with a whole frame; with something that is none.
Framed(s) == Len(s) >= 2 /\ s[1].part = "header" /\ s[2] = Body(s[1].msg)
Garbled(s) == s # <<>> /\ (s[1].part = "body" \/ (Len(s) >= 2 /\ ~Framed(s)))

Read(c) ==
  LET s == wire[<<c, "up">>]
  IN /\ Reads(c) /\ Framed(s)
     /\ wire' = [wire EXCEPT ![<<c, "up">>] = SubSeq(@, 3, Len(@))]
     /\ handler' = [handler EXCEPT ![c] = [at |-> "push", msg |-> s[1].msg]]
     /\ Releases(c)
     /\ UNCHANGED <<conns, pool, holders, queue, rx, multi, op, todo, fails>>

\* The wire starts with no frame, or what is left of a failed connection's is
\* not delivered.
ReadFails(c) ==
  /\ Reads(c)
  /\ Garbled(wire[<<c, "up">>]) \/ ~conns[c].whole
  /\ At(c, "ended")
  /\ Releases(c)
  /\ UNCHANGED <<conns, pool, holders, wire, queue, rx, multi, op, todo, fails>>

\* The message goes to the transport's channel, when there is room.
Push(c) ==
  LET x == PoolAt(c)
  IN /\ handler[c].at = "push" /\ Len(rx[x]) < RxQueue
     /\ rx' = [rx EXCEPT ![x] = Append(@, [msg |-> handler[c].msg, from |-> c])]
     /\ handler' = [handler EXCEPT ![c] = [at |-> "read", msg |-> None]]
     /\ IF conns[c].kind = "tcp" THEN Asks(writers, <<c, "down">>, c) ELSE UNCHANGED writers
     /\ UNCHANGED <<conns, pool, holders, wire, queue, multi, op, todo, fails>>

\* spawn_receiver moves messages to the common channel.
Forward(n, k) ==
  /\ rx[<<n, k>>] # <<>> /\ Len(multi[n]) < MultiQueue
  /\ multi' = [multi EXCEPT ![n] = Append(@, Head(rx[<<n, k>>]))]
  /\ rx' = [rx EXCEPT ![<<n, k>>] = Tail(@)]
  /\ UNCHANGED <<conns, pool, holders, writers, wire, queue, handler, op, todo, fails>>

Answer(m) == [m EXCEPT !.type = "answer"]

\* The inbound loop takes a message and answers it, if it asks for that, to the
\* address it came from, before it takes the next.
Receive(n) ==
  /\ op[n].at = "idle" /\ multi[n] # <<>>
  /\ multi' = [multi EXCEPT ![n] = Tail(@)]
  /\ LET r == Head(multi[n])
     IN IF r.msg.type = "ask"
          THEN Sends(n, [kind |-> conns[r.from].kind, home |-> n, to |-> r.from, msg |-> Answer(r.msg)])
          ELSE UNCHANGED <<op, holders>>
  /\ UNCHANGED <<conns, pool, writers, wire, queue, handler, rx, todo, fails>>

\* A connection fails; some of the frames on the wire may still be read.
Fail(c) ==
  /\ fails < MaxFail /\ fails' = fails + 1
  /\ conns[c] # None /\ conns[c].whole
  /\ conns' = [conns EXCEPT ![c].whole = FALSE]
  /\ UNCHANGED <<pool, holders, writers, wire, queue, handler, rx, multi, op, todo>>

-----------------------------------------------------------------------------
SendStep(t) ==
  \/ Found(t) \/ Upgraded(t) \/ NotUpgraded(t)
  \/ WriteHeader(t) \/ WriteBody(t) \/ WriteVanishes(t)
  \/ Enqueue(t) \/ EnqueueFails(t)
  \/ \E c \in Conn : Connect(t, c) \/ ConnectWs(t, c)

ConnStep(c) ==
  \/ Accept(c) \/ Upgrade(c) \/ UpgradeFails(c) \/ Insert(c)
  \/ Read(c) \/ ReadFails(c) \/ Push(c)
  \/ \E w \in Way : Writer(<<c, w>>) \/ WriterEnds(<<c, w>>)

Step ==
  \/ \E t \in Sender : Begin(t)
  \/ \E t \in Task : SendStep(t) \/ NotConnected(t)
  \/ \E c \in Conn : ConnStep(c)
  \/ \E n \in Node : Receive(n) \/ \E k \in Kind : Forward(n, k)

Next == Step \/ \E c \in Conn : Fail(c)

Spec == Init /\ [][Next]_vars

\* Every task goes on when it can.  Jobs are finite and so is every run, so
\* this is no more than fairness to each task by itself.
Fairness == WF_vars(Step)

FairSpec == Spec /\ Fairness

-----------------------------------------------------------------------------
(* Properties *)

TypeOK ==
  /\ conns \in [Conn -> Link \cup {None}]
  /\ pool \in [Node \X Kind -> [Place -> Conn \cup {None}]]
  /\ holders \in [Node \X Kind -> Seq(Task \cup Conn)]
  /\ writers \in [Conn \X Way -> Seq(Task \cup Conn)]
  /\ wire \in [Conn \X Way -> Seq(Item)]
  /\ queue \in [Conn \X Way -> [open : BOOLEAN, q : Seq(Message)]]
  /\ handler \in [Conn -> Handler]
  /\ rx \in [Node \X Kind -> Seq(Letter)]
  /\ multi \in [Node -> Seq(Letter)]
  /\ op \in [Task -> Sending]
  /\ todo \in [Sender -> Seq(Job)]
  /\ fails \in 0 .. MaxFail

\* No buffer, queue or channel holds more than it can.
InBounds ==
  /\ \A x \in Conn \X Way : Len(wire[x]) <= Buffer /\ Len(queue[x].q) <= WriteQueue
  /\ \A x \in Node \X Kind : Len(rx[x]) <= RxQueue
  /\ \A n \in Node : Len(multi[n]) <= MultiQueue

\* Those who want the map x next or have it; the stream that writes way x.
WantMap(x) ==
  {t \in Task : op[t].at \in {"pool", "upgrade"} /\ Pool(t) = x}
    \cup {c \in Conn : handler[c].at = "insert" /\ PoolAt(c) = x}
WantStream(x) ==
  {t \in Task : op[t].at \in {"stream", "body"} /\ Stream(t) = x}
    \cup {c \in Conn : handler[c].at = "read" /\ conns[c].kind = "tcp" /\ x = <<c, "down">>}

\* A mutex is wanted by exactly the tasks whose next steps need it, by each
\* once, and one who got past it has it: no error path keeps or loses a lock
\* (tcp.rs:47-57, 62-69, 101-108, ws.rs:55-78).
LocksMatch ==
  /\ \A x \in Node \X Kind : Range(holders[x]) = WantMap(x) /\ IsInjective(holders[x])
  /\ \A x \in Conn \X Way : Range(writers[x]) = WantStream(x) /\ IsInjective(writers[x])
  /\ \A t \in Task : op[t].at = "upgrade" => Has(holders, Pool(t), t)
  /\ \A t \in Task : op[t].at = "body" => Has(writers, Stream(t), t)

\* An address leads to the connection with the device that listens there, or
\* to the one it is the ephemeral address of, whichever end enters it when
\* (tcp.rs:47-57, 85-92, ws.rs:55-78, 112-124).
Leads(c, x, a) ==
  /\ conns[c] # None
  /\ \/ a = conns[c].to /\ x = <<conns[c].from, conns[c].kind>>
     \/ a = c /\ x = PoolAt(c)

PoolsMatch ==
  \A x \in Node \X Kind, a \in Place : pool[x][a] # None => Leads(pool[x][a], x, a)

\* What a task has when it gets there: it sends over a connection of the device
\* and the kind it chose.
SenderMatches(t) ==
  LET o == op[t]
      link == conns[o.conn]
  IN /\ o.at # "idle" =>
          o.kind \in Kind /\ o.home \in Node /\ o.to \in Place /\ o.msg \in Message
     /\ o.at \in {"upgrade", "stream", "body", "queue"} =>
          /\ o.conn \in Conn /\ link # None
          /\ link.kind = o.kind /\ o.home \in {link.from, link.to}
     /\ o.at = "upgrade" => link.from = o.home /\ link.to = o.to
     /\ o.at \in {"upgrade", "queue"} => o.kind = "ws"
     /\ o.at \in {"stream", "body"} => o.kind = "tcp"

SendersMatch == \A t \in Task : SenderMatches(t)

\* A connection has its task at the accepting end; a WebSocket one alone has
\* writers.
HandlersMatch ==
  \A c \in Conn :
    /\ handler[c].at = "none" <=> conns[c] = None
    /\ handler[c].at = "push" => handler[c].msg \in Message

QueuesMatch ==
  \A x \in Conn \X Way :
    /\ queue[x].open => conns[x[1]] # None /\ conns[x[1]].kind = "ws"
    /\ ~queue[x].open => queue[x].q = <<>>

\* What came by a connection is for its accepting end.
LettersMatch ==
  /\ \A x \in Node \X Kind : \A i \in DOMAIN rx[x] :
       conns[rx[x][i].from] # None /\ PoolAt(rx[x][i].from) = x
  /\ \A n \in Node : \A i \in DOMAIN multi[n] :
       conns[multi[n][i].from] # None /\ conns[multi[n][i].from].to = n

StreamsInv ==
  /\ TypeOK /\ InBounds /\ SendersMatch /\ HandlersMatch /\ QueuesMatch
  /\ LettersMatch /\ PoolsMatch /\ LocksMatch

\* Headers and bodies alternate, each body after its own header.
Alternates(s) ==
  \A i \in DOMAIN s :
    IF i % 2 = 1 THEN s[i].part = "header"
                 ELSE s[i].part = "body" /\ s[i].msg = s[i - 1].msg

\* The last frame is not complete.
Incomplete(s) == s # <<>> /\ s[Len(s)].part = "header"

\* Between the header and the body of a frame on x.
Writes(t, x) == op[t].at = "body" /\ Stream(t) = x

\* However many tasks share a connection and wherever one of them is stopped
\* half way, what is on the wire is whole frames and at most one that its
\* sender is still at, or that the failed connection will not deliver
\* (tcp.rs:62-69, 101-112, ws.rs:71-150, frame.rs).
FrameIsWhole(x) ==
  /\ Alternates(wire[x])
  /\ Incomplete(wire[x]) =>
       conns[x[1]] # None /\ (conns[x[1]].whole => \E t \in Task : Writes(t, x))
  /\ \A t \in Task :
       Writes(t, x) => wire[x] # <<>> /\ wire[x][Len(wire[x])] = Header(op[t].msg)

FramesAreWhole == \A x \in Conn \X Way : FrameIsWhole(x)

\* A connection ends for its reader only because it has failed: no reader finds
\* something that is no frame and gives up a connection its sender goes on to
\* use (tcp.rs:114-117, ws.rs:142-147).
EndedHasFailed ==
  \A c \in Conn : handler[c].at = "ended" => conns[c] # None /\ ~conns[c].whole

\* Messages of the complete frames of a wire, whose items alternate.
Frames(s) == [i \in 1 .. Len(s) \div 2 |-> s[2 * i].msg]

\* What has been sent over c and not reached a transport's channel, oldest
\* first: what its reader has in hand, what it has not read, and what the
\* WebSocket writer has not written.
InHand(c, w) == IF w = "up" /\ handler[c].at = "push" THEN <<handler[c].msg>> ELSE <<>>
Written(c, w) == IF w = "up" /\ handler[c].at = "ended" THEN <<>> ELSE Frames(wire[<<c, w>>])
Queued(c, w) == IF conns[c] # None /\ conns[c].whole THEN queue[<<c, w>>].q ELSE <<>>
Flight(c, w) == InHand(c, w) \o (Written(c, w) \o Queued(c, w))

\* Where way w of c ends.
End(c, w) ==
  IF conns[c] = None THEN None
  ELSE IF w = "up" THEN PoolAt(c) ELSE <<conns[c].from, conns[c].kind>>

Broken(c) == conns[c] # None /\ ~conns[c].whole
Arrived(s) == [i \in DOMAIN s |-> [msg |-> s[i].msg, by |-> <<s[i].from, "up">>]]

Promised ==
  INSTANCE OrderedStreams WITH
    Device <- Node,
    Transport <- Kind,
    Channel <- Conn \X Way,
    end <- [x \in Conn \X Way |-> End(x[1], x[2])],
    flight <- [x \in Conn \X Way |-> Flight(x[1], x[2])],
    arrived <- [x \in Node \X Kind |-> Arrived(rx[x])],
    inbox <- [n \in Node |-> Arrived(multi[n])],
    failed <- {x \in Conn \X Way : Broken(x[1])}

\* Frames, locks, writers and bounded channels together implement ordered
\* streams: nothing is torn, doubled, overtaken or dropped while the connection
\* lasts, however many tasks send at once (tcp.rs:62-112, ws.rs:71-150,
\* multi.rs:40-60).
ImplementsOrderedStreams == Promised!Spec

\* Whoever wants a map of connections gets it, also when two devices dial each
\* other at the same time and each keeps its own map locked for the upgrade
\* (ws.rs:56, 116-121).
PoolsFree == <>[](\A t \in Task : op[t].at \notin {"pool", "upgrade"})

\* The accepting end has the stream of c locked and waits for a frame that the
\* dialler has no reason to send.
Silent(c) == Reads(c) /\ wire[<<c, "up">>] = <<>> /\ conns[c].whole

\* What t has still to write on its way has no room there: a TCP frame in the
\* buffer, a WebSocket message in the writer's queue, and that one's in the buffer.
Full(t) ==
  \/ op[t].at \in {"stream", "body"} /\ ~Fits(Stream(t), 1)
  \/ op[t].at = "queue" /\ Len(queue[Stream(t)].q) = WriteQueue /\ ~Fits(Stream(t), 2)

\* t replies over a connection its device has accepted, whose dialler has gone
\* silent or, as no dialler ever does, has not read the replies before.
Unheard(t) ==
  LET c == op[t].conn
  IN /\ c \in Conn /\ conns[c].whole /\ op[t].to = c
     /\ Full(t) \/ (op[t].at = "stream" /\ Silent(c))

\* The inbound loop comes back to receive and empties its channel; what can hold
\* it up for good is a reply over an accepted connection, by TCP when the dialler
\* has gone silent, by both when earlier replies, which nobody reads, fill the
\* buffers (tcp.rs:53-56, 65, 106, ws.rs:65).  No map, mutex or channel of the
\* device itself does.
OnlyDiallersStopInbound ==
  <>[](\A n \in Node : (op[n].at = "idle" /\ multi[n] = <<>>) \/ Unheard(n))

\* What is sent over a connection that lasts arrives in the end, whichever of
\* the two devices has dialled (docs/en/guide/connect.md:74).
LastingDeliver ==
  <>[](\A c \in Conn, w \in Way :
         conns[c] # None /\ conns[c].whole => Flight(c, w) = <<>>)
=============================================================================
