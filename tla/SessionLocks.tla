---------------------------- MODULE SessionLocks ----------------------------
(***************************************************************************)
(* core/src/lib.rs, handshake.rs, inbound.rs, outbound.rs: the locks of    *)
(* the session map, and the tasks of one engine that take them.            *)
(*                                                                         *)
(* The map is a DashMap: it is cut into shards, and each shard has a       *)
(* readers-writer lock whose guard may be kept over an await.  A task that *)
(* waits for a shard blocks its worker thread; a task that waits for a     *)
(* send gives its worker back and needs one to go on.                      *)
(*                                                                         *)
(* A task is of one of four kinds.                                         *)
(*   walk       heartbeat and health check: iter_mut over the map, a send  *)
(*              for each session with the shard's guard kept               *)
(*   directory  the periodic broadcast: iter over the map, and for each    *)
(*              session get_mut, encrypt, drop, send                       *)
(*   short      outbound packets and the inbound handlers: get_mut,        *)
(*              encrypt, drop, send                                        *)
(*   handshake  insert, then get_mut and send with the guard kept          *)
(***************************************************************************)
EXTENDS Naturals, FiniteSets

CONSTANTS
  Peer,
  Shards,     \* number of shards
  ShardOf,    \* ShardOf[p]: the shard that p hashes to
  Task,
  Kind,       \* Kind[t]: the kind of t
  Workers,    \* worker threads of the runtime
  CanRelay,   \* can_relay_flag is set and STUN has an address
  Start,      \* sessions there are at the beginning
  MaxRounds,  \* bound: rounds of each task
  None

ASSUME LocksAssumption ==
  /\ Shards \in Nat /\ Workers \in Nat /\ MaxRounds \in Nat
  /\ ShardOf \in [Peer -> 1 .. Shards]
  /\ Kind \in [Task -> {"walk", "directory", "short", "handshake"}]
  /\ CanRelay \in BOOLEAN
  /\ Start \subseteq Peer
  /\ None \notin Peer

VARIABLES
  sessions,  \* keys of the map
  readers,   \* readers[s]: tasks with a read guard of shard s
  writers,   \* writers[s]: tasks with a write guard of shard s
  running,   \* tasks that occupy a worker
  at,        \* at[t]: the step t is about to take
  shard,     \* shard[t]: the shard the iterator of t is in, 0 before the first
  left,      \* left[t]: its sessions in that shard still to come
  target,    \* target[t]: the peer t is about
  counted,   \* counted[t]: a broadcast has seen two sessions and is sending
  seen,      \* seen[t]: sessions it has counted so far
  rounds,    \* rounds[t]: rounds begun
  told       \* history: peers a broadcast has sent the directory to

iteration == <<shard, left, counted, seen>>
vars == <<sessions, readers, writers, running, at, iteration, target, rounds, told>>

InShard(s) == {p \in sessions : ShardOf[p] = s}

Init ==
  /\ sessions = Start
  /\ readers = [s \in 1 .. Shards |-> {}]
  /\ writers = [s \in 1 .. Shards |-> {}]
  /\ running = {}
  /\ at = [t \in Task |-> "idle"]
  /\ shard = [t \in Task |-> 0]
  /\ left = [t \in Task |-> {}]
  /\ target = [t \in Task |-> None]
  /\ counted = [t \in Task |-> FALSE]
  /\ seen = [t \in Task |-> {}]
  /\ rounds = [t \in Task |-> 0]
  /\ told = {}

-----------------------------------------------------------------------------
(* Locks and workers *)

\* A write guard needs the shard for itself, a read guard needs no writer.
CanWrite(s) == readers[s] = {} /\ writers[s] = {}
CanRead(s) == writers[s] = {}

WorkerIsFree == Cardinality(running) < Workers

\* The iterator of a broadcast reads, those of the other loops write.
Reads(t) == Kind[t] = "directory"

Goto(t, step) == at' = [at EXCEPT ![t] = step]

\* The round of t is over: t waits for its next tick or packet.
EndRound(t) ==
  /\ Goto(t, "idle")
  /\ running' = running \ {t}

-----------------------------------------------------------------------------
(* Beginning a round *)

\* Mutant of Broadcasts: every node broadcasts.
BroadcastsAnyway == TRUE

\* Only a node that can relay and knows its public address broadcasts.
Broadcasts == CanRelay

\* interval.tick() of heartbeat, health check and broadcast
Tick(t) ==
  /\ at[t] = "idle" /\ Kind[t] \in {"walk", "directory"}
  /\ rounds[t] < MaxRounds /\ WorkerIsFree
  /\ rounds' = [rounds EXCEPT ![t] = @ + 1]
  /\ IF Kind[t] = "directory" /\ ~Broadcasts
     THEN UNCHANGED <<running, at, iteration>>
     ELSE /\ running' = running \cup {t}
          /\ Goto(t, "shard")
          /\ shard' = [shard EXCEPT ![t] = 0]
          /\ left' = [left EXCEPT ![t] = {}]
          /\ counted' = [counted EXCEPT ![t] = FALSE]
          /\ seen' = [seen EXCEPT ![t] = {}]
  /\ UNCHANGED <<sessions, readers, writers, target, told>>

\* A packet to or from p, or a finished handshake with p.
Packet(t, p) ==
  /\ at[t] = "idle" /\ Kind[t] \in {"short", "handshake"}
  /\ rounds[t] < MaxRounds /\ WorkerIsFree
  /\ rounds' = [rounds EXCEPT ![t] = @ + 1]
  /\ running' = running \cup {t}
  /\ target' = [target EXCEPT ![t] = p]
  /\ Goto(t, IF Kind[t] = "handshake" THEN "insert" ELSE "fetch")
  /\ UNCHANGED <<sessions, readers, writers, iteration, told>>

-----------------------------------------------------------------------------
(* Iterating over the map *)

\* Mutant of Guarded: the shards behind stay locked.
GuardedForGood(guards, t, s) ==
  [x \in 1 .. Shards |-> IF x = s THEN guards[x] \cup {t} ELSE guards[x]]

\* The guard of the shard before is dropped only when the next one is there.
Guarded(guards, t, s) ==
  [x \in 1 .. Shards |-> IF x = s THEN guards[x] \cup {t} ELSE guards[x] \ {t}]

NextShard(t) ==
  LET s == shard[t] + 1 IN
  /\ at[t] = "shard" /\ t \in running /\ s <= Shards
  /\ IF Reads(t)
     THEN CanRead(s) /\ readers' = Guarded(readers, t, s) /\ UNCHANGED writers
     ELSE CanWrite(s) /\ writers' = Guarded(writers, t, s) /\ UNCHANGED readers
  /\ shard' = [shard EXCEPT ![t] = s]
  /\ IF Reads(t) /\ ~counted[t]
     THEN /\ seen' = [seen EXCEPT ![t] = @ \cup InShard(s)]
          /\ UNCHANGED <<left, at>>
     ELSE /\ left' = [left EXCEPT ![t] = InShard(s)]
          /\ Goto(t, "entry") /\ UNCHANGED seen
  /\ UNCHANGED <<sessions, running, target, counted, rounds, told>>

\* The end of the map: a broadcast that counted two sessions starts again to
\* send, everything else is the end of the round.
EndOfMap(t) ==
  /\ at[t] = "shard" /\ t \in running /\ shard[t] = Shards
  /\ readers' = [s \in 1 .. Shards |-> readers[s] \ {t}]
  /\ writers' = [s \in 1 .. Shards |-> writers[s] \ {t}]
  /\ IF Reads(t) /\ ~counted[t] /\ Cardinality(seen[t]) >= 2
     THEN /\ counted' = [counted EXCEPT ![t] = TRUE]
          /\ shard' = [shard EXCEPT ![t] = 0]
          /\ UNCHANGED <<at, running>>
     ELSE EndRound(t) /\ UNCHANGED <<counted, shard>>
  /\ UNCHANGED <<sessions, left, seen, target, rounds, told>>

\* The next session: a walk encrypts under its guard, a broadcast looks the
\* session up again.
Entry(t, p) ==
  /\ at[t] = "entry" /\ t \in running /\ p \in left[t]
  /\ left' = [left EXCEPT ![t] = @ \ {p}]
  /\ target' = [target EXCEPT ![t] = p]
  /\ Goto(t, IF Reads(t) THEN "fetch" ELSE "send")
  /\ UNCHANGED <<sessions, readers, writers, running, shard, counted, seen, rounds, told>>

EndOfShard(t) ==
  /\ at[t] = "entry" /\ t \in running /\ left[t] = {}
  /\ Goto(t, "shard")
  /\ UNCHANGED <<sessions, readers, writers, running, iteration, target, rounds, told>>

-----------------------------------------------------------------------------
(* Single sessions *)

Insert(t) ==
  /\ at[t] = "insert" /\ t \in running /\ CanWrite(ShardOf[target[t]])
  /\ sessions' = sessions \cup {target[t]}
  /\ Goto(t, "fetch")
  /\ UNCHANGED <<readers, writers, running, iteration, target, rounds, told>>

\* Done with one session: an iteration goes on to the next.
Proceed(t) ==
  IF Kind[t] \in {"walk", "directory"}
  THEN Goto(t, "entry") /\ running' = running \cup {t}
  ELSE EndRound(t)

\* get_mut.  A handshake keeps the guard, the others drop it before they send.
Fetch(t) ==
  LET s == ShardOf[target[t]] IN
  /\ at[t] = "fetch" /\ t \in running /\ CanWrite(s)
  /\ \/ /\ target[t] \in sessions
        /\ Goto(t, "send") /\ UNCHANGED running
        /\ writers' = IF Kind[t] = "handshake" THEN [writers EXCEPT ![s] = {t}] ELSE writers
     \/ /\ target[t] \notin sessions
        /\ Proceed(t) /\ UNCHANGED writers
  /\ UNCHANGED <<sessions, readers, iteration, target, rounds, told>>

\* What follows a send that is done.
Sent(t) ==
  /\ told' = IF Reads(t) THEN told \cup {target[t]} ELSE told
  /\ writers' = IF Kind[t] = "handshake"
                THEN [s \in 1 .. Shards |-> writers[s] \ {t}] ELSE writers
  /\ Proceed(t)
  /\ UNCHANGED <<sessions, readers, iteration, target, rounds>>

\* send_to(..).await is done at once, or the task gives its worker back
\* and later needs one, whatever guards it has.
Send(t) == at[t] = "send" /\ t \in running /\ Sent(t)

Suspend(t) ==
  /\ at[t] = "send" /\ t \in running
  /\ Goto(t, "sending")
  /\ running' = running \ {t}
  /\ UNCHANGED <<sessions, readers, writers, iteration, target, rounds, told>>

Wake(t) == at[t] = "sending" /\ WorkerIsFree /\ Sent(t)

-----------------------------------------------------------------------------
Step(t) ==
  \/ NextShard(t) \/ EndOfMap(t) \/ EndOfShard(t)
  \/ \E p \in Peer : Entry(t, p)
  \/ Insert(t) \/ Fetch(t)
  \/ Send(t) \/ Suspend(t) \/ Wake(t)

Next == \E t \in Task : Step(t) \/ Tick(t) \/ \E p \in Peer : Packet(t, p)

Spec == Init /\ [][Next]_vars

\* Threads run and timers fire: a task that can take its step takes it.
FairSpec == Spec /\ \A t \in Task : WF_vars(Step(t)) /\ WF_vars(Tick(t))

-----------------------------------------------------------------------------
(* Properties *)

TypeOK ==
  /\ sessions \subseteq Peer
  /\ readers \in [1 .. Shards -> SUBSET Task]
  /\ writers \in [1 .. Shards -> SUBSET Task]
  /\ running \subseteq Task
  /\ at \in [Task -> {"idle", "shard", "entry", "insert", "fetch", "send", "sending"}]
  /\ shard \in [Task -> 0 .. Shards]
  /\ left \in [Task -> SUBSET Peer]
  /\ target \in [Task -> Peer \cup {None}]
  /\ counted \in [Task -> BOOLEAN]
  /\ seen \in [Task -> SUBSET Peer]
  /\ rounds \in [Task -> 0 .. MaxRounds]
  /\ told \subseteq Peer

\* The shard t cannot go on without.
Wants(t, s) ==
  /\ t \in running
  /\ \/ at[t] = "shard" /\ shard[t] < Shards /\ s = shard[t] + 1
     \/ at[t] \in {"insert", "fetch"} /\ s = ShardOf[target[t]]

Holds(t, s) == t \in readers[s] \cup writers[s]

\* A guard is either the iterator's, of the shard it is in, or the one a
\* handshake sends under; nothing else is kept from step to step.
GuardsAreKnown ==
  \A t \in Task : \A s \in 1 .. Shards :
    /\ t \in readers[s] => Reads(t) /\ at[t] # "idle" /\ s = shard[t]
    /\ t \in writers[s] =>
         \/ Kind[t] = "walk" /\ at[t] # "idle" /\ s = shard[t]
         \/ Kind[t] = "handshake" /\ at[t] \in {"send", "sending"} /\ s = ShardOf[target[t]]

\* What each kind of task does, and what it is about.
StepsAreOfKind ==
  \A t \in Task :
    /\ Kind[t] = "walk" => at[t] \notin {"insert", "fetch"}
    /\ Kind[t] \in {"short", "handshake"} => at[t] \notin {"shard", "entry"}
    /\ Kind[t] = "directory" => at[t] = "idle" \/ CanRelay
    /\ at[t] \in {"insert", "fetch", "send", "sending"} => target[t] \in Peer

\* The inductive invariant: every guard the engine holds is accounted for, on
\* any interleaving of sends and wakeups (lib.rs:503, 553, handshake.rs:132).
LocksInv == TypeOK /\ GuardsAreKnown /\ StepsAreOfKind

\* The shards are locked in their order: on a node that does not relay, a task
\* that needs a shard holds only lower ones, so there is no circle of tasks
\* that wait for each other, and none that waits for itself (lib.rs:503, 553,
\* 603, outbound.rs:51, handshake.rs:132, inbound.rs:143).
ShardsInOrder ==
  \A t \in Task : \A s, h \in 1 .. Shards : Wants(t, s) /\ Holds(t, h) => h < s

\* t occupies a worker and waits for a shard that another task, or t itself,
\* has locked.
Blocked(t) ==
  \E s \in 1 .. Shards :
    Wants(t, s) /\ ~(IF Reads(t) /\ at[t] = "shard" THEN CanRead(s) ELSE CanWrite(s))

\* Every worker is blocked, and what the tasks on them wait for is kept by one
\* that cannot be woken for want of a worker.
Starved ==
  /\ ~WorkerIsFree
  /\ \A t \in running : Blocked(t)
  /\ \E t \in Task : at[t] = "sending" /\ \E s \in 1 .. Shards : Holds(t, s)

\* Every round that is begun ends, unless the engine runs out of workers: as
\* long as one of them is left over, no heartbeat, health check, broadcast,
\* packet or handshake is stuck behind the guards of another that waits for its
\* send (lib.rs:503-506, handshake.rs:132-136).  The engine may run out of them,
\* since as many tasks as want to may wait for the same shard.
RoundsEndUnlessStarved == \A t \in Task : at[t] # "idle" ~> (at[t] = "idle" \/ Starved)

\* A relay's broadcast reaches every peer it has a session with (lib.rs:518-519).
EveryoneIsTold == \A p \in Peer : CanRelay /\ p \in sessions ~> p \in told
=============================================================================
