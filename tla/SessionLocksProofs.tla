------------------------- MODULE SessionLocksProofs -------------------------
(***************************************************************************)
(* Proofs about SessionLocks, for any shards, tasks and workers: every     *)
(* guard is accounted for, and a node that does not relay takes the shards *)
(* in their order.                                                         *)
(***************************************************************************)
EXTENDS SessionLocks, TLAPS

LEMMA InitInv == Init => LocksInv
<1> SUFFICES ASSUME Init PROVE LocksInv
  OBVIOUS
<1>1. TypeOK
  BY LocksAssumption DEF Init, TypeOK, LocksAssumption
<1>2. GuardsAreKnown
  BY DEF Init, GuardsAreKnown
<1>3. StepsAreOfKind
  BY DEF Init, StepsAreOfKind
<1> QED
  BY <1>1, <1>2, <1>3 DEF LocksInv

-----------------------------------------------------------------------------
(* Beginning a round: no guard changes hands. *)

LEMMA TickInv ==
  ASSUME LocksInv, NEW t \in Task, Tick(t)
  PROVE  LocksInv'
<1> USE DEF LocksInv, Goto
<1>1. /\ at[t] = "idle" /\ Kind[t] \in {"walk", "directory"}
      /\ rounds[t] < MaxRounds /\ rounds' = [rounds EXCEPT ![t] = @ + 1]
      /\ UNCHANGED <<sessions, readers, writers, target, told>>
  BY DEF Tick
<1>2. rounds' \in [Task -> 0 .. MaxRounds]
  BY <1>1, LocksAssumption DEF TypeOK, LocksAssumption
<1>3. \A s \in 1 .. Shards : t \notin readers[s] /\ t \notin writers[s]
  BY <1>1 DEF GuardsAreKnown, Reads
<1>4. CASE Kind[t] = "directory" /\ ~Broadcasts
  <2>1. UNCHANGED <<running, at, iteration>>
    BY <1>4 DEF Tick
  <2> QED
    BY <1>1, <1>2, <2>1 DEF TypeOK, GuardsAreKnown, StepsAreOfKind, iteration
<1>5. CASE ~(Kind[t] = "directory" /\ ~Broadcasts)
  <2>1. /\ running' = running \cup {t}
        /\ at' = [at EXCEPT ![t] = "shard"]
        /\ shard' = [shard EXCEPT ![t] = 0]
        /\ left' = [left EXCEPT ![t] = {}]
        /\ counted' = [counted EXCEPT ![t] = FALSE]
        /\ seen' = [seen EXCEPT ![t] = {}]
    BY <1>5 DEF Tick
  <2>2. TypeOK'
    BY <1>1, <1>2, <2>1, LocksAssumption DEF TypeOK, LocksAssumption
  <2>3. GuardsAreKnown'
    BY <1>1, <1>3, <2>1 DEF GuardsAreKnown, Reads, TypeOK
  <2>4. StepsAreOfKind'
    BY <1>1, <1>5, <2>1 DEF StepsAreOfKind, TypeOK, Broadcasts
  <2> QED
    BY <2>2, <2>3, <2>4
<1> QED
  BY <1>4, <1>5

LEMMA PacketInv ==
  ASSUME LocksInv, NEW t \in Task, NEW p \in Peer, Packet(t, p)
  PROVE  LocksInv'
<1> USE DEF LocksInv, Goto
<1>1. /\ at[t] = "idle" /\ Kind[t] \in {"short", "handshake"}
      /\ rounds[t] < MaxRounds /\ rounds' = [rounds EXCEPT ![t] = @ + 1]
      /\ running' = running \cup {t}
      /\ target' = [target EXCEPT ![t] = p]
      /\ UNCHANGED <<sessions, readers, writers, iteration, told>>
  BY DEF Packet
<1>2. PICK step \in {"insert", "fetch"} : at' = [at EXCEPT ![t] = step]
  BY DEF Packet
<1>3. TypeOK'
  BY <1>1, <1>2, LocksAssumption DEF TypeOK, LocksAssumption, iteration
<1>4. \A s \in 1 .. Shards : t \notin readers[s] /\ t \notin writers[s]
  BY <1>1 DEF GuardsAreKnown, Reads
<1>5. GuardsAreKnown'
  BY <1>1, <1>2, <1>4 DEF GuardsAreKnown, Reads, TypeOK, iteration
<1>X. StepsAreOfKind'
  BY <1>1, <1>2 DEF StepsAreOfKind, TypeOK
<1> QED
  BY <1>3, <1>5, <1>X

-----------------------------------------------------------------------------
(* Iterating over the map *)

\* Moving an iterator leaves it one guard, that of the shard it is in now.
LEMMA GuardedMoves ==
  ASSUME NEW guards \in [1 .. Shards -> SUBSET Task], NEW t \in Task, NEW s \in 1 .. Shards
  PROVE  /\ Guarded(guards, t, s) \in [1 .. Shards -> SUBSET Task]
         /\ \A x \in 1 .. Shards : t \in Guarded(guards, t, s)[x] <=> x = s
         /\ \A x \in 1 .. Shards : \A u \in Task \ {t} :
              u \in Guarded(guards, t, s)[x] <=> u \in guards[x]
BY DEF Guarded

LEMMA NextShardInv ==
  ASSUME LocksInv, NEW t \in Task, NextShard(t)
  PROVE  LocksInv'
<1> USE DEF LocksInv, Goto
<1> DEFINE s == shard[t] + 1
<1>1. /\ at[t] = "shard" /\ s \in 1 .. Shards
      /\ shard' = [shard EXCEPT ![t] = s]
      /\ UNCHANGED <<sessions, running, target, counted, rounds, told>>
  BY LocksAssumption DEF NextShard, TypeOK, LocksAssumption
<1>2. PICK step \in {"shard", "entry"} :
        /\ at' = [at EXCEPT ![t] = step]
        /\ left' \in [Task -> SUBSET Peer] /\ seen' \in [Task -> SUBSET Peer]
  <2>1. InShard(s) \subseteq Peer
    BY DEF InShard, TypeOK
  <2>2. CASE Reads(t) /\ ~counted[t]
    <3>1. at' = [at EXCEPT ![t] = "shard"]
      BY <1>1, <2>2 DEF NextShard, TypeOK
    <3>2. left' \in [Task -> SUBSET Peer] /\ seen' \in [Task -> SUBSET Peer]
      BY <2>1, <2>2 DEF NextShard, TypeOK
    <3> QED
      BY <3>1, <3>2
  <2>3. CASE ~(Reads(t) /\ ~counted[t])
    <3>1. at' = [at EXCEPT ![t] = "entry"]
      BY <2>3 DEF NextShard
    <3>2. left' \in [Task -> SUBSET Peer] /\ seen' \in [Task -> SUBSET Peer]
      BY <2>1, <2>3 DEF NextShard, TypeOK
    <3> QED
      BY <3>1, <3>2
  <2> QED
    BY <2>2, <2>3
<1>3. \/ Reads(t) /\ readers' = Guarded(readers, t, s) /\ writers' = writers
      \/ ~Reads(t) /\ writers' = Guarded(writers, t, s) /\ readers' = readers
  BY DEF NextShard
<1>4. TypeOK'
  <2> HIDE DEF s
  <2>0. readers \in [1 .. Shards -> SUBSET Task] /\ writers \in [1 .. Shards -> SUBSET Task]
    BY DEF TypeOK
  <2>1. /\ readers' \in [1 .. Shards -> SUBSET Task]
        /\ writers' \in [1 .. Shards -> SUBSET Task]
    BY <1>1, <1>3, <2>0, GuardedMoves
  <2> QED
    BY <1>1, <1>2, <2>1 DEF TypeOK
<1>5. GuardsAreKnown'
  <2> HIDE DEF s
  <2> SUFFICES ASSUME NEW u \in Task, NEW x \in 1 .. Shards
               PROVE  /\ (u \in readers[x] => Reads(u) /\ at[u] # "idle" /\ x = shard[u])'
                      /\ (u \in writers[x] =>
                           \/ Kind[u] = "walk" /\ at[u] # "idle" /\ x = shard[u]
                           \/ Kind[u] = "handshake" /\ at[u] \in {"send", "sending"}
                                /\ x = ShardOf[target[u]])'
    BY DEF GuardsAreKnown
  <2>1. readers \in [1 .. Shards -> SUBSET Task] /\ writers \in [1 .. Shards -> SUBSET Task]
    BY DEF TypeOK
  <2>2. /\ u \in readers[x] => Reads(u) /\ at[u] # "idle" /\ x = shard[u]
        /\ u \in writers[x] =>
             \/ Kind[u] = "walk" /\ at[u] # "idle" /\ x = shard[u]
             \/ Kind[u] = "handshake" /\ at[u] \in {"send", "sending"} /\ x = ShardOf[target[u]]
    BY DEF GuardsAreKnown
  <2>3. CASE u # t
    <3>1. at'[u] = at[u] /\ shard'[u] = shard[u] /\ target' = target
      BY <1>1, <1>2, <2>3 DEF TypeOK
    <3>2. (u \in readers'[x] <=> u \in readers[x]) /\ (u \in writers'[x] <=> u \in writers[x])
      <4>1. s \in 1 .. Shards /\ u \in Task \ {t}
        BY <1>1, <2>3
      <4>2. u \in Guarded(readers, t, s)[x] <=> u \in readers[x]
        BY <2>1, <4>1, GuardedMoves
      <4>3. u \in Guarded(writers, t, s)[x] <=> u \in writers[x]
        BY <2>1, <4>1, GuardedMoves
      <4> QED
        BY <1>3, <4>2, <4>3
    <3> QED
      BY <2>2, <3>1, <3>2 DEF Reads
  <2>4. CASE u = t
    <3>1. at'[t] \in {"shard", "entry"} /\ shard'[t] = s
      BY <1>1, <1>2 DEF TypeOK
    <3>2. CASE Reads(t)
      <4>1. readers' = Guarded(readers, t, s) /\ writers' = writers
        BY <1>3, <3>2
      <4>2. t \notin writers[x]
        BY <2>2, <2>4, <3>2 DEF Reads
      <4> QED
        BY <1>1, <2>1, <2>4, <3>1, <3>2, <4>1, <4>2, GuardedMoves
    <3>3. CASE ~Reads(t)
      <4>1. writers' = Guarded(writers, t, s) /\ readers' = readers
        BY <1>3, <3>3
      <4>2. t \notin readers[x]
        BY <2>2, <2>4, <3>3
      <4>3. Kind[t] = "walk"
        BY <1>1, <3>3, LocksAssumption DEF StepsAreOfKind, Reads, LocksAssumption
      <4> QED
        BY <1>1, <2>1, <2>4, <3>1, <4>1, <4>2, <4>3, GuardedMoves
    <3> QED
      BY <3>2, <3>3
  <2> QED
    BY <2>3, <2>4
<1>6. StepsAreOfKind'
  BY <1>1, <1>2, LocksAssumption DEF StepsAreOfKind, TypeOK, LocksAssumption
<1> QED
  BY <1>4, <1>5, <1>6

LEMMA EndOfMapInv ==
  ASSUME LocksInv, NEW t \in Task, EndOfMap(t)
  PROVE  LocksInv'
<1> USE DEF LocksInv, Goto
<1>1. /\ at[t] = "shard"
      /\ readers' = [s \in 1 .. Shards |-> readers[s] \ {t}]
      /\ writers' = [s \in 1 .. Shards |-> writers[s] \ {t}]
      /\ UNCHANGED <<sessions, left, seen, target, rounds, told>>
  BY DEF EndOfMap
<1>2. PICK step \in {"shard", "idle"}, n \in {0, shard[t]} :
        /\ at' = [at EXCEPT ![t] = step] /\ shard' = [shard EXCEPT ![t] = n]
        /\ counted' \in [Task -> BOOLEAN] /\ running' \subseteq Task
  <2>1. CASE Reads(t) /\ ~counted[t] /\ Cardinality(seen[t]) >= 2
    <3>1. at' = at /\ running' = running /\ shard' = [shard EXCEPT ![t] = 0]
          /\ counted' = [counted EXCEPT ![t] = TRUE]
      BY <2>1 DEF EndOfMap
    <3>2. at' = [at EXCEPT ![t] = "shard"]
      BY <1>1, <3>1 DEF TypeOK
    <3> QED
      BY <3>1, <3>2 DEF TypeOK
  <2>2. CASE ~(Reads(t) /\ ~counted[t] /\ Cardinality(seen[t]) >= 2)
    <3>1. /\ at' = [at EXCEPT ![t] = "idle"] /\ running' = running \ {t}
          /\ counted' = counted /\ shard' = shard
      BY <2>2 DEF EndOfMap, EndRound
    <3>2. shard' = [shard EXCEPT ![t] = shard[t]]
      BY <3>1 DEF TypeOK
    <3> QED
      BY <3>1, <3>2 DEF TypeOK
  <2> QED
    BY <2>1, <2>2
<1>3. TypeOK'
  BY <1>1, <1>2, LocksAssumption DEF TypeOK, LocksAssumption
<1>4. GuardsAreKnown'
  BY <1>1, <1>2 DEF GuardsAreKnown, Reads, TypeOK
<1>5. StepsAreOfKind'
  BY <1>1, <1>2 DEF StepsAreOfKind, TypeOK
<1> QED
  BY <1>3, <1>4, <1>5

LEMMA EntryInv ==
  ASSUME LocksInv, NEW t \in Task, NEW p \in Peer, Entry(t, p)
  PROVE  LocksInv'
<1> USE DEF LocksInv, Goto
<1>1. /\ at[t] = "entry" /\ left' = [left EXCEPT ![t] = @ \ {p}]
      /\ target' = [target EXCEPT ![t] = p]
      /\ UNCHANGED <<sessions, readers, writers, running, shard, counted, seen, rounds, told>>
  BY DEF Entry
<1>2. PICK step \in {"fetch", "send"} :
        at' = [at EXCEPT ![t] = step] /\ (Kind[t] = "walk" => step = "send")
  BY DEF Entry, Reads
<1>3. Kind[t] \in {"walk", "directory"}
  BY <1>1, LocksAssumption DEF StepsAreOfKind, LocksAssumption
<1>4. TypeOK'
  BY <1>1, <1>2 DEF TypeOK
<1>5. GuardsAreKnown'
  BY <1>1, <1>2, <1>3 DEF GuardsAreKnown, Reads, TypeOK
<1>6. StepsAreOfKind'
  BY <1>1, <1>2, <1>3 DEF StepsAreOfKind, TypeOK
<1> QED
  BY <1>4, <1>5, <1>6

LEMMA EndOfShardInv ==
  ASSUME LocksInv, NEW t \in Task, EndOfShard(t)
  PROVE  LocksInv'
<1> USE DEF LocksInv, Goto
<1>1. /\ at[t] = "entry" /\ at' = [at EXCEPT ![t] = "shard"]
      /\ UNCHANGED <<sessions, readers, writers, running, iteration, target, rounds, told>>
  BY DEF EndOfShard
<1>2. Kind[t] \in {"walk", "directory"}
  BY <1>1, LocksAssumption DEF StepsAreOfKind, LocksAssumption
<1>3. TypeOK'
  BY <1>1 DEF TypeOK, iteration
<1>4. GuardsAreKnown'
  BY <1>1, <1>2 DEF GuardsAreKnown, Reads, TypeOK, iteration
<1>5. StepsAreOfKind'
  BY <1>1, <1>2 DEF StepsAreOfKind, TypeOK
<1> QED
  BY <1>3, <1>4, <1>5

-----------------------------------------------------------------------------
(* Single sessions *)

LEMMA InsertInv ==
  ASSUME LocksInv, NEW t \in Task, Insert(t)
  PROVE  LocksInv'
<1> USE DEF LocksInv, Goto
<1>1. /\ at[t] = "insert" /\ at' = [at EXCEPT ![t] = "fetch"]
      /\ sessions' = sessions \cup {target[t]}
      /\ UNCHANGED <<readers, writers, running, iteration, target, rounds, told>>
  BY DEF Insert
<1>2. target[t] \in Peer /\ Kind[t] # "walk"
  BY <1>1 DEF StepsAreOfKind
<1>3. TypeOK'
  BY <1>1, <1>2 DEF TypeOK, iteration
<1>4. GuardsAreKnown'
  BY <1>1, <1>2 DEF GuardsAreKnown, Reads, TypeOK, iteration
<1>5. StepsAreOfKind'
  BY <1>1, <1>2 DEF StepsAreOfKind, TypeOK
<1> QED
  BY <1>3, <1>4, <1>5

\* Where t is after a session.
LEMMA ProceedStep ==
  ASSUME TypeOK, NEW t \in Task, Proceed(t)
  PROVE  \E step \in {"entry", "idle"} :
           /\ at' = [at EXCEPT ![t] = step]
           /\ step = "entry" <=> Kind[t] \in {"walk", "directory"}
           /\ running' \subseteq Task
BY DEF TypeOK, Proceed, EndRound, Goto

LEMMA FetchInv ==
  ASSUME LocksInv, NEW t \in Task, Fetch(t)
  PROVE  LocksInv'
<1> USE DEF LocksInv, Goto
<1> DEFINE s == ShardOf[target[t]]
<1>1. /\ at[t] = "fetch" /\ CanWrite(s)
      /\ UNCHANGED <<sessions, readers, iteration, target, rounds, told>>
  BY DEF Fetch
<1>2. target[t] \in Peer /\ Kind[t] # "walk" /\ s \in 1 .. Shards
  BY <1>1, LocksAssumption DEF StepsAreOfKind, LocksAssumption
<1>3. CASE /\ at' = [at EXCEPT ![t] = "send"] /\ running' = running
           /\ writers' = IF Kind[t] = "handshake" THEN [writers EXCEPT ![s] = {t}] ELSE writers
  <2>1. TypeOK'
    <3>1. writers' \in [1 .. Shards -> SUBSET Task]
      BY <1>2, <1>3 DEF TypeOK
    <3> QED
      BY <1>1, <1>3, <3>1 DEF TypeOK, iteration
  <2>2. GuardsAreKnown'
    <3>1. CASE Kind[t] = "handshake"
      BY <1>1, <1>2, <1>3, <3>1 DEF GuardsAreKnown, Reads, TypeOK, CanWrite, iteration
    <3>2. CASE Kind[t] # "handshake"
      BY <1>1, <1>2, <1>3, <3>2 DEF GuardsAreKnown, Reads, TypeOK, iteration
    <3> QED
      BY <3>1, <3>2
  <2>3. StepsAreOfKind'
    BY <1>1, <1>2, <1>3 DEF StepsAreOfKind, TypeOK
  <2> QED
    BY <2>1, <2>2, <2>3
<1>4. CASE Proceed(t) /\ writers' = writers
  <2>1. PICK step \in {"entry", "idle"} :
          /\ at' = [at EXCEPT ![t] = step]
          /\ step = "entry" <=> Kind[t] \in {"walk", "directory"}
          /\ running' \subseteq Task
    BY <1>4, ProceedStep
  <2>2. TypeOK'
    BY <1>1, <1>4, <2>1 DEF TypeOK, iteration
  <2>3. GuardsAreKnown'
    BY <1>1, <1>2, <1>4, <2>1 DEF GuardsAreKnown, Reads, TypeOK, iteration
  <2>4. StepsAreOfKind'
    BY <1>1, <1>2, <2>1 DEF StepsAreOfKind, TypeOK
  <2> QED
    BY <2>2, <2>3, <2>4
<1> QED
  BY <1>3, <1>4 DEF Fetch

LEMMA SuspendInv ==
  ASSUME LocksInv, NEW t \in Task, Suspend(t)
  PROVE  LocksInv'
<1> USE DEF LocksInv, Goto
<1>1. /\ at[t] = "send" /\ at' = [at EXCEPT ![t] = "sending"]
      /\ running' = running \ {t}
      /\ UNCHANGED <<sessions, readers, writers, iteration, target, rounds, told>>
  BY DEF Suspend
<1>2. TypeOK'
  BY <1>1 DEF TypeOK, iteration
<1>3. GuardsAreKnown'
  BY <1>1 DEF GuardsAreKnown, Reads, TypeOK, iteration
<1>4. StepsAreOfKind'
  BY <1>1 DEF StepsAreOfKind, TypeOK
<1> QED
  BY <1>2, <1>3, <1>4

LEMMA SentInv ==
  ASSUME LocksInv, NEW t \in Task, Sent(t), at[t] \in {"send", "sending"}
  PROVE  LocksInv'
<1> USE DEF LocksInv
<1>1. /\ UNCHANGED <<sessions, readers, iteration, target, rounds>>
      /\ told' = IF Reads(t) THEN told \cup {target[t]} ELSE told
      /\ writers' = IF Kind[t] = "handshake"
                    THEN [s \in 1 .. Shards |-> writers[s] \ {t}] ELSE writers
  BY DEF Sent
<1>2. PICK step \in {"entry", "idle"} :
        /\ at' = [at EXCEPT ![t] = step]
        /\ step = "entry" <=> Kind[t] \in {"walk", "directory"}
        /\ running' \subseteq Task
  BY ProceedStep DEF Sent
<1>3. TypeOK'
  <2>1. told' \subseteq Peer
    BY <1>1 DEF TypeOK, StepsAreOfKind
  <2>2. writers' \in [1 .. Shards -> SUBSET Task]
    BY <1>1 DEF TypeOK
  <2> QED
    BY <1>1, <1>2, <2>1, <2>2 DEF TypeOK, iteration
<1>4. GuardsAreKnown'
  <2>1. CASE Kind[t] = "handshake"
    BY <1>1, <1>2, <2>1 DEF GuardsAreKnown, Reads, TypeOK, iteration
  <2>2. CASE Kind[t] # "handshake"
    BY <1>1, <1>2, <2>2 DEF GuardsAreKnown, Reads, TypeOK, iteration
  <2> QED
    BY <2>1, <2>2
<1>5. StepsAreOfKind'
  BY <1>1, <1>2 DEF StepsAreOfKind, TypeOK
<1> QED
  BY <1>3, <1>4, <1>5

-----------------------------------------------------------------------------
LEMMA StepInv == LocksInv /\ [Next]_vars => LocksInv'
<1> SUFFICES ASSUME LocksInv, [Next]_vars PROVE LocksInv'
  OBVIOUS
<1>1. ASSUME NEW t \in Task, Step(t) PROVE LocksInv'
  <2>1. CASE Send(t) \/ Wake(t)
    BY <2>1, SentInv DEF Send, Wake
  <2>2. CASE \E p \in Peer : Entry(t, p)
    BY <2>2, EntryInv
  <2> QED
    BY <1>1, <2>1, <2>2, NextShardInv, EndOfMapInv, EndOfShardInv, InsertInv, FetchInv, SuspendInv
       DEF Step
<1>2. CASE UNCHANGED vars
  <2>1. TypeOK'
    BY <1>2 DEF vars, iteration, LocksInv, TypeOK
  <2>2. GuardsAreKnown'
    BY <1>2 DEF vars, iteration, LocksInv, GuardsAreKnown
  <2>3. StepsAreOfKind'
    BY <1>2 DEF vars, LocksInv, StepsAreOfKind
  <2> QED
    BY <2>1, <2>2, <2>3 DEF LocksInv
<1> QED
  BY <1>1, <1>2, TickInv, PacketInv DEF Next

\* On any interleaving of rounds, sends and wakeups every guard held is the
\* iterator's or that of a handshake that sends (lib.rs:494-622,
\* handshake.rs:111-136).
THEOREM GuardsAccountedFor == Spec => []LocksInv
<1>1. Init => LocksInv
  BY InitInv
<1>2. LocksInv /\ [Next]_vars => LocksInv'
  BY StepInv
<1> QED
  BY <1>1, <1>2, PTL DEF Spec

\* Without the broadcast, a task that waits for a shard holds only lower ones
\* (lib.rs:503, 603, outbound.rs:51, handshake.rs:111-133).
THEOREM LockOrder ==
  ASSUME CanRelay = FALSE
  PROVE  Spec => []ShardsInOrder
<1>1. LocksInv => ShardsInOrder
  <2> SUFFICES ASSUME LocksInv, NEW t \in Task,
                      NEW s \in 1 .. Shards, NEW h \in 1 .. Shards,
                      Wants(t, s), Holds(t, h)
               PROVE  h < s
    BY DEF ShardsInOrder
  <2>1. t \in readers[h] \/ t \in writers[h]
    BY DEF Holds
  <2>2. at[t] \in {"shard", "insert", "fetch"}
    BY DEF Wants
  <2>3. Kind[t] # "directory"
    BY <2>2, CanRelay = FALSE DEF LocksInv, StepsAreOfKind
  <2>4. Kind[t] = "walk" /\ h = shard[t]
    BY <2>1, <2>2, <2>3 DEF LocksInv, GuardsAreKnown, Reads
  <2>5. s = shard[t] + 1
    BY <2>2, <2>4 DEF LocksInv, StepsAreOfKind, Wants
  <2> QED
    BY <2>4, <2>5
<1> QED
  BY <1>1, GuardsAccountedFor, PTL
=============================================================================
