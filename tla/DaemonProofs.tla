---------------------------- MODULE DaemonProofs ----------------------------
(***************************************************************************)
(* Proofs about Daemon: for any number of processes, kills and commands.   *)
(* What holds of the files and the interface holds for any user at any     *)
(* time; that there is one engine, named by the PID file and with the      *)
(* saved identity, holds for any user until a command is given in the      *)
(* middle of another start or stop, or a signal is refused.                *)
(***************************************************************************)
EXTENDS Daemon, FiniteSetTheorems, FunctionTheorems, TLAPS

Write == [file : File, data : Data, ino : Ino, filled : BOOLEAN]
DirSafe == DirTypeOK(Data) /\ InodesApart
KeptSafe == SoleWriter /\ KeptWell

-----------------------------------------------------------------------------
(* Constants *)

LEMMA Nothing ==
  /\ None \notin Data \cup Ino \cup Write \cup {Empty, Torn}
  /\ \A f \in File, d \in Data : <<f, d>> # None
  /\ Empty # Torn /\ Data \cap {Empty, Torn} = {}
BY DaemonAssumption, DirAssumption DEF Write

LEMMA FilesAre == File = {"identity", "pid", "peers"} /\ Kept = {"identity", "pid"}
BY DaemonAssumption DEF Files, Kept

\* Threads have names of their own.
LEMMA ThreadsAre ==
  /\ \A p \in Pid : Main(p) \in Writer /\ Snap(p) \in Writer /\ Threads(p) = {Main(p), Snap(p)}
  /\ Cli \in Writer
  /\ \A p, q \in Pid : Main(p) # Snap(q) /\ Main(p) # Cli /\ Snap(p) # Cli
  /\ \A p, q \in Pid : Main(p) = Main(q) => p = q
  /\ \A p, q \in Pid : Snap(p) = Snap(q) => p = q
  /\ \A w \in Writer : w = Cli \/ \E p \in Pid : w = Main(p) \/ w = Snap(p)
<1>1. Writer = {Main(p) : p \in Pid} \cup {Snap(p) : p \in Pid} \cup {Cli}
  BY DaemonAssumption DEF Writers
<1>2. \A p \in Pid : Main(p) \in Pid \X {"main", "snapshot"} /\ Snap(p) \in Pid \X {"main", "snapshot"}
  BY DEF Main, Snap
<1>3. \A p \in Pid : Main(p) # Cli /\ Snap(p) # Cli
  BY <1>2, DaemonAssumption
<1>4. \A p, q \in Pid : Main(p) # Snap(q)
  BY DEF Main, Snap
<1>5. \A p, q \in Pid : (Main(p) = Main(q) => p = q) /\ (Snap(p) = Snap(q) => p = q)
  BY DEF Main, Snap
<1> QED
  BY <1>1, <1>3, <1>4, <1>5 DEF Threads

\* A write under way is one.
LEMMA WriteType ==
  ASSUME DirTypeOK(Data), NEW w \in Writer, writing[w] # None
  PROVE  /\ writing[w] \in Write
         /\ writing[w].file \in File /\ writing[w].data \in Data
         /\ writing[w].ino \in Ino /\ writing[w].filled \in BOOLEAN
BY DEF DirTypeOK, Write

-----------------------------------------------------------------------------
(* Inodes *)

LEMMA ImageBound ==
  ASSUME NEW S, IsFiniteSet(S), NEW f, f = [x \in S |-> f[x]]
  PROVE  /\ IsFiniteSet({f[x] : x \in S})
         /\ Cardinality({f[x] : x \in S}) <= Cardinality(S)
<1> DEFINE T == {f[x] : x \in S}
<1>1. f \in [S -> T]
  OBVIOUS
<1>2. f \in Surjection(S, T)
  BY <1>1 DEF Surjection
<1> HIDE DEF T
<1>3. IsFiniteSet(T) /\ Cardinality(T) <= Cardinality(S)
  BY <1>2, FS_Surjection
<1> QED
  BY <1>3 DEF T

\* There is always a free inode.
LEMMA FreshInode ==
  ASSUME DirTypeOK(Data)
  PROVE  \E j \in Ino : j \notin InUse
<1> DEFINE A == {disk[f] : f \in File}
           B == {tmp[f] : f \in File}
           W == {v \in Writer : writing[v] # None}
           h == [w \in W |-> writing[w].ino]
           C == {h[w] : w \in W}
           D == {writing[w].ino : w \in W}
<1>1. IsFiniteSet(File) /\ IsFiniteSet(Writer) /\ IsFiniteSet(Ino)
  BY DirAssumption
<1>2. /\ Cardinality(File) \in Nat /\ Cardinality(Writer) \in Nat /\ Cardinality(Ino) \in Nat
      /\ Cardinality(Ino) > 2 * Cardinality(File) + Cardinality(Writer)
  BY <1>1, FS_CardinalityType, DirAssumption
<1>3. IsFiniteSet(A) /\ Cardinality(A) <= Cardinality(File)
  <2>1. disk = [f \in File |-> disk[f]]
    BY DEF DirTypeOK
  <2> QED
    BY <2>1, <1>1, ImageBound
<1>4. IsFiniteSet(B) /\ Cardinality(B) <= Cardinality(File)
  <2>1. tmp = [f \in File |-> tmp[f]]
    BY DEF DirTypeOK
  <2> QED
    BY <2>1, <1>1, ImageBound
<1>5. IsFiniteSet(W) /\ Cardinality(W) <= Cardinality(Writer)
  <2>1. W \in SUBSET Writer
    OBVIOUS
  <2> HIDE DEF W
  <2> QED
    BY <2>1, <1>1, FS_Subset
<1>6. IsFiniteSet(C) /\ Cardinality(C) <= Cardinality(W)
  <2>1. h = [w \in W |-> h[w]]
    OBVIOUS
  <2> HIDE DEF W, h
  <2> QED
    BY <2>1, <1>5, ImageBound
<1>7. C = D
  OBVIOUS
<1>8. InUse = A \cup B \cup D
  BY DEF InUse
<1> HIDE DEF A, B, C, D, W, h
<1>9. /\ Cardinality(A) \in Nat /\ Cardinality(B) \in Nat /\ Cardinality(C) \in Nat
      /\ Cardinality(W) \in Nat
  BY <1>3, <1>4, <1>5, <1>6, FS_CardinalityType
<1>10. /\ IsFiniteSet(A \cup B) /\ Cardinality(A \cup B) \in Nat
       /\ Cardinality(A \cup B) <= Cardinality(A) + Cardinality(B)
  <2>1. IsFiniteSet(A \cup B) /\ IsFiniteSet(A \cap B)
    BY <1>3, <1>4, FS_Union, FS_Intersection
  <2>2. Cardinality(A \cup B) \in Nat /\ Cardinality(A \cap B) \in Nat
    BY <2>1, FS_CardinalityType
  <2>3. Cardinality(A \cup B) = Cardinality(A) + Cardinality(B) - Cardinality(A \cap B)
    BY <1>3, <1>4, FS_Union
  <2> QED
    BY <2>1, <2>2, <2>3, <1>9
<1>11. /\ IsFiniteSet(A \cup B \cup C) /\ Cardinality(A \cup B \cup C) \in Nat
       /\ Cardinality(A \cup B \cup C) <= Cardinality(A \cup B) + Cardinality(C)
  <2> DEFINE E == A \cup B
  <2> HIDE DEF E
  <2>0. IsFiniteSet(E) /\ Cardinality(E) \in Nat
    BY <1>10 DEF E
  <2>1. IsFiniteSet(E \cup C) /\ IsFiniteSet(E \cap C)
    BY <2>0, <1>6, FS_Union, FS_Intersection
  <2>2. Cardinality(E \cup C) \in Nat /\ Cardinality(E \cap C) \in Nat
    BY <2>1, FS_CardinalityType
  <2>3. Cardinality(E \cup C) = Cardinality(E) + Cardinality(C) - Cardinality(E \cap C)
    BY <2>0, <1>6, FS_Union
  <2>4. Cardinality(E \cup C) <= Cardinality(E) + Cardinality(C)
    BY <2>0, <2>2, <2>3, <1>9
  <2> QED
    BY <2>1, <2>2, <2>4 DEF E
<1>12. Cardinality(A \cup B \cup C) < Cardinality(Ino)
  BY <1>2, <1>3, <1>4, <1>5, <1>6, <1>9, <1>10, <1>11
<1>13. ~(Ino \subseteq A \cup B \cup C)
  <2> SUFFICES ASSUME Ino \in SUBSET (A \cup B \cup C)
               PROVE  FALSE
    OBVIOUS
  <2>1. Cardinality(Ino) <= Cardinality(A \cup B \cup C)
    BY <1>11, FS_Subset
  <2> QED
    BY <2>1, <1>2, <1>11, <1>12
<1> QED
  BY <1>7, <1>8, <1>13

\* Damaged files can be given an inode each.
LEMMA Places == \E g \in [Damaged -> Ino] : \A e, f \in Damaged : g[e] = g[f] => e = f
<1>1. IsFiniteSet(File) /\ IsFiniteSet(Ino) /\ IsFiniteSet(Writer) /\ Damaged \in SUBSET File
  BY DirAssumption
<1>2. IsFiniteSet(Damaged) /\ Cardinality(Damaged) <= Cardinality(File)
  BY <1>1, FS_Subset
<1>3. /\ Cardinality(Damaged) \in Nat /\ Cardinality(File) \in Nat /\ Cardinality(Ino) \in Nat
      /\ Cardinality(Writer) \in Nat
      /\ ExistsBijection(1 .. Cardinality(Damaged), Damaged)
      /\ ExistsBijection(1 .. Cardinality(Ino), Ino)
  BY <1>1, <1>2, FS_CardinalityType
<1> DEFINE m == Cardinality(Damaged)
           n == Cardinality(Ino)
<1>4. m \in Nat /\ n \in Nat /\ m <= n
  BY <1>2, <1>3, DirAssumption
<1>5. PICK b \in Bijection(1 .. m, Damaged) : TRUE
  BY <1>3 DEF ExistsBijection
<1>6. PICK c \in Bijection(1 .. n, Ino) : TRUE
  BY <1>3 DEF ExistsBijection
<1> HIDE DEF m, n
<1>7. /\ b \in [1 .. m -> Damaged] /\ \A f \in Damaged : \E i \in 1 .. m : b[i] = f
  BY <1>5 DEF Bijection, Surjection, Injection
<1>8. /\ c \in [1 .. n -> Ino] /\ \A i, j \in 1 .. n : c[i] = c[j] => i = j
  BY <1>6 DEF Bijection, Surjection, Injection, IsInjective
<1> DEFINE at == [f \in Damaged |-> CHOOSE i \in 1 .. m : b[i] = f]
           g == [f \in Damaged |-> c[at[f]]]
<1>9. \A f \in Damaged : at[f] \in 1 .. n /\ b[at[f]] = f
  BY <1>4, <1>7
<1> HIDE DEF at
<1>10. g \in [Damaged -> Ino] /\ \A e, f \in Damaged : g[e] = g[f] => e = f
  BY <1>8, <1>9
<1> QED
  BY <1>10

-----------------------------------------------------------------------------
(* The system calls, for any user *)

\* What is opened is an inode that no other file has.
LEMMA OpenIno ==
  ASSUME DirSafe, NEW w \in Writer, NEW f \in File, NEW d \in Data, OpenTmp(w, f, d)
  PROVE  \E i \in Ino :
           /\ tmp' = [tmp EXCEPT ![f] = i]
           /\ inode' = [inode EXCEPT ![i] = Empty]
           /\ writing' = [writing EXCEPT ![w] = [file |-> f, data |-> d, ino |-> i, filled |-> FALSE]]
           /\ disk' = disk
           /\ writing[w] = None
           /\ \A g \in File : disk[g] # i /\ (tmp[g] = i => g = f)
           /\ \A v \in Writer : writing[v] # None /\ writing[v].ino = i => writing[v].file = f
<1> DEFINE i == IF tmp[f] # None THEN tmp[f] ELSE CHOOSE j \in Ino : j \notin InUse
<1>1. /\ tmp' = [tmp EXCEPT ![f] = i]
      /\ inode' = [inode EXCEPT ![i] = Empty]
      /\ writing' = [writing EXCEPT ![w] = [file |-> f, data |-> d, ino |-> i, filled |-> FALSE]]
      /\ disk' = disk
      /\ writing[w] = None
  BY DEF OpenTmp
<1>2. CASE tmp[f] # None
  <2>1. i = tmp[f] /\ i \in Ino
    BY <1>2 DEF DirSafe, DirTypeOK
  <2>2. \A g \in File : disk[g] # i /\ (tmp[g] = i => g = f)
    BY <1>2, <2>1 DEF DirSafe, InodesApart
  <2>3. \A v \in Writer : writing[v] # None /\ writing[v].ino = i => writing[v].file = f
    BY <2>1 DEF DirSafe, InodesApart
  <2> QED
    BY <1>1, <2>1, <2>2, <2>3
<1>3. CASE tmp[f] = None
  <2>1. i \in Ino /\ i \notin InUse
    BY <1>3, FreshInode DEF DirSafe
  <2>2. \A g \in File : disk[g] # i /\ tmp[g] # i
    BY <2>1 DEF InUse
  <2>3. \A v \in Writer : writing[v] # None => writing[v].ino # i
    BY <2>1 DEF InUse
  <2> QED
    BY <1>1, <2>1, <2>2, <2>3
<1> QED
  BY <1>2, <1>3

LEMMA OpenSafe ==
  ASSUME DirSafe, NEW w \in Writer, NEW f \in File, NEW d \in Data, OpenTmp(w, f, d)
  PROVE  DirSafe' /\ \A g \in File : Content(g)' = Content(g)
<1>1. PICK i \in Ino :
        /\ tmp' = [tmp EXCEPT ![f] = i]
        /\ inode' = [inode EXCEPT ![i] = Empty]
        /\ writing' = [writing EXCEPT ![w] = [file |-> f, data |-> d, ino |-> i, filled |-> FALSE]]
        /\ disk' = disk
        /\ writing[w] = None
        /\ \A g \in File : disk[g] # i /\ (tmp[g] = i => g = f)
        /\ \A v \in Writer : writing[v] # None /\ writing[v].ino = i => writing[v].file = f
  BY OpenIno
<1> DEFINE m == [file |-> f, data |-> d, ino |-> i, filled |-> FALSE]
<1>2. m \in Write /\ m # None /\ m.file = f /\ m.ino = i
  <2>1. m \in Write
    BY DEF Write
  <2> QED
    BY <2>1, Nothing
<1> HIDE DEF m
<1>3. DirTypeOK(Data)'
  <2>1. writing' \in [Writer -> Write \cup {None}]
    BY <1>1, <1>2 DEF DirSafe, DirTypeOK, Write, m
  <2> QED
    BY <1>1, <2>1 DEF DirSafe, DirTypeOK, Write
<1>4. /\ writing'[w] = m
      /\ \A v \in Writer : v # w => writing'[v] = writing[v]
      /\ tmp'[f] = i /\ \A g \in File : g # f => tmp'[g] = tmp[g]
  BY <1>1 DEF DirSafe, DirTypeOK, m
<1>5. InodesApart'
  <2>1. \A g, h \in File : g # h => disk'[g] # disk'[h] \/ disk'[g] = None
    BY <1>1 DEF DirSafe, InodesApart
  <2>2. \A g, h \in File : g # h => tmp'[g] # tmp'[h] \/ tmp'[g] = None
    BY <1>1, <1>4 DEF DirSafe, InodesApart
  <2>3. \A g, h \in File : disk'[g] # tmp'[h] \/ disk'[g] = None
    BY <1>1, <1>4 DEF DirSafe, InodesApart
  <2>4. ASSUME NEW v \in Writer, writing'[v] # None, NEW g \in File,
               writing'[v].ino \in {disk'[g], tmp'[g]}
        PROVE  g = writing'[v].file
    <3>1. CASE v = w
      BY <3>1, <2>4, <1>1, <1>2, <1>4
    <3>2. CASE v # w
      BY <3>2, <2>4, <1>1, <1>4 DEF DirSafe, InodesApart
    <3> QED
      BY <3>1, <3>2
  <2>5. ASSUME NEW u \in Writer, NEW v \in Writer, writing'[u] # None, writing'[v] # None,
               writing'[u].ino = writing'[v].ino
        PROVE  writing'[u].file = writing'[v].file
    BY <2>5, <1>1, <1>2, <1>4 DEF DirSafe, InodesApart
  <2> QED
    BY <2>1, <2>2, <2>3, <2>4, <2>5 DEF InodesApart
<1>6. \A g \in File : Content(g)' = Content(g)
  BY <1>1 DEF Content, DirSafe, DirTypeOK
<1> QED
  BY <1>3, <1>5, <1>6 DEF DirSafe

LEMMA FillSafe ==
  ASSUME DirSafe, NEW w \in Writer, FillTmp(w)
  PROVE  DirSafe'
<1> DEFINE m == writing[w]
<1>1. m \in Write /\ m # None
  BY WriteType DEF FillTmp, DirSafe
<1>2. PICK c \in {m.data, Torn} : inode' = [inode EXCEPT ![m.ino] = c]
  BY DEF FillTmp
<1>3. writing' = [writing EXCEPT ![w].filled = TRUE] /\ disk' = disk /\ tmp' = tmp
  BY DEF FillTmp
<1>4. /\ writing'[w] = [m EXCEPT !.filled = TRUE]
      /\ \A v \in Writer : v # w => writing'[v] = writing[v]
  BY <1>3 DEF DirSafe, DirTypeOK
<1>5. /\ [m EXCEPT !.filled = TRUE] \in Write
      /\ [m EXCEPT !.filled = TRUE].ino = m.ino /\ [m EXCEPT !.filled = TRUE].file = m.file
  BY <1>1 DEF Write
<1> HIDE DEF m
<1>6. DirTypeOK(Data)'
  <2>1. writing' \in [Writer -> Write \cup {None}]
    BY <1>3, <1>4, <1>5 DEF DirSafe, DirTypeOK, Write, m
  <2>2. inode' \in [Ino -> Data \cup {Empty, Torn}]
    BY <1>1, <1>2 DEF DirSafe, DirTypeOK, Write
  <2> QED
    BY <1>3, <2>1, <2>2 DEF DirSafe, DirTypeOK, Write
<1>7. \A v \in Writer :
        /\ writing'[v] # None => writing[v] # None
        /\ writing'[v] # None =>
             writing'[v].ino = writing[v].ino /\ writing'[v].file = writing[v].file
  BY <1>1, <1>4, <1>5 DEF m
<1>8. InodesApart'
  BY <1>3, <1>7 DEF DirSafe, InodesApart
<1> QED
  BY <1>6, <1>8 DEF DirSafe

LEMMA RenameSafe ==
  ASSUME DirSafe, NEW w \in Writer, RenameTmp(w)
  PROVE  DirSafe'
<1> DEFINE m == writing[w]
<1>1. m # None /\ m.filled /\ tmp[m.file] # None /\ m \in Write /\ m.file \in File
  BY WriteType DEF RenameTmp, DirSafe
<1>2. /\ disk' = [disk EXCEPT ![m.file] = tmp[m.file]]
      /\ tmp' = [tmp EXCEPT ![m.file] = None]
      /\ writing' = [writing EXCEPT ![w] = None]
      /\ inode' = [i \in Ino |-> IF i \in {disk[m.file]} THEN Empty ELSE inode[i]]
  BY DEF RenameTmp, Unlinked
<1> HIDE DEF m
<1>3. DirTypeOK(Data)'
  BY <1>1, <1>2 DEF DirSafe, DirTypeOK
<1>4. /\ disk'[m.file] = tmp[m.file] /\ tmp'[m.file] = None /\ writing'[w] = None
      /\ \A g \in File : g # m.file => disk'[g] = disk[g] /\ tmp'[g] = tmp[g]
      /\ \A v \in Writer : v # w => writing'[v] = writing[v]
  BY <1>1, <1>2 DEF DirSafe, DirTypeOK
<1>5. InodesApart'
  <2>1. \A g, h \in File : g # h => disk'[g] # disk'[h] \/ disk'[g] = None
    BY <1>1, <1>4 DEF DirSafe, InodesApart
  <2>2. \A g, h \in File : g # h => tmp'[g] # tmp'[h] \/ tmp'[g] = None
    BY <1>1, <1>4 DEF DirSafe, InodesApart
  <2>3. \A g, h \in File : disk'[g] # tmp'[h] \/ disk'[g] = None
    BY <1>1, <1>4 DEF DirSafe, InodesApart
  <2>4. \A v \in Writer : writing'[v] # None =>
          writing[v] # None /\ writing'[v] = writing[v] /\ writing[v].ino \in Ino
    BY <1>4, WriteType DEF DirSafe
  <2>5. ASSUME NEW v \in Writer, writing'[v] # None, NEW g \in File,
               writing'[v].ino \in {disk'[g], tmp'[g]}
        PROVE  g = writing'[v].file
    <3>1. writing[v].ino \in {disk[g], tmp[g]}
      BY <2>4, <2>5, <1>1, <1>4, Nothing
    <3> QED
      BY <3>1, <2>4, <2>5 DEF DirSafe, InodesApart
  <2>6. ASSUME NEW u \in Writer, NEW v \in Writer, writing'[u] # None, writing'[v] # None,
               writing'[u].ino = writing'[v].ino
        PROVE  writing'[u].file = writing'[v].file
    BY <2>4, <2>6 DEF DirSafe, InodesApart
  <2> QED
    BY <2>1, <2>2, <2>3, <2>5, <2>6 DEF InodesApart
<1> QED
  BY <1>3, <1>5 DEF DirSafe

\* Files are removed, or writers end, or both.
Removes(F) == \/ F = {} /\ UNCHANGED <<disk, inode>>
              \/ Removed(F)
Stops(W) == \/ W = {} /\ UNCHANGED writing
            \/ Stopped(W)

LEMMA LossEffect ==
  ASSUME DirSafe, NEW F \in SUBSET File, NEW W, Removes(F), Stops(W), UNCHANGED tmp
  PROVE  /\ disk' = [f \in File |-> IF f \in F THEN None ELSE disk[f]]
         /\ writing' = [w \in Writer |-> IF w \in W THEN None ELSE writing[w]]
         /\ inode' \in [Ino -> Data \cup {Empty, Torn}]
         /\ \A i \in Ino : (\A f \in F : disk[f] # i) => inode'[i] = inode[i]
         /\ \A f \in File : Content(f)' = IF f \in F THEN None ELSE Content(f)
<1>1. disk' = [f \in File |-> IF f \in F THEN None ELSE disk[f]]
  BY DEF Removes, Removed, DirSafe, DirTypeOK
<1>2. writing' = [w \in Writer |-> IF w \in W THEN None ELSE writing[w]]
  BY DEF Stops, Stopped, DirSafe, DirTypeOK
<1>3. /\ inode' \in [Ino -> Data \cup {Empty, Torn}]
      /\ \A i \in Ino : (\A f \in F : disk[f] # i) => inode'[i] = inode[i]
  BY DEF Removes, Removed, Unlinked, DirSafe, DirTypeOK
<1>4. ASSUME NEW f \in File
      PROVE  Content(f)' = IF f \in F THEN None ELSE Content(f)
  <2>1. CASE f \in F
    BY <2>1, <1>1 DEF Content
  <2>2. CASE f \notin F
    <3>1. disk'[f] = disk[f]
      BY <1>1, <2>2
    <3>2. CASE disk[f] = None
      BY <3>1, <3>2, <2>2 DEF Content
    <3>3. CASE disk[f] # None
      <4>1. disk[f] \in Ino /\ \A g \in F : disk[g] # disk[f]
        BY <3>3, <2>2 DEF DirSafe, DirTypeOK, InodesApart
      <4> QED
        BY <3>1, <3>3, <2>2, <4>1, <1>3 DEF Content
    <3> QED
      BY <3>2, <3>3
  <2> QED
    BY <2>1, <2>2
<1> QED
  BY <1>1, <1>2, <1>3, <1>4

LEMMA LossSafe ==
  ASSUME DirSafe, NEW F \in SUBSET File, NEW W, Removes(F), Stops(W), UNCHANGED tmp
  PROVE  DirSafe'
<1>1. /\ disk' = [f \in File |-> IF f \in F THEN None ELSE disk[f]]
      /\ writing' = [w \in Writer |-> IF w \in W THEN None ELSE writing[w]]
      /\ inode' \in [Ino -> Data \cup {Empty, Torn}]
  BY LossEffect
<1>2. DirTypeOK(Data)'
  BY <1>1 DEF DirSafe, DirTypeOK
<1>3. \A f \in File : disk'[f] # None => disk'[f] = disk[f]
  BY <1>1
<1>4. \A w \in Writer : writing'[w] # None => writing'[w] = writing[w] /\ writing[w].ino \in Ino
  BY <1>1, WriteType DEF DirSafe
<1>5. InodesApart'
  <2>1. \A f, g \in File : f # g => disk'[f] # disk'[g] \/ disk'[f] = None
    BY <1>3 DEF DirSafe, InodesApart
  <2>2. \A f, g \in File : f # g => tmp'[f] # tmp'[g] \/ tmp'[f] = None
    BY DEF DirSafe, InodesApart
  <2>3. \A f, g \in File : disk'[f] # tmp'[g] \/ disk'[f] = None
    BY <1>3 DEF DirSafe, InodesApart
  <2>4. ASSUME NEW v \in Writer, writing'[v] # None, NEW g \in File,
               writing'[v].ino \in {disk'[g], tmp'[g]}
        PROVE  g = writing'[v].file
    <3>1. writing[v].ino \in {disk[g], tmp[g]} /\ writing[v] # None
      BY <1>3, <1>4, <2>4, Nothing
    <3> QED
      BY <3>1, <1>4, <2>4 DEF DirSafe, InodesApart
  <2>5. ASSUME NEW u \in Writer, NEW v \in Writer, writing'[u] # None, writing'[v] # None,
               writing'[u].ino = writing'[v].ino
        PROVE  writing'[u].file = writing'[v].file
    <3>1. writing[u] # None /\ writing[v] # None
      BY <1>4, <2>5
    <3> QED
      BY <3>1, <1>4, <2>5 DEF DirSafe, InodesApart
  <2> QED
    BY <2>1, <2>2, <2>3, <2>4, <2>5 DEF InodesApart
<1> QED
  BY <1>2, <1>5 DEF DirSafe

\* A write that is given up is a writer that stops.
LEMMA GiveUpStops ==
  ASSUME DirTypeOK(Data), NEW w \in Writer, GiveUp(w)
  PROVE  Stops({w}) /\ Removes({}) /\ UNCHANGED tmp
BY DEF GiveUp, Stops, Stopped, Removes, DirTypeOK

-----------------------------------------------------------------------------
(* The system calls, as long as all is in order *)

\* Who opens a file that matters is the only one.
LEMMA OpenKept ==
  ASSUME DirSafe, KeptSafe, NEW w \in Writer, NEW f \in File, NEW d \in Data, OpenTmp(w, f, d),
         f \in Kept => \A v \in Writer : writing[v] # None => writing[v].file # f
  PROVE  KeptSafe'
<1>1. PICK i \in Ino :
        /\ tmp' = [tmp EXCEPT ![f] = i]
        /\ inode' = [inode EXCEPT ![i] = Empty]
        /\ writing' = [writing EXCEPT ![w] = [file |-> f, data |-> d, ino |-> i, filled |-> FALSE]]
        /\ disk' = disk
        /\ writing[w] = None
        /\ \A g \in File : disk[g] # i /\ (tmp[g] = i => g = f)
        /\ \A v \in Writer : writing[v] # None /\ writing[v].ino = i => writing[v].file = f
  BY OpenIno
<1> DEFINE m == [file |-> f, data |-> d, ino |-> i, filled |-> FALSE]
<1>2. m \in Write /\ m # None /\ m.file = f /\ m.ino = i /\ m.filled = FALSE
  <2>1. m \in Write
    BY DEF Write
  <2> QED
    BY <2>1, Nothing
<1> HIDE DEF m
<1>3. /\ writing'[w] = m
      /\ \A v \in Writer : v # w => writing'[v] = writing[v]
      /\ tmp'[f] = i /\ \A g \in File : g # f => tmp'[g] = tmp[g]
      /\ inode'[i] = Empty /\ \A j \in Ino : j # i => inode'[j] = inode[j]
  BY <1>1 DEF DirSafe, DirTypeOK, m
<1>4. SoleWriter'
  BY <1>2, <1>3, FilesAre DEF KeptSafe, SoleWriter
<1>5. ASSUME NEW v \in Writer, writing'[v] # None, writing'[v].file \in Kept
      PROVE  WritesAlone(v)'
  <2>1. CASE v = w
    BY <2>1, <1>2, <1>3 DEF WritesAlone
  <2>2. CASE v # w
    <3>1. writing'[v] = writing[v] /\ writing[v] \in Write /\ WritesAlone(v)
      BY <2>2, <1>3, <1>5, WriteType DEF KeptSafe, KeptWell, DirSafe
    <3>2. writing[v].file # f /\ writing[v].ino # i /\ writing[v].ino \in Ino /\ writing[v].file \in File
      BY <3>1, <1>1, <1>5 DEF Write
    <3> QED
      BY <3>1, <3>2, <1>3 DEF WritesAlone
  <2> QED
    BY <2>1, <2>2
<1>6. ASSUME NEW g \in Kept, disk'[g] # None
      PROVE  inode'[disk'[g]] # Empty
  BY <1>1, <1>3, <1>6, FilesAre DEF KeptSafe, KeptWell, DirSafe, DirTypeOK
<1> QED
  BY <1>4, <1>5, <1>6 DEF KeptSafe, KeptWell

LEMMA FillKept ==
  ASSUME DirSafe, KeptSafe, NEW w \in Writer, FillTmp(w)
  PROVE  /\ KeptSafe'
         /\ \A f \in Kept : Content(f)' = Content(f)
         /\ \A v \in Writer : (writing'[v] = None <=> writing[v] = None)
         /\ \A v \in Writer : writing[v] # None =>
              writing'[v].file = writing[v].file /\ writing'[v].data = writing[v].data
<1> DEFINE m == writing[w]
<1>1. m \in Write /\ m # None /\ m.filled = FALSE
  BY WriteType DEF FillTmp, DirSafe
<1>2. PICK c : /\ c \in IF inode[m.ino] \in {Empty, m.data} THEN {m.data} ELSE {m.data, Torn}
               /\ inode' = [inode EXCEPT ![m.ino] = c]
  BY DEF FillTmp
<1>3. writing' = [writing EXCEPT ![w].filled = TRUE] /\ disk' = disk /\ tmp' = tmp
  BY DEF FillTmp
<1> DEFINE n == [m EXCEPT !.filled = TRUE]
<1>4. /\ writing'[w] = n
      /\ \A v \in Writer : v # w => writing'[v] = writing[v]
  BY <1>3 DEF DirSafe, DirTypeOK
<1>5. /\ n \in Write /\ n # None /\ n.filled = TRUE
      /\ n.ino = m.ino /\ n.file = m.file /\ n.data = m.data /\ m.ino \in Ino /\ m.file \in File
      /\ m.data \in Data
  BY <1>1, Nothing DEF Write
<1> HIDE DEF n
<1>6. /\ \A v \in Writer : (writing'[v] = None <=> writing[v] = None)
      /\ \A v \in Writer : writing[v] # None =>
           /\ writing'[v].file = writing[v].file /\ writing'[v].data = writing[v].data
           /\ writing'[v].ino = writing[v].ino
  BY <1>1, <1>4, <1>5
<1>7. SoleWriter'
  BY <1>6 DEF KeptSafe, SoleWriter
<1>8. \A i \in Ino : i # m.ino => inode'[i] = inode[i]
  BY <1>2, <1>5 DEF DirSafe, DirTypeOK
<1>9. ASSUME NEW v \in Writer, writing'[v] # None, writing'[v].file \in Kept
      PROVE  WritesAlone(v)'
  <2>1. writing[v] # None /\ WritesAlone(v) /\ writing[v].file \in Kept
    BY <1>6, <1>9 DEF KeptSafe, KeptWell
  <2>2. CASE v = w
    <3>1. inode[m.ino] = Empty /\ m.ino = tmp[m.file]
      BY <2>1, <2>2, <1>1 DEF WritesAlone
    <3>2. inode'[m.ino] = m.data
      BY <3>1, <1>2, <1>5 DEF DirSafe, DirTypeOK
    <3> QED
      BY <2>2, <3>1, <3>2, <1>3, <1>4, <1>5 DEF WritesAlone
  <2>3. CASE v # w
    <3>1. writing[v].ino # m.ino /\ writing[v] \in Write /\ writing[v].ino \in Ino
      <4>1. writing[v].ino = m.ino => writing[v].file = m.file
        BY <2>1, <1>1 DEF DirSafe, InodesApart
      <4>2. writing[v].file # m.file
        BY <2>1, <2>3, <1>1, FilesAre DEF KeptSafe, SoleWriter
      <4> QED
        BY <4>1, <4>2, <2>1, WriteType DEF DirSafe
    <3> QED
      BY <3>1, <2>1, <2>3, <1>3, <1>4, <1>8 DEF WritesAlone
  <2> QED
    BY <2>2, <2>3
<1>10. ASSUME NEW f \in Kept, disk[f] # None
       PROVE  disk[f] # m.ino /\ disk[f] \in Ino
  <2>1. f \in File /\ disk[f] \in Ino
    BY <1>10, FilesAre DEF DirSafe, DirTypeOK
  <2>2. SUFFICES ASSUME disk[f] = m.ino
                 PROVE  FALSE
    BY <2>1
  <2>3. m.file = f
    BY <2>1, <2>2, <1>1 DEF DirSafe, InodesApart
  <2>4. m.ino = tmp[f]
    BY <2>3, <1>1 DEF KeptSafe, KeptWell, WritesAlone
  <2> QED
    BY <2>1, <2>2, <2>4, <1>10 DEF DirSafe, InodesApart
<1>11. \A f \in Kept : Content(f)' = Content(f)
  BY <1>3, <1>8, <1>10 DEF Content
<1>12. \A f \in Kept : disk'[f] # None => inode'[disk'[f]] # Empty
  BY <1>3, <1>8, <1>10 DEF KeptSafe, KeptWell
<1> QED
  BY <1>6, <1>7, <1>9, <1>11, <1>12 DEF KeptSafe, KeptWell

LEMMA RenameKept ==
  ASSUME DirSafe, KeptSafe, NEW w \in Writer, RenameTmp(w)
  PROVE  /\ KeptSafe'
         /\ writing[w] \in Write /\ writing[w] # None
         /\ writing' = [writing EXCEPT ![w] = None]
         /\ \A f \in Kept :
              Content(f)' = IF f = writing[w].file THEN writing[w].data ELSE Content(f)
<1> DEFINE m == writing[w]
<1>1. m # None /\ m.filled = TRUE /\ tmp[m.file] # None /\ m \in Write
  BY WriteType DEF RenameTmp, DirSafe, Write
<1>2. m.file \in File /\ m.ino \in Ino /\ m.data \in Data
  BY <1>1 DEF Write
<1>3. /\ disk' = [disk EXCEPT ![m.file] = tmp[m.file]]
      /\ tmp' = [tmp EXCEPT ![m.file] = None]
      /\ writing' = [writing EXCEPT ![w] = None]
      /\ inode' = [i \in Ino |-> IF i \in {disk[m.file]} THEN Empty ELSE inode[i]]
  BY DEF RenameTmp, Unlinked
<1>4. /\ disk'[m.file] = tmp[m.file] /\ tmp'[m.file] = None /\ writing'[w] = None
      /\ \A g \in File : g # m.file => disk'[g] = disk[g] /\ tmp'[g] = tmp[g]
      /\ \A v \in Writer : v # w => writing'[v] = writing[v]
      /\ \A i \in Ino : i # disk[m.file] => inode'[i] = inode[i]
  BY <1>2, <1>3 DEF DirSafe, DirTypeOK
<1> HIDE DEF m
<1>5. SoleWriter'
  BY <1>4 DEF KeptSafe, SoleWriter
<1>6. tmp[m.file] \in Ino /\ inode'[tmp[m.file]] = inode[tmp[m.file]]
  <2>1. tmp[m.file] \in Ino
    BY <1>1, <1>2 DEF DirSafe, DirTypeOK
  <2>2. tmp[m.file] # disk[m.file]
    BY <2>1, <1>2, Nothing DEF DirSafe, InodesApart
  <2> QED
    BY <2>1, <2>2, <1>4
<1>7. m.file \in Kept => inode[tmp[m.file]] = m.data
  BY <1>1 DEF KeptSafe, KeptWell, WritesAlone, m
<1>8. ASSUME NEW f \in Kept, f # m.file
      PROVE  /\ disk'[f] = disk[f]
             /\ disk[f] # None => disk[f] \in Ino /\ inode'[disk[f]] = inode[disk[f]]
  <2>1. f \in File
    BY FilesAre
  <2>2. disk[f] # None => disk[f] # disk[m.file] /\ disk[f] \in Ino
    BY <2>1, <1>2, <1>8 DEF DirSafe, DirTypeOK, InodesApart
  <2> QED
    BY <2>1, <2>2, <1>4, <1>8
<1>9. \A f \in Kept : Content(f)' = IF f = m.file THEN m.data ELSE Content(f)
  BY <1>1, <1>4, <1>6, <1>7, <1>8 DEF Content
<1>10. \A f \in Kept : disk'[f] # None => inode'[disk'[f]] # Empty
  <2>1. m.data # Empty
    BY <1>2, Nothing
  <2> QED
    BY <2>1, <1>4, <1>6, <1>7, <1>8 DEF KeptSafe, KeptWell
<1>11. ASSUME NEW v \in Writer, writing'[v] # None, writing'[v].file \in Kept
       PROVE  WritesAlone(v)'
  <2>1. v # w /\ writing'[v] = writing[v] /\ writing[v] # None
    BY <1>4, <1>11
  <2>2. WritesAlone(v) /\ writing[v] \in Write /\ writing[v].file \in File /\ writing[v].ino \in Ino
    BY <2>1, <1>11, WriteType DEF KeptSafe, KeptWell, DirSafe
  <2>3. writing[v].file # m.file
    BY <2>1, <1>1, <1>11, FilesAre DEF KeptSafe, SoleWriter, m
  <2>4. writing[v].ino # disk[m.file]
    BY <2>1, <2>2, <2>3, <1>2 DEF DirSafe, InodesApart
  <2> QED
    BY <2>1, <2>2, <2>3, <2>4, <1>4 DEF WritesAlone
<1> QED
  BY <1>1, <1>3, <1>5, <1>9, <1>10, <1>11 DEF KeptSafe, KeptWell, m

LEMMA LossKept ==
  ASSUME DirSafe, KeptSafe, NEW F \in SUBSET File, NEW W, Removes(F), Stops(W), UNCHANGED tmp
  PROVE  KeptSafe'
<1>1. /\ disk' = [f \in File |-> IF f \in F THEN None ELSE disk[f]]
      /\ writing' = [w \in Writer |-> IF w \in W THEN None ELSE writing[w]]
      /\ \A i \in Ino : (\A f \in F : disk[f] # i) => inode'[i] = inode[i]
  BY LossEffect
<1>2. \A w \in Writer : writing'[w] # None => writing'[w] = writing[w]
  BY <1>1
<1>3. SoleWriter'
  BY <1>2 DEF KeptSafe, SoleWriter
<1>4. ASSUME NEW w \in Writer, writing'[w] # None, writing'[w].file \in Kept
      PROVE  WritesAlone(w)'
  <2>1. writing'[w] = writing[w] /\ writing[w] # None
    BY <1>2, <1>4
  <2>2. /\ WritesAlone(w) /\ writing[w] \in Write /\ writing[w].file \in File
        /\ writing[w].ino \in Ino
    BY <2>1, <1>4, WriteType DEF KeptSafe, KeptWell, DirSafe
  <2>3. \A f \in F : disk[f] # writing[w].ino
    BY <2>2, Nothing DEF WritesAlone, DirSafe, InodesApart
  <2> QED
    BY <2>1, <2>2, <2>3, <1>1 DEF WritesAlone
<1>5. ASSUME NEW f \in Kept, disk'[f] # None
      PROVE  inode'[disk'[f]] # Empty
  <2>1. f \in File /\ f \notin F /\ disk'[f] = disk[f]
    BY <1>1, <1>5, FilesAre
  <2>2. disk[f] \in Ino /\ \A g \in F : disk[g] # disk[f]
    BY <2>1, <1>5 DEF DirSafe, DirTypeOK, InodesApart
  <2> QED
    BY <2>1, <2>2, <1>1, <1>5 DEF KeptSafe, KeptWell
<1> QED
  BY <1>3, <1>4, <1>5 DEF KeptSafe, KeptWell

-----------------------------------------------------------------------------
(* For any user: types, inodes and what is on the screen *)

Status == {"unborn", "zombie", "dead"} \cup Booting \cup Engine \cup Ending
Over == {"zombie", "dead"}

LEMMA StatusesAre ==
  /\ Booting = {"identity", "creating", "saving", "pid", "writing_pid"}
  /\ Engine = {"starting", "serving"} /\ Ending = {"stopping", "clearing", "exiting"}
  /\ Named = {"starting", "serving", "stopping"}
  /\ Active = {"identity", "creating", "saving", "pid", "writing_pid",
               "starting", "serving", "stopping"}
  /\ Over \subseteq Status
BY DEF Booting, Engine, Ending, Named, Active, Over, Status

\* What a system call may do.
DirStep ==
  \/ \E w \in Writer, f \in File, d \in Data : OpenTmp(w, f, d)
  \/ \E w \in Writer : FillTmp(w) \/ RenameTmp(w)
  \/ \E F \in SUBSET File, W \in SUBSET Writer : Removes(F) /\ Stops(W) /\ UNCHANGED tmp

LEMMA DirStepSafe ==
  ASSUME DirSafe, DirStep
  PROVE  DirSafe'
BY OpenSafe, FillSafe, RenameSafe, LossSafe DEF DirStep

\* Special cases of the last.
LEMMA NoCall ==
  ASSUME UNCHANGED dirVars
  PROVE  Removes({}) /\ Stops({}) /\ UNCHANGED tmp /\ DirStep
<1>1. Removes({}) /\ Stops({}) /\ UNCHANGED tmp
  BY DEF dirVars, Removes, Stops
<1> QED
  BY <1>1 DEF DirStep

LEMMA Removing ==
  ASSUME NEW F \in SUBSET File, Removed(F), UNCHANGED <<tmp, writing>>
  PROVE  Removes(F) /\ Stops({}) /\ UNCHANGED tmp /\ DirStep
<1>1. Removes(F) /\ Stops({}) /\ UNCHANGED tmp
  BY DEF Removes, Stops
<1> QED
  BY <1>1 DEF DirStep

LEMMA Stopping ==
  ASSUME NEW W \in SUBSET Writer, Stopped(W), UNCHANGED <<disk, tmp, inode>>
  PROVE  Removes({}) /\ Stops(W) /\ UNCHANGED tmp /\ DirStep
<1>1. Removes({}) /\ Stops(W) /\ UNCHANGED tmp
  BY DEF Removes, Stops
<1> QED
  BY <1>1 DEF DirStep

\* The threads of a set of processes.
Team(P) == UNION {Threads(p) : p \in P}

LEMMA TeamIs ==
  ASSUME NEW P \in SUBSET Pid
  PROVE  /\ Team(P) \in SUBSET Writer
         /\ \A p \in P : Main(p) \in Team(P)
         /\ Cli \notin Team(P)
BY ThreadsAre DEF Team

LEMMA KillIs ==
  ASSUME NEW P \in SUBSET Pid, Kill(P), pc \in [Pid -> Status]
  PROVE  /\ Stopped(Team(P))
         /\ pc' \in [Pid -> Status]
         /\ \A p \in Pid : pc'[p] = pc[p] \/ (pc'[p] \in Over /\ p \in P)
         /\ \A p \in P : Runs(p) => pc'[p] \in Over
<1>1. \A p \in Pid : Ended(p) \in Over
  BY DEF Ended, Over
<1>2. pc' = [p \in Pid |-> IF p \in P /\ Runs(p) THEN Ended(p) ELSE pc[p]]
  BY DEF Kill
<1> QED
  BY <1>1, <1>2, StatusesAre DEF Kill, Team

\* Which of the PID file and the identity can be read.
LEMMA ContentType ==
  ASSUME DirTypeOK(Data)
  PROVE  \A f \in File : Content(f) \in Data \cup {Empty, Torn, None}
BY DEF DirTypeOK, Content

LEMMA CallDir ==
  ASSUME TypeOK, [Next]_vars
  PROVE  DirStep
<1>0. pc \in [Pid -> Status]
  BY DEF TypeOK, Status
<1>1. CASE UNCHANGED vars
  BY <1>1, NoCall DEF vars
<1>2. ASSUME NEW p \in Pid, DaemonStep(p)
      PROVE  DirStep
  <2>0. Main(p) \in Writer /\ p \in Data /\ Threads(p) \in SUBSET Writer /\ "identity" \in File
        /\ "pid" \in File /\ {"pid"} \in SUBSET File /\ {"peers"} \in SUBSET File
    BY ThreadsAre, FilesAre DEF Data
  <2>1. CASE LoadIdentity(p) \/ FindNoIdentity(p) \/ EngineStarts(p) \/ EngineFails(p) \/ Exit(p)
    BY <2>1, NoCall DEF LoadIdentity, FindNoIdentity, EngineStarts, EngineFails, Exit
  <2>2. CASE CreateIdentity(p) \/ WritePid(p)
    BY <2>0, <2>2 DEF CreateIdentity, WritePid, DirStep
  <2>3. CASE SaveIdentity(p) \/ PidWritten(p)
    BY <2>0, <2>3 DEF SaveIdentity, PidWritten, DirStep
  <2>4. CASE FailEarly(p)
    BY <2>0, <2>4, Stopping DEF FailEarly
  <2>5. CASE ClearPid(p) \/ ClearPeers(p)
    BY <2>0, <2>5, Removing DEF ClearPid, ClearPeers
  <2> QED
    BY <1>2, <2>1, <2>2, <2>3, <2>4, <2>5 DEF DaemonStep
<1>3. ASSUME NEW p \in Pid, WritePeers(p) \/ PeersWritten(p) \/ Interrupt(p) \/ Crash(p)
      PROVE  DirStep
  <2>0. Snap(p) \in Writer /\ p \in Data /\ "peers" \in File /\ {"peers"} \in SUBSET File
        /\ {p} \in SUBSET Pid /\ {Snap(p)} \in SUBSET Writer
    BY ThreadsAre, FilesAre DEF Data
  <2>1. CASE WritePeers(p)
    BY <2>0, <2>1 DEF WritePeers, DirStep
  <2>2. CASE PeersWritten(p)
    <3>1. CASE RenameTmp(Snap(p))
      BY <3>1, <2>0 DEF DirStep
    <3>2. CASE GiveUp(Snap(p))
      <4>1. Removes({}) /\ Stops({Snap(p)}) /\ UNCHANGED tmp
        BY <3>2, <2>0, GiveUpStops DEF TypeOK
      <4> QED
        BY <4>1, <2>0 DEF DirStep
    <3> QED
      BY <2>2, <3>1, <3>2 DEF PeersWritten
  <2>3. CASE Interrupt(p)
    BY <2>0, <2>3, Removing DEF Interrupt
  <2>4. CASE Crash(p)
    <3>1. Team({p}) \in SUBSET Writer /\ Stopped(Team({p}))
      BY <2>0, <2>4, <1>0, TeamIs, KillIs DEF Crash
    <3> QED
      BY <3>1, <2>4, Stopping DEF Crash
  <2> QED
    BY <1>3, <2>1, <2>2, <2>3, <2>4
<1>4. ASSUME NEW w \in Writer, Fill(w)
      PROVE  DirStep
  BY <1>4 DEF Fill, DirStep
<1>c. {} \in SUBSET File /\ {"pid"} \in SUBSET File /\ {"pid", "peers"} \in SUBSET File
      /\ Cli \in Writer /\ {Cli} \in SUBSET Writer /\ Cli \in Data /\ "identity" \in File
  BY ThreadsAre, FilesAre DEF Data
<1>i. ASSUME CliIdentity \/ CliNoIdentity
      PROVE  DirStep
  BY <1>i, NoCall DEF CliIdentity, CliNoIdentity
<1>k. ASSUME NEW P \in SUBSET Pid, Kill(P), UNCHANGED <<disk, tmp, inode>>
      PROVE  DirStep
  <2>1. Team(P) \in SUBSET Writer /\ Stopped(Team(P))
    BY <1>k, <1>0, TeamIs, KillIs
  <2> QED
    BY <1>k, <2>1, Stopping
<1>5. ASSUME CliStep \/ UpTimeout \/ CliKilled
      PROVE  DirStep
  <2>1. CASE UpClears \/ DownClears \/ DownTidies
    BY <2>1, <1>c, Removing DEF UpClears, DownClears, DownTidies
  <2>2. CASE UpSpawn \/ UpSpawnFails \/ UpFails \/ UpSees
    BY <2>2, NoCall DEF UpSpawn, UpSpawnFails, UpFails, UpSees
  <2>3. CASE CliSaved
    <3>1. CASE RenameTmp(Cli)
      BY <3>1, <1>c DEF DirStep
    <3>2. CASE GiveUp(Cli)
      <4>1. Removes({}) /\ Stops({Cli}) /\ UNCHANGED tmp
        BY <3>2, <1>c, GiveUpStops DEF TypeOK
      <4> QED
        BY <4>1, <1>c DEF DirStep
    <3> QED
      BY <2>3, <3>1, <3>2 DEF CliSaved
  <2>4. CASE DownSweeps \/ DownSearches
    <3>1. Orphans \in SUBSET Pid /\ Kill(Orphans) /\ UNCHANGED <<disk, tmp, inode>>
      BY <2>4 DEF DownSweeps, DownSearches, Orphans
    <3> QED
      BY <3>1, <1>k
  <2>5. CASE cli.at = "report" /\ (CliIdentity \/ CliNoIdentity)
    BY <2>5, <1>i
  <2>8. CASE CliCreatesIdentity
    BY <2>8, <1>c DEF CliCreatesIdentity, DirStep
  <2>6. CASE UpTimeout
    <3>1. Threads(cli.pid) \cap Writer \in SUBSET Writer
      OBVIOUS
    <3>2. Stopped(Threads(cli.pid) \cap Writer) /\ UNCHANGED <<disk, tmp, inode>>
      BY <2>6 DEF UpTimeout, Stopped
    <3> QED
      BY <3>1, <3>2, Stopping
  <2>7. CASE CliKilled
    BY <2>7, <1>c, Stopping DEF CliKilled
  <2> QED
    BY <1>5, <2>1, <2>2, <2>3, <2>4, <2>5, <2>6, <2>7, <2>8 DEF CliStep
<1>6. ASSUME TuiStep
      PROVE  DirStep
  <2>0. (IF tui.pid = None THEN {} ELSE {"pid"}) \in SUBSET File
    BY <1>c
  <2>1. CASE PollExited \/ PollRunning \/ PollNothing \/ RefreshPeers \/ TuiSpawns \/ TuiSpawnFails
    BY <2>1, NoCall
       DEF PollExited, PollRunning, PollNothing, RefreshPeers, TuiSpawns, TuiSpawnFails
  <2>2. CASE TuiClears
    BY <2>0, <2>2, Removing DEF TuiClears
  <2>3. CASE TuiStopped \/ TuiLeft
    BY <1>c, <2>3, Removing DEF TuiStopped, TuiLeft
  <2> QED
    BY <1>6, <2>1, <2>2, <2>3 DEF TuiStep
<1>s. ASSUME NEW then, StopSignals(then), UNCHANGED tmp
      PROVE  DirStep
  <2>1. PICK P \in SUBSET Pid :
          Kill(P) /\ (UNCHANGED <<disk, inode>> \/ Removed({"pid", "peers"}))
    BY <1>s DEF StopSignals, Orphans
  <2>2. CASE UNCHANGED <<disk, inode>>
    BY <2>1, <2>2, <1>s, <1>k
  <2>3. CASE Removed({"pid", "peers"})
    <3>1. Team(P) \in SUBSET Writer /\ Stopped(Team(P))
      BY <2>1, <1>0, TeamIs, KillIs
    <3> QED
      BY <3>1, <2>3, <1>s, <1>c DEF DirStep, Removes, Stops
  <2> QED
    BY <2>1, <2>2, <2>3
<1>7. ASSUME UserStep
      PROVE  DirStep
  <2>1. CASE UpAlready \/ Up \/ DownStale \/ TuiOpens \/ TuiQuits
    BY <2>1, NoCall DEF UpAlready, Up, DownStale, TuiOpens, TuiQuits
  <2>2. CASE DownSignals
    <3>1. {PidFile} \in SUBSET Pid /\ Kill({PidFile}) /\ UNCHANGED <<disk, tmp, inode>>
      BY <2>2 DEF DownSignals, AlreadyUp
    <3> QED
      BY <3>1, <1>k
  <2>4. CASE cli.at = "idle" /\ (CliIdentity \/ CliNoIdentity)
    BY <2>4, <1>i
  <2>5. CASE TuiStarts
    <3> DEFINE P == {p \in {PidFile} \cap Pid : ~Refused(p)}
    <3>1. P \in SUBSET Pid /\ Kill(P) /\ UNCHANGED <<disk, tmp, inode>>
      BY <2>5 DEF TuiStarts
    <3> HIDE DEF P
    <3> QED
      BY <3>1, <1>k
  <2>6. CASE TuiStops \/ TuiQuitsRunning
    BY <2>6, <1>s DEF TuiStops, TuiQuitsRunning
  <2> QED
    BY <1>7, <2>1, <2>2, <2>4, <2>5, <2>6 DEF UserStep
<1> QED
  BY <1>1, <1>2, <1>3, <1>4, <1>5, <1>6, <1>7 DEF Next

CliPlace == {"idle", "clear", "spawn", "wait", "report", "creating", "saving",
             "settle", "tidy", "sweep", "search"}
CliType == [at : CliPlace, pid : Pid \cup {None}]
TuiPlace == {"off", "loop", "peers", "start", "spawn", "stop", "quit"}
TuiView == {"off", "Stopped", "Starting", "Running", "Stopping"}
TuiType == [view : TuiView, pid : Pid \cup {None}, child : Pid \cup {None},
            shown : Pid \cup {None}, at : TuiPlace]

UsedType == [crash : Nat, command : Nat, orderly : BOOLEAN]

\* Everything but the state directory and what has been used up.
ProcType ==
  /\ pc \in [Pid -> Status]
  /\ key \in [Pid -> Data \cup {None}]
  /\ parent \in [Pid -> {"up", "tui", "init", None}]
  /\ cli \in CliType /\ tui \in TuiType

LEMMA TypesAre ==
  /\ TypeOK <=> DirTypeOK(Data) /\ ProcType /\ used \in UsedType
  /\ AnyUserInv <=> DirSafe /\ ProcType /\ used \in UsedType /\ PeersHaveDaemon /\ ViewMatches
  /\ TypeOK' <=> DirTypeOK(Data)' /\ ProcType' /\ used' \in UsedType
  /\ AnyUserInv' <=>
       DirSafe' /\ ProcType' /\ used' \in UsedType /\ PeersHaveDaemon' /\ ViewMatches'
BY DEF TypeOK, ProcType, UsedType, Status, CliType, CliPlace, TuiType, TuiPlace, TuiView,
       AnyUserInv, DirSafe, Data

\* A command is orderly when nothing else is under way and its signals arrive.
LEMMA CommandedIs ==
  ASSUME used \in UsedType, NEW granted \in BOOLEAN, Commanded(granted)
  PROVE  used' \in UsedType /\ (Orderly' <=> Orderly /\ Settled /\ granted)
<1> DEFINE b == used.orderly /\ Settled /\ granted
<1>1. b \in BOOLEAN
  OBVIOUS
<1>2. used' = [used EXCEPT !.command = @ + 1, !.orderly = b]
  BY DEF Commanded
<1> HIDE DEF b
<1>3. used.command + 1 \in Nat /\ DOMAIN used = {"crash", "command", "orderly"}
  BY DEF UsedType
<1>4. PICK n \in Nat : used' = [used EXCEPT !.command = n, !.orderly = b]
  BY <1>2, <1>3
<1>5. used' \in UsedType
  BY <1>1, <1>4 DEF UsedType
<1>6. used'.orderly = b
  BY <1>3, <1>4, Zenon
<1> QED
  BY <1>5, <1>6 DEF Orderly, b

\* What the interface shows, as far as it is said.
Screen == PeersHaveDaemon /\ ViewMatches

LEMMA GotoType ==
  ASSUME ProcType, NEW p \in Pid, NEW from, NEW to \in Status, Goto(p, from, to)
  PROVE  pc' \in [Pid -> Status] /\ pc[p] = from /\ pc'[p] = to
         /\ \A q \in Pid : q # p => pc'[q] = pc[q]
BY DEF ProcType, Goto

LEMMA EndedType == \A p : Ended(p) \in Over
BY DEF Ended, Over

\* The steps of daemons leave terminal and interface alone.
LEMMA DaemonTypes ==
  ASSUME ProcType, Screen, NEW p \in Pid,
         DaemonStep(p) \/ WritePeers(p) \/ PeersWritten(p) \/ Interrupt(p) \/ Crash(p)
  PROVE  ProcType' /\ Screen'
<1>1. cli' = cli /\ tui' = tui /\ parent' = parent
  BY DEF DaemonStep, LoadIdentity, FindNoIdentity, CreateIdentity, SaveIdentity, FailEarly, WritePid,
         PidWritten, EngineStarts, EngineFails, ClearPid, ClearPeers, Exit, WritePeers, PeersWritten, Interrupt,
         Crash
<1>2. key' \in [Pid -> Data \cup {None}]
  BY DEF ProcType, Data, DaemonStep, LoadIdentity, FindNoIdentity, CreateIdentity, SaveIdentity, FailEarly, WritePid,
         PidWritten, EngineStarts, EngineFails, ClearPid, ClearPeers, Exit, WritePeers, PeersWritten,
         Interrupt, Crash
<1>3. pc' \in [Pid -> Status]
  <2>1. CASE LoadIdentity(p) \/ FindNoIdentity(p) \/ CreateIdentity(p) \/ SaveIdentity(p)
    BY <2>1, GotoType, StatusesAre
       DEF Status, LoadIdentity, FindNoIdentity, CreateIdentity, SaveIdentity
  <2>7. CASE WritePid(p) \/ PidWritten(p)
    BY <2>7, GotoType, StatusesAre DEF Status, WritePid, PidWritten
  <2>2. CASE EngineStarts(p) \/ EngineFails(p) \/ ClearPid(p) \/ ClearPeers(p) \/ Interrupt(p)
    BY <2>2, GotoType, StatusesAre
       DEF Status, EngineStarts, EngineFails, ClearPid, ClearPeers, Interrupt
  <2>3. CASE Exit(p)
    BY <2>3, GotoType, EndedType, StatusesAre DEF Exit
  <2>4. CASE FailEarly(p)
    BY <2>4, EndedType, StatusesAre DEF FailEarly, ProcType
  <2>5. CASE Crash(p)
    BY <2>5, KillIs DEF Crash, ProcType
  <2>6. CASE WritePeers(p) \/ PeersWritten(p)
    BY <2>6 DEF WritePeers, PeersWritten, ProcType
  <2> QED
    BY <2>1, <2>2, <2>3, <2>4, <2>5, <2>6, <2>7 DEF DaemonStep
<1> QED
  BY <1>1, <1>2, <1>3 DEF ProcType, Screen, PeersHaveDaemon, ViewMatches

LEMMA ReturnType ==
  ASSUME ProcType, Return
  PROVE  /\ pc' \in [Pid -> Status] /\ cli' \in CliType /\ cli'.at = "idle"
         /\ \A p \in Pid : pc'[p] = pc[p] \/ (pc[p] = "zombie" /\ pc'[p] = "dead")
<1>1. /\ cli' = Idle
      /\ pc' = [p \in Pid |-> IF pc[p] = "zombie" /\ parent[p] = "up" THEN "dead" ELSE pc[p]]
  BY DEF Return
<1> QED
  BY <1>1 DEF ProcType, Status, Idle, CliType, CliPlace

LEMMA SpawnType ==
  ASSUME ProcType, NEW p \in NextPid, NEW who \in {"up", "tui"}, Spawn(p, who)
  PROVE  /\ p \in Pid /\ pc[p] = "unborn" /\ pc'[p] = "identity"
         /\ \A q \in Pid : q # p => pc'[q] = pc[q]
         /\ pc' \in [Pid -> Status] /\ parent' \in [Pid -> {"up", "tui", "init", None}]
BY StatusesAre DEF ProcType, NextPid, Spawn, Status

LEMMA CliTypes ==
  ASSUME ProcType, Screen,
         \/ UpAlready \/ Up \/ UpClears \/ UpSpawn \/ UpSpawnFails \/ UpFails \/ UpSees \/ UpTimeout
         \/ CliIdentity \/ CliNoIdentity \/ CliCreatesIdentity \/ CliSaved \/ CliKilled
         \/ DownSignals \/ DownClears \/ DownStale \/ DownTidies \/ DownSweeps \/ DownSearches
  PROVE  ProcType' /\ Screen'
<1>1. tui' = tui /\ key' = key
  BY DEF UpAlready, Up, UpClears, UpSpawn, UpSpawnFails, UpFails, UpSees, UpTimeout, CliIdentity,
         CliNoIdentity, CliCreatesIdentity, CliSaved, CliKilled, DownSignals, DownClears, DownStale,
         DownTidies, DownSweeps, DownSearches, Return
<1>2. Screen'
  BY <1>1 DEF Screen, PeersHaveDaemon, ViewMatches
<1>3. Idle \in CliType
  BY DEF Idle, CliType, CliPlace
<1>4. CASE UpAlready \/ Up \/ DownStale
  <2>1. cli' = cli \/ \E a \in CliPlace : cli' = [at |-> a, pid |-> None]
    BY <1>4 DEF UpAlready, Up, DownStale, CliPlace
  <2>2. cli' \in CliType
    BY <2>1 DEF ProcType, CliType
  <2>3. pc' = pc /\ parent' = parent
    BY <1>4 DEF UpAlready, Up, DownStale
  <2> QED
    BY <1>1, <1>2, <2>2, <2>3 DEF ProcType
<1>5. CASE UpSpawn
  <2>1. PICK p \in NextPid : Spawn(p, "up") /\ cli' = [at |-> "wait", pid |-> p]
    BY <1>5 DEF UpSpawn
  <2> QED
    BY <1>1, <1>2, <2>1, SpawnType DEF ProcType, CliType, CliPlace
<1>6. CASE UpFails \/ CliIdentity \/ CliSaved \/ CliKilled
  <2>1. Return /\ parent' = parent
    BY <1>6 DEF UpFails, CliIdentity, CliSaved, CliKilled
  <2> QED
    BY <1>1, <1>2, <2>1, ReturnType DEF ProcType
<1>7. CASE UpClears \/ UpSees \/ CliNoIdentity \/ CliCreatesIdentity \/ DownTidies
  <2>1. cli' \in CliType
    BY <1>7 DEF UpClears, UpSees, CliNoIdentity, CliCreatesIdentity, DownTidies, ProcType, CliType,
       CliPlace
  <2>2. pc' = pc /\ parent' = parent
    BY <1>7 DEF UpClears, UpSees, CliNoIdentity, CliCreatesIdentity, DownTidies
  <2> QED
    BY <1>1, <1>2, <2>1, <2>2 DEF ProcType
<1>8. CASE UpTimeout
  BY <1>1, <1>2, <1>3, <1>8 DEF UpTimeout, ProcType, Status
<1>10. CASE DownSignals
  <2>1. {PidFile} \in SUBSET Pid /\ Kill({PidFile})
    BY <1>10 DEF DownSignals, AlreadyUp
  <2> QED
    BY <1>1, <1>2, <1>10, <2>1, KillIs DEF DownSignals, ProcType, CliType, CliPlace
<1>11. CASE UpSpawnFails \/ DownClears
  BY <1>1, <1>2, <1>3, <1>11 DEF UpSpawnFails, DownClears, ProcType
<1>12. CASE DownSweeps \/ DownSearches
  <2>1. Orphans \in SUBSET Pid /\ Kill(Orphans) /\ parent' = parent
    BY <1>12 DEF DownSweeps, DownSearches, Orphans
  <2>2. cli' \in CliType
    BY <1>3, <1>12 DEF DownSweeps, DownSearches, ProcType, CliType, CliPlace
  <2> QED
    BY <1>1, <1>2, <2>1, <2>2, KillIs DEF ProcType
<1> QED
  BY <1>4, <1>5, <1>6, <1>7, <1>8, <1>10, <1>11, <1>12

LEMMA StopSignalsIs ==
  ASSUME ProcType, NEW then \in {"stop", "quit"}, StopSignals(then)
  PROVE  /\ pc' \in [Pid -> Status]
         /\ tui' \in TuiType /\ tui'.view = "Stopping" /\ tui'.at = then
         /\ \E P \in SUBSET Pid, granted \in BOOLEAN :
              /\ Kill(P) /\ Commanded(granted)
              /\ granted /\ AlreadyUp => PidFile \in P
         /\ UNCHANGED <<disk, inode>> \/ Removed({"pid", "peers"})
<1> DEFINE named == {PidFile} \cap Pid
           child == {tui.child} \cap Pid
           fails == \E p \in named : ~Exists(p) \/ Refused(p)
<1>1. \/ ~fails /\ Kill(named \cup child) /\ UNCHANGED <<disk, inode>> /\ Commanded(TRUE)
      \/ /\ fails /\ Kill(child \cup IF AlreadyUp THEN named ELSE Orphans)
         /\ Removed({"pid", "peers"}) /\ Commanded(TRUE)
      \/ fails /\ Kill(child) /\ UNCHANGED <<disk, inode>> /\ Commanded(~AlreadyUp)
  BY DEF StopSignals
<1>2. tui' = [tui EXCEPT !.view = "Stopping", !.at = then, !.child = None]
  BY DEF StopSignals
<1>3. tui' \in TuiType /\ tui'.view = "Stopping" /\ tui'.at = then
  BY <1>2 DEF ProcType, TuiType, TuiPlace, TuiView
<1>4. /\ named \in SUBSET Pid /\ child \in SUBSET Pid /\ Orphans \in SUBSET Pid
      /\ AlreadyUp => PidFile \in named
      /\ (~AlreadyUp) \in BOOLEAN
  BY DEF Orphans, AlreadyUp
<1> HIDE DEF named, child, fails
<1>5. \E P \in SUBSET Pid, granted \in BOOLEAN :
        Kill(P) /\ Commanded(granted) /\ (granted /\ AlreadyUp => PidFile \in P)
  <2>1. CASE Kill(named \cup child) /\ Commanded(TRUE)
    BY <1>4, <2>1
  <2>2. CASE Kill(child \cup IF AlreadyUp THEN named ELSE Orphans) /\ Commanded(TRUE)
    <3> DEFINE Q == child \cup IF AlreadyUp THEN named ELSE Orphans
    <3>1. Q \in SUBSET Pid /\ (AlreadyUp => PidFile \in Q)
      BY <1>4
    <3> QED
      BY <2>2, <3>1
  <2>3. CASE Kill(child) /\ Commanded(~AlreadyUp)
    BY <1>4, <2>3
  <2> QED
    BY <1>1, <2>1, <2>2, <2>3
<1>6. pc' \in [Pid -> Status]
  BY <1>5, KillIs DEF ProcType
<1> QED
  BY <1>1, <1>3, <1>5, <1>6

LEMMA TuiGoneIs ==
  ASSUME ProcType, TuiGone
  PROVE  /\ pc' \in [Pid -> Status] /\ parent' \in [Pid -> {"up", "tui", "init", None}]
         /\ tui' \in TuiType /\ tui'.at = "off" /\ tui'.shown = None
         /\ \A p \in Pid : pc'[p] = pc[p] \/ (pc[p] = "zombie" /\ pc'[p] = "dead")
<1>1. /\ tui' = NoTui
      /\ parent' = [p \in Pid |-> IF parent[p] = "tui" THEN "init" ELSE parent[p]]
      /\ pc' = [p \in Pid |-> IF pc[p] = "zombie" /\ parent[p] = "tui" THEN "dead" ELSE pc[p]]
  BY DEF TuiGone
<1> QED
  BY <1>1 DEF ProcType, Status, NoTui, TuiType, TuiPlace, TuiView

LEMMA TuiTypes ==
  ASSUME ProcType, Screen,
         \/ TuiOpens \/ PollExited \/ PollRunning \/ PollNothing \/ RefreshPeers
         \/ TuiStarts \/ TuiClears \/ TuiSpawns \/ TuiSpawnFails \/ TuiStops \/ TuiStopped
         \/ TuiQuitsRunning \/ TuiLeft \/ TuiQuits
  PROVE  ProcType' /\ Screen'
<1>k. key' = key
  BY DEF TuiOpens, PollExited, PollRunning, PollNothing, RefreshPeers, TuiStarts, TuiClears,
         TuiSpawns, TuiSpawnFails, TuiStops, TuiStopped, TuiQuitsRunning, TuiLeft, TuiQuits
<1>c. CASE TuiOpens \/ PollExited \/ PollRunning \/ PollNothing \/ RefreshPeers \/ TuiStarts
           \/ TuiClears \/ TuiSpawns \/ TuiSpawnFails \/ TuiStops \/ TuiStopped \/ TuiQuitsRunning
  <2>1. cli' = cli
    BY <1>c DEF TuiOpens, PollExited, PollRunning, PollNothing, RefreshPeers, TuiStarts, TuiClears,
         TuiSpawns, TuiSpawnFails, TuiStops, TuiStopped, TuiQuitsRunning
  <2>2. CASE TuiOpens
    <3>1. tui' \in TuiType /\ tui'.shown = None /\ tui'.at = "loop"
      BY <2>2 DEF TuiOpens, NoTui, TuiType, TuiPlace, TuiView
    <3> QED
      BY <1>k, <2>1, <2>2, <3>1 DEF TuiOpens, ProcType, Screen, PeersHaveDaemon, ViewMatches
  <2>3. CASE PollExited
    <3>1. tui' \in TuiType /\ tui'.shown = None /\ tui'.at = "loop"
      BY <2>3 DEF PollExited, ProcType, TuiType, TuiPlace, TuiView
    <3> QED
      BY <1>k, <2>1, <2>3, <3>1 DEF PollExited, ProcType, Screen, PeersHaveDaemon, ViewMatches, Status
  <2>4. CASE PollRunning
    <3>1. tui' \in TuiType /\ tui'.view = "Running" /\ tui'.at = "peers"
      BY <2>4 DEF PollRunning, AlreadyUp, ProcType, TuiType, TuiPlace, TuiView
    <3> QED
      BY <1>k, <2>1, <2>4, <3>1 DEF PollRunning, ProcType, Screen, PeersHaveDaemon, ViewMatches
  <2>5. CASE PollNothing
    <3>1. tui' \in TuiType /\ tui'.shown = None /\ tui'.at = "loop"
      BY <2>5 DEF PollNothing, Polls, ProcType, TuiType, TuiPlace, TuiView
    <3> QED
      BY <1>k, <2>1, <2>5, <3>1 DEF PollNothing, ProcType, Screen, PeersHaveDaemon, ViewMatches
  <2>6. CASE RefreshPeers
    <3>1. tui' \in TuiType /\ tui'.view = tui.view /\ tui'.at = "loop"
      BY <2>6 DEF RefreshPeers, ProcType, TuiType, TuiPlace, TuiView
    <3>2. tui.view = "Running"
      BY <2>6 DEF RefreshPeers, Screen, ViewMatches
    <3> QED
      BY <1>k, <2>1, <2>6, <3>1, <3>2 DEF RefreshPeers, ProcType, Screen, PeersHaveDaemon, ViewMatches
  <2>7. CASE TuiStarts
    <3>1. tui' \in TuiType /\ tui'.view = "Starting" /\ tui'.at = "start" /\ tui'.shown = tui.shown
      BY <2>7 DEF TuiStarts, Legible, ProcType, TuiType, TuiPlace, TuiView
    <3>2. tui.shown = None
      BY <2>7 DEF TuiStarts, Screen, PeersHaveDaemon
    <3>3. {p \in {PidFile} \cap Pid : ~Refused(p)} \in SUBSET Pid
      OBVIOUS
    <3>4. pc' \in [Pid -> Status]
      BY <3>3, <2>7, KillIs DEF TuiStarts, ProcType
    <3> QED
      BY <1>k, <2>1, <2>7, <3>1, <3>2, <3>4
         DEF TuiStarts, ProcType, Screen, PeersHaveDaemon, ViewMatches
  <2>8. CASE TuiSpawns
    <3>1. PICK p \in NextPid :
            Spawn(p, "tui") /\ tui' = [tui EXCEPT !.at = "loop", !.child = p]
      BY <2>8 DEF TuiSpawns
    <3>2. p \in Pid /\ pc' \in [Pid -> Status] /\ parent' \in [Pid -> {"up", "tui", "init", None}]
      BY <3>1, SpawnType
    <3>3. tui' \in TuiType /\ tui'.at = "loop" /\ tui'.shown = tui.shown /\ tui'.view = tui.view
      BY <3>1, <3>2 DEF ProcType, TuiType, TuiPlace, TuiView
    <3> QED
      BY <1>k, <2>1, <3>2, <3>3 DEF ProcType, Screen, PeersHaveDaemon, ViewMatches
  <2>9. CASE TuiSpawnFails
    <3>1. tui' \in TuiType /\ tui'.at = "loop" /\ tui'.shown = tui.shown
      BY <2>9 DEF TuiSpawnFails, ProcType, TuiType, TuiPlace, TuiView
    <3>2. tui.shown = None
      BY <2>9 DEF TuiSpawnFails, Screen, PeersHaveDaemon, ViewMatches
    <3> QED
      BY <1>k, <2>1, <2>9, <3>1, <3>2
         DEF TuiSpawnFails, ProcType, Screen, PeersHaveDaemon, ViewMatches
  <2>12. CASE TuiClears
    <3>1. tui' \in TuiType /\ tui'.at = "spawn" /\ tui'.shown = tui.shown /\ tui'.view = tui.view
      BY <2>12 DEF TuiClears, ProcType, TuiType, TuiPlace, TuiView
    <3>2. tui.view = "Starting"
      BY <2>12 DEF TuiClears, Screen, ViewMatches
    <3> QED
      BY <1>k, <2>1, <2>12, <3>1, <3>2
         DEF TuiClears, ProcType, Screen, PeersHaveDaemon, ViewMatches
  <2>10. CASE TuiStops \/ TuiQuitsRunning
    <3>1. PICK then \in {"stop", "quit"} : StopSignals(then)
      BY <2>10 DEF TuiStops, TuiQuitsRunning
    <3>2. /\ pc' \in [Pid -> Status]
          /\ tui' \in TuiType /\ tui'.view = "Stopping" /\ tui'.at = then
      BY <3>1, StopSignalsIs
    <3>3. parent' = parent
      BY <2>10 DEF TuiStops, TuiQuitsRunning
    <3> QED
      BY <1>k, <2>1, <3>2, <3>3 DEF ProcType, Screen, PeersHaveDaemon, ViewMatches
  <2>11. CASE TuiStopped
    <3>1. tui' \in TuiType /\ tui'.at = "loop" /\ tui'.shown = None
      BY <2>11 DEF TuiStopped, ProcType, TuiType, TuiPlace, TuiView
    <3> QED
      BY <1>k, <2>1, <2>11, <3>1 DEF TuiStopped, ProcType, Screen, PeersHaveDaemon, ViewMatches
  <2> QED
    BY <1>c, <2>2, <2>3, <2>4, <2>5, <2>6, <2>7, <2>8, <2>9, <2>10, <2>11, <2>12
<1>g. CASE TuiLeft \/ TuiQuits
  <2>1. TuiGone /\ cli' = cli
    BY <1>g DEF TuiLeft, TuiQuits
  <2> QED
    BY <1>k, <2>1, TuiGoneIs DEF ProcType, Screen, PeersHaveDaemon, ViewMatches
<1> QED
  BY <1>c, <1>g

\* What is used up, and who gives a command.
LEMMA UsedStep ==
  ASSUME ProcType, used \in UsedType, [Next]_vars
  PROVE  used' \in UsedType /\ (Orderly' => Orderly)
<1>u. CASE used' = used
  BY <1>u DEF Orderly
<1>k. CASE used' = [used EXCEPT !.crash = @ + 1] \/ used' = [used EXCEPT !.command = @ + 1]
  BY <1>k DEF UsedType, Orderly
<1>g. ASSUME \E granted \in BOOLEAN : Commanded(granted)
      PROVE  used' \in UsedType /\ (Orderly' => Orderly)
  BY <1>g, CommandedIs
<1>1. CASE UNCHANGED vars
  BY <1>u, <1>1 DEF vars
<1>2. CASE \E p \in Pid : DaemonStep(p) \/ WritePeers(p) \/ PeersWritten(p)
  <2>1. used' = used
    BY <1>2 DEF DaemonStep, LoadIdentity, FindNoIdentity, CreateIdentity, SaveIdentity, FailEarly,
       WritePid, PidWritten, EngineStarts, EngineFails, ClearPid, ClearPeers, Exit, WritePeers,
       PeersWritten
  <2> QED
    BY <1>u, <2>1
<1>3. CASE (\E p \in Pid : Interrupt(p) \/ Crash(p)) \/ CliKilled
  BY <1>3, <1>k DEF Interrupt, Crash, CliKilled
<1>4. CASE (\E w \in Writer : Fill(w)) \/ UpTimeout \/ TuiStep
  <2>1. used' = used
    BY <1>4 DEF Fill, UpTimeout, TuiStep, PollExited, PollRunning, PollNothing, RefreshPeers,
       TuiClears, TuiSpawns, TuiSpawnFails, TuiStopped, TuiLeft
  <2> QED
    BY <1>u, <2>1
<1>i. ASSUME CliIdentity \/ CliNoIdentity
      PROVE  used' \in UsedType /\ (Orderly' => Orderly)
  BY <1>i, <1>u, <1>g DEF CliIdentity, CliNoIdentity, LooksForIdentity
<1>5. CASE CliStep
  <2>1. CASE CliIdentity \/ CliNoIdentity
    BY <1>i, <2>1
  <2>2. CASE used' = used
    BY <1>u, <2>2
  <2> QED
    BY <1>5, <2>1, <2>2 DEF CliStep, UpClears, UpSpawn, UpSpawnFails, UpFails, UpSees,
       CliCreatesIdentity, CliSaved, DownClears, DownTidies, DownSweeps, DownSearches
<1>6. CASE UserStep
  <2>1. CASE CliIdentity \/ CliNoIdentity
    BY <1>i, <2>1
  <2>2. CASE UpAlready \/ Up \/ DownSignals \/ DownStale \/ TuiOpens
    BY <1>g, <2>2 DEF UpAlready, Up, DownSignals, DownStale, TuiOpens
  <2>3. CASE TuiStarts
    <3>1. (\A p \in {PidFile} \cap Pid : ~Refused(p)) \in BOOLEAN
      OBVIOUS
    <3> QED
      BY <1>g, <2>3, <3>1 DEF TuiStarts
  <2>4. CASE TuiStops \/ TuiQuitsRunning
    BY <1>g, <2>4, StopSignalsIs DEF TuiStops, TuiQuitsRunning
  <2>5. CASE TuiQuits
    BY <1>k, <2>5 DEF TuiQuits
  <2> QED
    BY <1>6, <2>1, <2>2, <2>3, <2>4, <2>5 DEF UserStep
<1> QED
  BY <1>1, <1>2, <1>3, <1>4, <1>5, <1>6 DEF Next

LEMMA InitAnyUser == Init => AnyUserInv
<1> SUFFICES ASSUME Init PROVE AnyUserInv
  OBVIOUS
<1> DEFINE place == CHOOSE g \in [Damaged -> Ino] : \A e, f \in Damaged : g[e] = g[f] => e = f
<1>1. place \in [Damaged -> Ino] /\ \A e, f \in Damaged : place[e] = place[f] => e = f
  BY Places
<1>2. PICK F \in SUBSET Damaged :
        /\ disk = [f \in File |-> IF f \in F THEN place[f] ELSE None]
        /\ inode = [i \in Ino |-> IF \E f \in F : place[f] = i THEN Torn ELSE Empty]
        /\ tmp = [f \in File |-> None]
        /\ writing = [w \in Writer |-> None]
  BY DEF Init, DirInit
<1> HIDE DEF place
<1>3. DirTypeOK(Data)
  BY <1>1, <1>2 DEF DirTypeOK
<1>4. InodesApart
  BY <1>1, <1>2 DEF InodesApart
<1>5. ProcType
  BY DEF Init, ProcType, Status, Idle, NoTui, CliType, CliPlace, TuiType, TuiPlace, TuiView
<1>6. Screen
  BY DEF Init, Screen, PeersHaveDaemon, ViewMatches, NoTui
<1>7. used \in UsedType
  BY DEF Init, UsedType
<1> QED
  BY <1>3, <1>4, <1>5, <1>6, <1>7, TypesAre DEF DirSafe, Screen

LEMMA StepAnyUser ==
  ASSUME AnyUserInv, [Next]_vars
  PROVE  AnyUserInv'
<1>1. DirSafe /\ ProcType /\ Screen /\ TypeOK /\ used \in UsedType
  BY TypesAre DEF Screen, DirSafe
<1>2. DirSafe'
  BY <1>1, CallDir, DirStepSafe
<1>3. ProcType' /\ Screen'
  <2>1. CASE UNCHANGED vars
    BY <1>1, <2>1 DEF vars, ProcType, Screen, PeersHaveDaemon, ViewMatches
  <2>2. CASE \E w \in Writer : Fill(w)
    BY <1>1, <2>2 DEF Fill, ProcType, Screen, PeersHaveDaemon, ViewMatches
  <2>3. CASE \E p \in Pid : DaemonStep(p) \/ WritePeers(p) \/ PeersWritten(p) \/ Interrupt(p) \/ Crash(p)
    BY <1>1, <2>3, DaemonTypes
  <2>4. CASE CliStep \/ UpTimeout \/ CliKilled
    BY <1>1, <2>4, CliTypes DEF CliStep
  <2>5. CASE TuiStep
    BY <1>1, <2>5, TuiTypes DEF TuiStep
  <2>6. CASE UserStep
    BY <1>1, <2>6, CliTypes, TuiTypes DEF UserStep
  <2> QED
    BY <2>1, <2>2, <2>3, <2>4, <2>5, <2>6 DEF Next
<1>4. used' \in UsedType
  BY <1>1, UsedStep
<1> QED
  BY <1>2, <1>3, <1>4, TypesAre DEF Screen

-----------------------------------------------------------------------------
(* As long as all is in order: processes that end *)

InOrder == KeptSafe /\ WritersMatch /\ OneActive /\ OneAtATime /\ IdentityMatches
AllInv == AnyUserInv /\ InOrder

LEMMA InvIs ==
  /\ DaemonInv <=> AnyUserInv /\ (Orderly => InOrder)
  /\ DaemonInv' <=> AnyUserInv' /\ (Orderly' => InOrder')
  /\ AllInv => DirSafe /\ ProcType /\ Screen /\ KeptSafe /\ InOrder /\ used \in UsedType
BY TypesAre DEF DaemonInv, AllInv, InOrder, KeptSafe, Screen

\* Where a daemon is that does no more harm.
Gone == {"zombie", "dead", "clearing", "exiting"}

LEMMA GoneIs == /\ Gone \cap Active = {} /\ Over \subseteq Gone /\ "unborn" \notin Gone \cup Active
                /\ Booting \subseteq Active /\ Named \subseteq Active /\ Engine \subseteq Named
                /\ {"creating", "saving"} \subseteq Booting
                /\ {"pid", "writing_pid"} \subseteq Booting
BY StatusesAre DEF Gone, Over

\* When daemons do no more than end, and files that may be removed are, all is
\* as well as before.
LEMMA Fading ==
  ASSUME AllInv, NEW F \in SUBSET {"pid", "peers"}, NEW W,
         Removes(F), Stops(W), UNCHANGED <<tmp, key>>,
         \A p \in Pid : \/ pc'[p] = pc[p]
                        \/ pc'[p] \in Gone /\ (pc[p] \in {"saving", "writing_pid"} => Main(p) \in W),
         "pid" \in F => \A p \in Pid : pc'[p] \notin Named,
         cli'.at \in {"creating", "saving"} => cli'.at = cli.at,
         cli.at = "saving" => cli'.at = "saving" \/ Cli \in W
  PROVE  /\ KeptSafe' /\ WritersMatch' /\ OneActive' /\ IdentityMatches'
         /\ PidFile' = IF "pid" \in F THEN None ELSE PidFile
<1>1. DirSafe /\ KeptSafe /\ WritersMatch /\ OneActive /\ IdentityMatches
  BY InvIs DEF InOrder
<1>2. F \in SUBSET File /\ "identity" \in File /\ "pid" \in File /\ "identity" \notin F
  BY FilesAre
<1>3. KeptSafe'
  BY <1>1, <1>2, LossKept
<1>4. /\ writing' = [w \in Writer |-> IF w \in W THEN None ELSE writing[w]]
      /\ \A f \in File : Content(f)' = IF f \in F THEN None ELSE Content(f)
  <2>1. tmp' = tmp
    OBVIOUS
  <2>2. DirSafe /\ F \in SUBSET File
    BY <1>1, <1>2
  <2> QED
    BY <2>1, <2>2, LossEffect
<1>5. Content("identity")' = Content("identity") /\ PidFile' = IF "pid" \in F THEN None ELSE PidFile
  BY <1>2, <1>4 DEF PidFile
<1>6. \A w \in Writer : writing'[w] # None => writing'[w] = writing[w] /\ w \notin W
  BY <1>4
<1>7. WritersMatch'
  <2>1. ASSUME NEW p \in Pid, writing'[Main(p)] # None
        PROVE  /\ writing'[Main(p)].data = p
               /\ \/ pc'[p] = "saving" /\ writing'[Main(p)].file = "identity"
                  \/ pc'[p] = "writing_pid" /\ writing'[Main(p)].file = "pid"
    <3>1. writing'[Main(p)] = writing[Main(p)] /\ Main(p) \notin W
      BY <1>6, <2>1, ThreadsAre
    <3>2. pc[p] \in {"saving", "writing_pid"}
      BY <1>1, <2>1, <3>1 DEF WritersMatch
    <3>3. pc'[p] = pc[p]
      BY <3>1, <3>2
    <3> QED
      BY <1>1, <2>1, <3>1, <3>3 DEF WritersMatch
  <2>2. \A p \in Pid : writing'[Snap(p)] # None => writing'[Snap(p)].file = "peers"
    BY <1>1, <1>6, ThreadsAre DEF WritersMatch
  <2>3. ASSUME writing'[Cli] # None
        PROVE  cli'.at = "saving" /\ writing'[Cli].file = "identity" /\ writing'[Cli].data = Cli
    BY <1>1, <1>6, <2>3, ThreadsAre DEF WritersMatch
  <2> QED
    BY <2>1, <2>2, <2>3 DEF WritersMatch
<1>8. \A p \in Pid : pc'[p] \in Active => pc'[p] = pc[p]
  BY GoneIs
<1>9. OneActive'
  <2>1. ASSUME NEW p \in Pid, NEW q \in Pid, pc'[p] \in Active, pc'[q] \in Active
        PROVE  p = q
    BY <1>1, <1>8, <2>1 DEF OneActive
  <2>2. ASSUME NEW p \in Pid, pc'[p] \in Named
        PROVE  PidFile' = p
    <3>1. pc'[p] = pc[p] /\ PidFile = p
      BY <1>1, <1>8, <2>2, GoneIs DEF OneActive
    <3> QED
      BY <1>5, <2>2, <3>1
  <2> QED
    BY <2>1, <2>2 DEF OneActive
<1>10. IdentityMatches'
  <2>1. ASSUME NEW p \in Pid, pc'[p] \in {"creating", "saving"}
        PROVE  Content("identity")' = None /\ (pc'[p] = "saving" => key'[p] = p)
    BY <1>1, <1>5, <1>8, <2>1, GoneIs DEF IdentityMatches
  <2>2. ASSUME NEW p \in Pid, pc'[p] \in {"pid", "writing_pid"} \cup Engine
        PROVE  Content("identity")' = key'[p] /\ key'[p] # None
    <3>1. pc'[p] = pc[p]
      BY <1>8, <2>2, GoneIs
    <3> QED
      BY <1>1, <1>5, <2>2, <3>1 DEF IdentityMatches
  <2>3. cli'.at \in {"creating", "saving"} => Content("identity")' = None
    BY <1>1, <1>5 DEF IdentityMatches
  <2> QED
    BY <2>1, <2>2, <2>3 DEF IdentityMatches
<1> QED
  BY <1>3, <1>5, <1>7, <1>9, <1>10

\* Nor does it come into the way of a command or the interface, as long as they
\* go on to where nothing is required.
LEMMA FadingInTurn ==
  ASSUME OneAtATime,
         \A p \in Pid : pc'[p] = pc[p] \/ pc'[p] \in Gone,
         PidFile' = PidFile \/ PidFile' = None,
         cli' = cli \/ cli'.at = "idle",
         tui'.at = tui.at \/ tui'.at \in {"off", "loop", "peers"}
  PROVE  OneAtATime'
<1>1. \A p \in Pid : /\ pc'[p] \in Active => pc'[p] = pc[p]
                     /\ pc'[p] \in Booting => pc'[p] = pc[p]
                     /\ pc[p] # "unborn" => pc'[p] # "unborn"
  BY GoneIs
<1>2. (Quiet => Quiet') /\ (NoneBoots => NoneBoots')
  BY <1>1 DEF Quiet, NoneBoots
<1>3. CASE cli'.at = "idle"
  BY <1>2, <1>3 DEF OneAtATime
<1>4. CASE cli' = cli
  <2>1. /\ cli'.at # "idle" => tui'.at \in {"off", "loop", "peers"}
        /\ cli'.at \in {"clear", "spawn", "settle", "tidy", "sweep", "search"}
             \/ tui'.at \in {"start", "spawn", "stop", "quit"} => Quiet'
        /\ cli'.at \in {"spawn", "sweep", "search"} => PidFile' = None
        /\ cli'.at \in {"report", "creating", "saving"} => NoneBoots'
    BY <1>2, <1>4 DEF OneAtATime
  <2>2. ASSUME cli'.at = "wait"
        PROVE  /\ cli'.pid \in Pid /\ pc'[cli'.pid] # "unborn"
               /\ \A p \in Pid : pc'[p] \in Booting => p = cli'.pid
               /\ PidFile' = None \/ (PidFile' = cli'.pid /\ pc'[cli'.pid] \notin Booting)
    BY <1>1, <1>4, <2>2 DEF OneAtATime
  <2> QED
    BY <2>1, <2>2 DEF OneAtATime
<1> QED
  BY <1>3, <1>4

\* Nothing is under way when an orderly command is given, and its signals
\* arrive.
LEMMA OrderlyIs ==
  ASSUME AllInv, NEW granted \in BOOLEAN, Commanded(granted), Orderly'
  PROVE  cli.at = "idle" /\ tui.at \in {"off", "loop", "peers"} /\ NoneBoots /\ granted
<1>1. used \in UsedType
  BY InvIs
<1> QED
  BY <1>1, CommandedIs DEF Settled, NoneBoots

\* A daemon that has a PID file is found by it.
LEMMA NamedIsUp ==
  ASSUME OneActive, NEW p \in Pid, pc[p] \in Named
  PROVE  PidFile = p /\ AlreadyUp /\ Legible /\ Runs(p)
BY StatusesAre DEF OneActive, AlreadyUp, Legible, Exists, Runs

LEMMA NoneNamed ==
  ASSUME OneActive, ~AlreadyUp
  PROVE  \A p \in Pid : pc[p] \notin Named
BY NamedIsUp

LEMMA QuietIs == Quiet <=> NoneBoots /\ \A p \in Pid : pc[p] \notin Named
BY DEF Quiet, NoneBoots, Active

\* Who kills the process that the PID file names, when none is starting, leaves
\* none.
LEMMA KillQuiets ==
  ASSUME AllInv, NoneBoots, NEW P \in SUBSET Pid, Kill(P), AlreadyUp => PidFile \in P
  PROVE  Quiet'
<1>0. OneActive /\ pc \in [Pid -> Status]
  BY InvIs DEF InOrder, ProcType
<1>1. \A p \in Pid : pc'[p] = pc[p] \/ pc'[p] \in Over
  BY <1>0, KillIs
<1>2. ASSUME NEW p \in Pid, pc'[p] \in Active
      PROVE  FALSE
  <2>1. pc'[p] = pc[p]
    BY <1>1, <1>2, GoneIs
  <2>2. pc[p] \in Named
    BY <1>2, <2>1 DEF NoneBoots, Active
  <2>3. p \in P /\ Runs(p)
    BY <1>0, <2>2, NamedIsUp
  <2>4. pc'[p] \in Over
    BY <1>0, <2>3, KillIs
  <2> QED
    BY <1>2, <2>4, GoneIs
<1> QED
  BY <1>2 DEF Quiet

\* A kill is a way to fade.
LEMMA KillFades ==
  ASSUME AllInv, NEW P \in SUBSET Pid, Kill(P)
  PROVE  /\ Stops(Team(P))
         /\ Cli \notin Team(P)
         /\ \A p \in Pid : pc'[p] = pc[p] \/ (pc'[p] \in Gone /\ Main(p) \in Team(P))
<1>1. pc \in [Pid -> Status]
  BY InvIs DEF ProcType
<1> QED
  BY <1>1, KillIs, TeamIs, GoneIs DEF Stops

\* Both together.
LEMMA FadingOut ==
  ASSUME AllInv, NEW F \in SUBSET {"pid", "peers"}, NEW W,
         Removes(F), Stops(W), UNCHANGED <<tmp, key>>,
         \A p \in Pid : \/ pc'[p] = pc[p]
                        \/ pc'[p] \in Gone /\ (pc[p] \in {"saving", "writing_pid"} => Main(p) \in W),
         "pid" \in F => \A p \in Pid : pc'[p] \notin Named,
         cli' = cli \/ (cli'.at = "idle" /\ (cli.at = "saving" => Cli \in W)),
         tui'.at = tui.at \/ tui'.at \in {"off", "loop", "peers"}
  PROVE  InOrder'
<1>1. /\ cli'.at \in {"creating", "saving"} => cli'.at = cli.at
      /\ cli.at = "saving" => cli'.at = "saving" \/ Cli \in W
  OBVIOUS
<1>2. /\ KeptSafe' /\ WritersMatch' /\ OneActive' /\ IdentityMatches'
      /\ PidFile' = IF "pid" \in F THEN None ELSE PidFile
  BY <1>1, Fading
<1>3. OneAtATime
  BY InvIs DEF InOrder
<1>4. PidFile' = PidFile \/ PidFile' = None
  BY <1>2
<1>5. \A p \in Pid : pc'[p] = pc[p] \/ pc'[p] \in Gone
  OBVIOUS
<1>6. OneAtATime'
  BY <1>3, <1>4, <1>5, FadingInTurn
<1> QED
  BY <1>2, <1>6 DEF InOrder

LEMMA TeamOfOne == \A p : Team({p}) = Threads(p)
BY DEF Team

\* Daemons that end.
LEMMA EndingStep ==
  ASSUME AllInv, NEW p \in Pid,
         FailEarly(p) \/ ClearPid(p) \/ ClearPeers(p) \/ Exit(p) \/ Crash(p)
  PROVE  InOrder'
<1>0. /\ DirSafe /\ ProcType /\ OneActive /\ OneAtATime
      /\ Main(p) \in Threads(p) /\ Cli \notin Threads(p)
      /\ {"pid"} \in SUBSET {"pid", "peers"} /\ {"peers"} \in SUBSET {"pid", "peers"}
      /\ {} \in SUBSET {"pid", "peers"}
  BY InvIs, ThreadsAre DEF InOrder
<1>1. cli' = cli /\ tui' = tui /\ key' = key /\ tmp' = tmp
  BY DEF FailEarly, ClearPid, ClearPeers, Exit, Crash, dirVars
<1>2. CASE FailEarly(p)
  <2>1. Removes({}) /\ Stops(Threads(p))
    BY <1>2 DEF FailEarly, Removes, Stops
  <2>2. \A q \in Pid : pc'[q] = pc[q] \/ (pc'[q] \in Gone /\ q = p)
    BY <1>0, <1>2, EndedType, GoneIs DEF FailEarly, ProcType
  <2>3. \A q \in Pid : \/ pc'[q] = pc[q]
                       \/ pc'[q] \in Gone /\ (pc[q] \in {"saving", "writing_pid"} => Main(q) \in Threads(p))
    BY <1>0, <2>2
  <2> QED
    BY <1>0, <1>1, <2>1, <2>3, FadingOut
<1>3. CASE ClearPid(p)
  <2>1. Removes({"pid"}) /\ Stops({})
    BY <1>3 DEF ClearPid, Removes, Stops
  <2>2. pc[p] = "stopping" /\ pc'[p] = "clearing" /\ \A q \in Pid : q # p => pc'[q] = pc[q]
    BY <1>0, <1>3 DEF ClearPid, Goto, ProcType
  <2>3. pc[p] \in Active /\ "clearing" \in Gone
    BY <2>2, StatusesAre DEF Gone
  <2>5. \A q \in Pid : pc'[q] \notin Named
    BY <1>0, <2>2, <2>3, StatusesAre, GoneIs DEF OneActive
  <2>6. \A q \in Pid : \/ pc'[q] = pc[q]
                       \/ pc'[q] \in Gone /\ (pc[q] \in {"saving", "writing_pid"} => Main(q) \in {})
    BY <2>2, <2>3
  <2> QED
    BY <1>0, <1>1, <2>1, <2>5, <2>6, FadingOut
<1>4. CASE ClearPeers(p)
  <2>1. Removes({"peers"}) /\ Stops({})
    BY <1>4 DEF ClearPeers, Removes, Stops
  <2>2. \A q \in Pid : \/ pc'[q] = pc[q]
                       \/ pc'[q] \in Gone /\ (pc[q] \in {"saving", "writing_pid"} => Main(q) \in {})
    BY <1>0, <1>4 DEF ClearPeers, Goto, ProcType, Gone
  <2> QED
    BY <1>0, <1>1, <2>1, <2>2, FadingOut
<1>5. CASE Exit(p)
  <2>1. Removes({}) /\ Stops({})
    BY <1>5 DEF Exit, Removes, Stops, dirVars
  <2>2. \A q \in Pid : \/ pc'[q] = pc[q]
                       \/ pc'[q] \in Gone /\ (pc[q] \in {"saving", "writing_pid"} => Main(q) \in {})
    BY <1>0, <1>5, EndedType, GoneIs DEF Exit, Goto, ProcType
  <2> QED
    BY <1>0, <1>1, <2>1, <2>2, FadingOut
<1>6. CASE Crash(p)
  <2>1. Removes({}) /\ Kill({p}) /\ {p} \in SUBSET Pid
    BY <1>6 DEF Crash, Removes
  <2>2. /\ Stops(Team({p}))
        /\ \A q \in Pid : pc'[q] = pc[q] \/ (pc'[q] \in Gone /\ Main(q) \in Team({p}))
    BY <2>1, KillFades
  <2> QED
    BY <1>0, <1>1, <2>1, <2>2, FadingOut
<1> QED
  BY <1>2, <1>3, <1>4, <1>5, <1>6

\* A daemon goes on from one place where there is one at a time to another.
LEMMA GoingOn ==
  ASSUME OneActive, OneAtATime, NEW p \in Pid, pc[p] \in Active, pc'[p] \in Active,
         pc'[p] \in Booting => pc[p] \in Booting,
         \A q \in Pid : q # p => pc'[q] = pc[q],
         cli' = cli, tui' = tui,
         \/ PidFile' = PidFile
         \/ PidFile' = p /\ pc[p] \in Booting /\ pc'[p] \notin Booting,
         pc'[p] \in Named => PidFile' = p
  PROVE  /\ OneActive' /\ OneAtATime'
         /\ \A q \in Pid : q # p => pc[q] \notin Active /\ pc'[q] \notin Active
<1>1. \A q \in Pid : q # p => pc[q] \notin Active /\ pc'[q] \notin Active
  BY DEF OneActive
<1>2. OneActive'
  BY <1>1, GoneIs DEF OneActive
<1>3. \A q \in Pid : pc'[q] \in Booting => pc[q] \in Booting
  BY <1>1, GoneIs
<1>4. ~Quiet /\ (NoneBoots => NoneBoots')
  BY <1>3 DEF Quiet, NoneBoots
<1>5. ASSUME cli'.at = "wait"
      PROVE  /\ cli'.pid \in Pid /\ pc'[cli'.pid] # "unborn"
             /\ \A q \in Pid : pc'[q] \in Booting => q = cli'.pid
             /\ PidFile' = None \/ (PidFile' = cli'.pid /\ pc'[cli'.pid] \notin Booting)
  <2>1. /\ cli.pid \in Pid /\ pc[cli.pid] # "unborn"
        /\ \A q \in Pid : pc[q] \in Booting => q = cli.pid
        /\ PidFile = None \/ (PidFile = cli.pid /\ pc[cli.pid] \notin Booting)
    BY <1>5 DEF OneAtATime
  <2>2. pc'[cli.pid] # "unborn"
    BY <2>1, GoneIs
  <2>3. PidFile' = None \/ (PidFile' = cli.pid /\ pc'[cli.pid] \notin Booting)
    BY <1>3, <2>1
  <2> QED
    BY <1>3, <2>1, <2>2, <2>3
<1>6. OneAtATime'
  BY <1>4, <1>5 DEF OneAtATime
<1> QED
  BY <1>1, <1>2, <1>6

\* Besides a daemon that saves nothing only the command can be saving.
LEMMA NobodyWrites ==
  ASSUME WritersMatch, NEW v \in Writer, writing[v] # None,
         \A q \in Pid : pc[q] \notin {"saving", "writing_pid"}
  PROVE  writing[v].file = "peers" \/ (v = Cli /\ cli.at = "saving")
<1>1. ASSUME NEW q \in Pid
      PROVE  v # Main(q) /\ (v = Snap(q) => writing[v].file = "peers")
  BY <1>1 DEF WritersMatch
<1> QED
  BY <1>1, ThreadsAre DEF WritersMatch

\* What the files look like is as before.
LEMMA FilesOnly ==
  ASSUME AllInv, UNCHANGED <<pc, key, cli>>, UNCHANGED tui, KeptSafe', WritersMatch',
         \A f \in Kept : Content(f)' = Content(f)
  PROVE  InOrder'
<1>0. OneActive /\ OneAtATime /\ IdentityMatches
  BY InvIs DEF InOrder
<1>1. PidFile' = PidFile /\ Content("identity")' = Content("identity")
  BY FilesAre DEF PidFile
<1>2. OneActive'
  BY <1>0, <1>1 DEF OneActive
<1>3. OneAtATime'
  BY <1>0, <1>1 DEF OneAtATime, Quiet, NoneBoots
<1>4. IdentityMatches'
  BY <1>0, <1>1 DEF IdentityMatches
<1> QED
  BY <1>2, <1>3, <1>4 DEF InOrder

-----------------------------------------------------------------------------
(* As long as all is in order: a daemon that starts, runs and lists its peers *)

\* A daemon that goes on and writes nothing.
LEMMA DaemonReads ==
  ASSUME AllInv, NEW p \in Pid,
         LoadIdentity(p) \/ FindNoIdentity(p) \/ EngineStarts(p) \/ EngineFails(p)
  PROVE  InOrder'
<1>0. /\ DirSafe /\ ProcType /\ KeptSafe /\ WritersMatch /\ OneActive /\ OneAtATime /\ IdentityMatches
  BY InvIs DEF InOrder
<1>1. /\ cli' = cli /\ tui' = tui /\ UNCHANGED dirVars
      /\ \A q \in Pid : q # p => pc'[q] = pc[q] /\ key'[q] = key[q]
  BY <1>0 DEF LoadIdentity, FindNoIdentity, EngineStarts, EngineFails, Goto, ProcType
<1>2. \/ pc[p] = "identity" /\ pc'[p] = "pid" /\ key'[p] = Content("identity")
         /\ Content("identity") \in Data
      \/ pc[p] = "identity" /\ pc'[p] = "creating" /\ Content("identity") = None
      \/ pc[p] = "starting" /\ pc'[p] \in {"serving", "stopping"} /\ key'[p] = key[p]
  BY <1>0 DEF LoadIdentity, FindNoIdentity, EngineStarts, EngineFails, Goto, ProcType, Data
<1>3. PidFile' = PidFile /\ Content("identity")' = Content("identity")
  BY <1>1 DEF dirVars, PidFile, Content
<1>4. KeptSafe'
  BY <1>0, <1>1 DEF dirVars, KeptSafe, SoleWriter, KeptWell, WritesAlone
<1>5. pc[p] = "starting" => PidFile = p
  BY <1>0, StatusesAre DEF OneActive
<1>6. /\ OneActive' /\ OneAtATime'
      /\ \A q \in Pid : q # p => pc[q] \notin Active /\ pc'[q] \notin Active
  <2>1. /\ pc[p] \in Active /\ pc'[p] \in Active
        /\ pc'[p] \in Booting => pc[p] \in Booting
        /\ pc'[p] \in Named => PidFile' = p
    BY <1>2, <1>3, <1>5, StatusesAre
  <2> QED
    BY <2>1, <1>0, <1>1, <1>3, GoingOn
<1>7. WritersMatch'
  <2>1. writing' = writing
    BY <1>1 DEF dirVars
  <2>2. writing[Main(p)] = None
    BY <1>0, <1>2 DEF WritersMatch
  <2> QED
    BY <1>0, <1>1, <2>1, <2>2 DEF WritersMatch
<1>8. IdentityMatches'
  <2>1. \A q \in Pid :
          pc'[q] \in {"creating", "saving", "pid", "writing_pid"} \cup Engine => q = p
    BY <1>6, StatusesAre
  <2>2. pc'[p] = "pid" => Content("identity")' = key'[p] /\ key'[p] # None
    BY <1>2, <1>3, Nothing
  <2>3. pc'[p] = "serving" => Content("identity")' = key'[p] /\ key'[p] # None
    BY <1>0, <1>2, <1>3 DEF IdentityMatches, Engine
  <2>4. pc'[p] = "creating" => Content("identity")' = None
    BY <1>2, <1>3
  <2>5. cli'.at \in {"creating", "saving"} => Content("identity")' = None
    BY <1>0, <1>1, <1>3 DEF IdentityMatches
  <2>6. pc'[p] \in {"pid", "creating", "serving", "stopping"}
    BY <1>2
  <2> QED
    BY <2>1, <2>2, <2>3, <2>4, <2>5, <2>6, StatusesAre DEF IdentityMatches
<1> QED
  BY <1>4, <1>6, <1>7, <1>8 DEF InOrder

LEMMA DaemonOpens ==
  ASSUME AllInv, NEW p \in Pid, CreateIdentity(p) \/ WritePid(p)
  PROVE  InOrder'
<1>0. /\ DirSafe /\ ProcType /\ KeptSafe /\ WritersMatch /\ OneActive /\ OneAtATime /\ IdentityMatches
      /\ Main(p) \in Writer /\ p \in Data /\ "identity" \in File /\ "pid" \in File
  BY InvIs, ThreadsAre, FilesAre DEF InOrder, Data
<1>1. PICK f \in {"identity", "pid"} :
        /\ OpenTmp(Main(p), f, p)
        /\ \/ /\ f = "identity" /\ pc[p] = "creating" /\ pc'[p] = "saving" /\ key'[p] = p
              /\ Content("identity") = None
           \/ f = "pid" /\ pc[p] = "pid" /\ pc'[p] = "writing_pid" /\ key'[p] = key[p]
  BY <1>0 DEF CreateIdentity, WritePid, Goto, ProcType, IdentityMatches
<1>2. /\ cli' = cli /\ tui' = tui
      /\ \A q \in Pid : q # p => pc'[q] = pc[q] /\ key'[q] = key[q]
  BY <1>0 DEF CreateIdentity, WritePid, Goto, ProcType
<1>3. f \in File /\ PidFile' = PidFile /\ Content("identity")' = Content("identity")
  BY <1>0, <1>1, OpenSafe DEF PidFile
<1>4. /\ OneActive' /\ OneAtATime'
      /\ \A q \in Pid : q # p => pc[q] \notin Active /\ pc'[q] \notin Active
  <2>1. /\ pc[p] \in Active /\ pc'[p] \in Active
        /\ pc'[p] \in Booting => pc[p] \in Booting
        /\ pc'[p] \notin Named
    BY <1>1, StatusesAre
  <2> QED
    BY <2>1, <1>0, <1>2, <1>3, GoingOn
<1>5. \A v \in Writer : writing[v] # None => writing[v].file = "peers"
  <2>1. \A q \in Pid : pc[q] \notin {"saving", "writing_pid"}
    BY <1>1, <1>4, StatusesAre
  <2>2. cli.at # "saving"
    BY <1>0, <1>1, StatusesAre DEF OneAtATime, NoneBoots
  <2> QED
    BY <1>0, <2>1, <2>2, NobodyWrites
<1>6. KeptSafe'
  <2>1. \A v \in Writer : writing[v] # None => writing[v].file # f
    BY <1>1, <1>5
  <2> QED
    BY <1>0, <1>1, <1>3, <2>1, OpenKept
<1>7. WritersMatch'
  <2>1. /\ writing'[Main(p)].file = f /\ writing'[Main(p)].data = p
        /\ \A v \in Writer : v # Main(p) => writing'[v] = writing[v]
    BY <1>0, <1>1 DEF OpenTmp, DirSafe, DirTypeOK
  <2>2. \A q \in Pid : writing'[Main(q)] # None => q = p
    BY <1>0, <1>4, <2>1, ThreadsAre, StatusesAre DEF WritersMatch
  <2>3. /\ \A q \in Pid : writing'[Snap(q)] = writing[Snap(q)]
        /\ writing'[Cli] = writing[Cli]
    BY <2>1, ThreadsAre
  <2> QED
    BY <1>0, <1>1, <1>2, <2>1, <2>2, <2>3 DEF WritersMatch
<1>8. IdentityMatches'
  <2>1. \A q \in Pid : pc'[q] \in {"creating", "saving", "pid", "writing_pid"} \cup Engine => q = p
    BY <1>4, StatusesAre
  <2> QED
    BY <1>0, <1>1, <1>2, <1>3, <2>1, StatusesAre DEF IdentityMatches
<1> QED
  BY <1>4, <1>6, <1>7, <1>8 DEF InOrder

LEMMA DaemonSaves ==
  ASSUME AllInv, NEW p \in Pid, SaveIdentity(p) \/ PidWritten(p)
  PROVE  InOrder'
<1>0. /\ DirSafe /\ ProcType /\ KeptSafe /\ WritersMatch /\ OneActive /\ OneAtATime /\ IdentityMatches
      /\ Main(p) \in Writer /\ p \in Data
  BY InvIs, ThreadsAre DEF InOrder, Data
<1>1. /\ RenameTmp(Main(p)) /\ cli' = cli /\ tui' = tui /\ key' = key
      /\ \A q \in Pid : q # p => pc'[q] = pc[q]
      /\ \/ pc[p] = "saving" /\ pc'[p] = "pid"
         \/ pc[p] = "writing_pid" /\ pc'[p] = "starting"
  BY <1>0 DEF SaveIdentity, PidWritten, Goto, ProcType
<1>2. /\ KeptSafe'
      /\ writing[Main(p)] # None /\ writing' = [writing EXCEPT ![Main(p)] = None]
      /\ \A f \in Kept :
           Content(f)' = IF f = writing[Main(p)].file THEN writing[Main(p)].data ELSE Content(f)
  BY <1>0, <1>1, RenameKept
<1>3. /\ writing[Main(p)].data = p
      /\ pc[p] = "saving" => writing[Main(p)].file = "identity"
      /\ pc[p] = "writing_pid" => writing[Main(p)].file = "pid"
  BY <1>0, <1>2 DEF WritersMatch
<1>4. /\ pc[p] = "saving" => Content("identity")' = p /\ PidFile' = PidFile
      /\ pc[p] = "writing_pid" => Content("identity")' = Content("identity") /\ PidFile' = p
  BY <1>2, <1>3, FilesAre DEF PidFile
<1>5. /\ OneActive' /\ OneAtATime'
      /\ \A q \in Pid : q # p => pc[q] \notin Active /\ pc'[q] \notin Active
  <2>1. /\ pc[p] \in Active /\ pc'[p] \in Active /\ pc[p] \in Booting
        /\ \/ PidFile' = PidFile
           \/ PidFile' = p /\ pc[p] \in Booting /\ pc'[p] \notin Booting
        /\ pc'[p] \in Named => PidFile' = p
    BY <1>1, <1>4, StatusesAre
  <2> QED
    BY <2>1, <1>0, <1>1, GoingOn
<1>6. WritersMatch'
  <2>1. /\ writing'[Main(p)] = None
        /\ \A v \in Writer : v # Main(p) => writing'[v] = writing[v]
    BY <1>0, <1>2 DEF DirSafe, DirTypeOK
  <2>2. \A q \in Pid : q # p => writing'[Main(q)] = writing[Main(q)] /\ pc'[q] = pc[q]
    BY <1>1, <2>1, ThreadsAre
  <2>3. /\ \A q \in Pid : writing'[Snap(q)] = writing[Snap(q)]
        /\ writing'[Cli] = writing[Cli]
    BY <2>1, ThreadsAre
  <2> QED
    BY <1>0, <1>1, <2>1, <2>2, <2>3 DEF WritersMatch
<1>7. IdentityMatches'
  <2>1. \A q \in Pid : pc'[q] \in {"creating", "saving", "pid", "writing_pid"} \cup Engine => q = p
    BY <1>5, StatusesAre
  <2>2. cli'.at \notin {"creating", "saving"}
    BY <1>0, <1>1, StatusesAre DEF OneAtATime, NoneBoots
  <2>3. Content("identity")' = key'[p] /\ key'[p] # None
    <3>1. CASE pc[p] = "saving"
      BY <1>0, <1>1, <1>4, <3>1, Nothing DEF IdentityMatches
    <3>2. CASE pc[p] = "writing_pid"
      BY <1>0, <1>1, <1>4, <3>2 DEF IdentityMatches
    <3> QED
      BY <1>1, <3>1, <3>2
  <2>4. pc'[p] \notin {"creating", "saving"}
    BY <1>1
  <2> QED
    BY <2>1, <2>2, <2>3, <2>4 DEF IdentityMatches
<1> QED
  BY <1>2, <1>5, <1>6, <1>7 DEF InOrder

LEMMA DaemonInterrupted ==
  ASSUME AllInv, NEW p \in Pid, Interrupt(p)
  PROVE  InOrder'
<1>0. /\ DirSafe /\ ProcType /\ KeptSafe /\ WritersMatch /\ OneActive /\ OneAtATime /\ IdentityMatches
      /\ {"peers"} \in SUBSET File /\ "pid" \in File /\ "identity" \in File
  BY InvIs, FilesAre DEF InOrder
<1>1. /\ cli' = cli /\ tui' = tui /\ key' = key /\ writing' = writing /\ tmp' = tmp
      /\ pc[p] = "serving" /\ pc'[p] = "stopping"
      /\ \A q \in Pid : q # p => pc'[q] = pc[q]
  BY <1>0 DEF Interrupt, Goto, ProcType
<1>2. Removes({"peers"}) /\ Stops({})
  BY <1>1 DEF Interrupt, Removes, Stops
<1>3. KeptSafe' /\ PidFile' = PidFile /\ Content("identity")' = Content("identity")
  BY <1>0, <1>1, <1>2, LossKept, LossEffect DEF PidFile
<1>4. PidFile = p
  BY <1>0, <1>1, StatusesAre DEF OneActive
<1>5. /\ OneActive' /\ OneAtATime'
      /\ \A q \in Pid : q # p => pc[q] \notin Active /\ pc'[q] \notin Active
  <2>1. /\ pc[p] \in Active /\ pc'[p] \in Active /\ pc'[p] \notin Booting
    BY <1>1, StatusesAre
  <2> QED
    BY <2>1, <1>0, <1>1, <1>3, <1>4, GoingOn
<1>6. WritersMatch'
  <2>1. writing[Main(p)] = None
    BY <1>0, <1>1 DEF WritersMatch
  <2> QED
    BY <1>0, <1>1, <2>1 DEF WritersMatch
<1>7. IdentityMatches'
  <2>1. \A q \in Pid : pc'[q] \notin {"creating", "saving", "pid", "writing_pid"} \cup Engine
    BY <1>1, <1>5, StatusesAre
  <2> QED
    BY <1>0, <1>1, <1>3, <2>1 DEF IdentityMatches
<1> QED
  BY <1>3, <1>5, <1>6, <1>7 DEF InOrder

LEMMA SnapshotStep ==
  ASSUME AllInv, NEW p \in Pid, WritePeers(p) \/ PeersWritten(p)
  PROVE  InOrder'
<1>0. /\ DirSafe /\ KeptSafe /\ WritersMatch
      /\ Snap(p) \in Writer /\ p \in Data /\ "peers" \in File /\ "peers" \notin Kept
      /\ Kept \subseteq File
  BY InvIs, ThreadsAre, FilesAre DEF InOrder, Data
<1>1. UNCHANGED <<pc, key, cli>> /\ UNCHANGED tui
  BY DEF WritePeers, PeersWritten
<1>2. CASE WritePeers(p)
  <2>1. OpenTmp(Snap(p), "peers", p)
    BY <1>2 DEF WritePeers
  <2>2. KeptSafe' /\ \A f \in Kept : Content(f)' = Content(f)
    BY <1>0, <2>1, OpenKept, OpenSafe
  <2>3. /\ writing'[Snap(p)].file = "peers"
        /\ \A v \in Writer : v # Snap(p) => writing'[v] = writing[v]
    BY <1>0, <2>1 DEF OpenTmp, DirSafe, DirTypeOK
  <2>4. WritersMatch'
    <3>1. writing'[Cli] = writing[Cli] /\ \A q \in Pid : writing'[Main(q)] = writing[Main(q)]
      BY <2>3, ThreadsAre
    <3>2. \A q \in Pid : q # p => writing'[Snap(q)] = writing[Snap(q)]
      BY <2>3, ThreadsAre
    <3> QED
      BY <1>0, <1>1, <2>3, <3>1, <3>2 DEF WritersMatch
  <2> QED
    BY <1>1, <2>2, <2>4, FilesOnly
<1>3. CASE PeersWritten(p)
  <2>1. /\ KeptSafe' /\ writing' = [writing EXCEPT ![Snap(p)] = None]
        /\ \A f \in Kept : Content(f)' = Content(f)
    <3>1. CASE RenameTmp(Snap(p))
      <4>1. writing[Snap(p)] # None => writing[Snap(p)].file = "peers"
        BY <1>0 DEF WritersMatch
      <4> QED
        BY <1>0, <3>1, <4>1, RenameKept
    <3>2. CASE GiveUp(Snap(p))
      BY <1>0, <3>2 DEF GiveUp, KeptSafe, SoleWriter, KeptWell, WritesAlone, Content, DirSafe, DirTypeOK
    <3> QED
      BY <1>3, <3>1, <3>2 DEF PeersWritten
  <2>2. WritersMatch'
    <3>1. /\ writing'[Snap(p)] = None
          /\ \A v \in Writer : v # Snap(p) => writing'[v] = writing[v]
      BY <1>0, <2>1 DEF DirSafe, DirTypeOK
    <3>2. writing'[Cli] = writing[Cli] /\ \A q \in Pid : writing'[Main(q)] = writing[Main(q)]
      BY <3>1, ThreadsAre
    <3>3. \A q \in Pid : q # p => writing'[Snap(q)] = writing[Snap(q)]
      BY <3>1, ThreadsAre
    <3> QED
      BY <1>0, <1>1, <3>1, <3>2, <3>3 DEF WritersMatch
  <2> QED
    BY <1>1, <2>1, <2>2, FilesOnly
<1> QED
  BY <1>2, <1>3

LEMMA FillStep ==
  ASSUME AllInv, NEW w \in Writer, Fill(w)
  PROVE  InOrder'
<1>0. DirSafe /\ KeptSafe /\ WritersMatch
  BY InvIs DEF InOrder
<1>1. UNCHANGED <<pc, key, cli>> /\ UNCHANGED tui /\ FillTmp(w)
  BY DEF Fill
<1>2. /\ KeptSafe' /\ \A f \in Kept : Content(f)' = Content(f)
      /\ \A v \in Writer : (writing'[v] = None <=> writing[v] = None)
      /\ \A v \in Writer : writing[v] # None =>
           writing'[v].file = writing[v].file /\ writing'[v].data = writing[v].data
  BY <1>0, <1>1, FillKept
<1>3. WritersMatch'
  BY <1>0, <1>1, <1>2, ThreadsAre DEF WritersMatch
<1> QED
  BY <1>1, <1>2, <1>3, FilesOnly

-----------------------------------------------------------------------------
(* As long as all is in order: the terminal and the interface *)

\* A daemon is spawned where there is none.
LEMMA Spawning ==
  ASSUME AllInv, Quiet, NEW p \in NextPid, NEW who \in {"up", "tui"}, Spawn(p, who),
         UNCHANGED <<dirVars, key>>, cli.at # "saving", cli'.at \notin {"creating", "saving"}
  PROVE  /\ KeptSafe' /\ WritersMatch' /\ OneActive' /\ IdentityMatches'
         /\ PidFile' = PidFile
         /\ p \in Pid /\ pc'[p] = "identity"
         /\ \A q \in Pid : pc'[q] \in Booting => q = p
<1>0. DirSafe /\ ProcType /\ KeptSafe /\ WritersMatch
  BY InvIs DEF InOrder
<1>1. /\ p \in Pid /\ pc[p] = "unborn" /\ pc'[p] = "identity"
      /\ \A q \in Pid : q # p => pc'[q] = pc[q]
  BY <1>0, SpawnType
<1>3. KeptSafe'
  BY <1>0 DEF dirVars, KeptSafe, SoleWriter, KeptWell, WritesAlone
<1>4. PidFile' = PidFile
  BY DEF dirVars, PidFile, Content
<1>5. \A q \in Pid : pc'[q] \in Active => q = p
  BY <1>1 DEF Quiet
<1>6. OneActive'
  BY <1>1, <1>5, StatusesAre DEF OneActive
<1>7. WritersMatch'
  <2>1. \A q \in Pid : writing[Main(q)] = None
    BY <1>0, StatusesAre DEF WritersMatch, Quiet
  <2>2. writing' = writing
    BY DEF dirVars
  <2> QED
    BY <1>0, <2>1, <2>2 DEF WritersMatch
<1>8. IdentityMatches'
  <2>1. \A q \in Pid : pc'[q] \notin {"creating", "saving", "pid", "writing_pid"} \cup Engine
    BY <1>1, <1>5, StatusesAre
  <2> QED
    BY <2>1 DEF IdentityMatches
<1> QED
  BY <1>1, <1>3, <1>4, <1>5, <1>6, <1>7, <1>8, StatusesAre

\* Nothing but the command and the interface move.
LEMMA FilesStay ==
  ASSUME UNCHANGED dirVars
  PROVE  Removes({}) /\ Stops({}) /\ UNCHANGED tmp
BY NoCall

\* Whoever has ended is waited for.
LEMMA Reaped ==
  ASSUME \A p \in Pid : pc'[p] = pc[p] \/ (pc[p] = "zombie" /\ pc'[p] = "dead"), NEW W
  PROVE  \A p \in Pid : \/ pc'[p] = pc[p]
                        \/ pc'[p] \in Gone /\ (pc[p] \in {"saving", "writing_pid"} => Main(p) \in W)
BY GoneIs DEF Over

\* Steps of a command that do not save and do not start a daemon.
LEMMA CommandStep ==
  ASSUME AllInv, Orderly',
         \/ UpAlready \/ Up \/ UpClears \/ UpSpawnFails \/ UpSees \/ UpFails \/ UpTimeout
         \/ CliIdentity \/ CliKilled
         \/ DownSignals \/ DownClears \/ DownStale \/ DownTidies \/ DownSweeps \/ DownSearches
  PROVE  InOrder'
<1>0. /\ DirSafe /\ ProcType /\ OneActive /\ OneAtATime
      /\ {} \in SUBSET {"pid", "peers"} /\ {"pid", "peers"} \in SUBSET {"pid", "peers"}
  BY InvIs DEF InOrder
<1>1. tui' = tui /\ key' = key /\ tmp' = tmp
  BY DEF UpAlready, Up, UpClears, UpSpawnFails, UpSees, UpFails, UpTimeout, CliIdentity, CliKilled,
         DownSignals, DownClears, DownStale, DownTidies, DownSweeps, DownSearches, Return, dirVars
<1>2. CASE UpAlready
  <2>1. Removes({}) /\ Stops({}) /\ cli' = cli /\ pc' = pc
    BY <1>2, FilesStay DEF UpAlready
  <2> QED
    BY <1>0, <1>1, <2>1, FadingOut
<1>3. CASE Up \/ DownStale
  <2>1. /\ Removes({}) /\ Stops({}) /\ pc' = pc /\ ~AlreadyUp
        /\ cli.at = "idle" /\ tui.at \in {"off", "loop", "peers"} /\ NoneBoots
    <3>1. Commanded(TRUE)
      BY <1>3 DEF Up, DownStale
    <3>2. UNCHANGED dirVars /\ pc' = pc /\ ~AlreadyUp
      BY <1>3 DEF Up, DownStale
    <3> QED
      BY <3>1, <3>2, FilesStay, OrderlyIs
  <2>2. \/ cli'.at \in {"spawn", "search"} /\ PidFile = None
        \/ cli'.at \in {"clear", "tidy"}
    <3>1. \/ cli' = [at |-> IF PidFile = None THEN "spawn" ELSE "clear", pid |-> None]
          \/ cli' = [at |-> IF PidFile = None THEN "search" ELSE "tidy", pid |-> None]
      BY <1>3 DEF Up, DownStale
    <3>2. CASE PidFile = None
      BY <3>1, <3>2
    <3>3. CASE PidFile # None
      BY <3>1, <3>3
    <3> QED
      BY <3>2, <3>3
  <2>3. Quiet
    BY <1>0, <2>1, NoneNamed, QuietIs
  <2>4. /\ cli'.at \in {"creating", "saving"} => cli'.at = cli.at
        /\ cli.at = "saving" => cli'.at = "saving" \/ Cli \in {}
    BY <2>1, <2>2
  <2>5. /\ KeptSafe' /\ WritersMatch' /\ OneActive' /\ IdentityMatches'
        /\ PidFile' = PidFile
    BY <1>0, <1>1, <2>1, <2>4, Fading
  <2>6. OneAtATime'
    BY <1>1, <2>1, <2>2, <2>3, <2>5 DEF OneAtATime, Quiet
  <2> QED
    BY <2>5, <2>6 DEF InOrder
<1>12. CASE UpClears \/ DownTidies
  <2>1. PICK F \in SUBSET {"pid", "peers"} : "pid" \in F /\ Removed(F)
    BY <1>12 DEF UpClears, DownTidies
  <2>2. /\ Removes(F) /\ Stops({}) /\ pc' = pc
        /\ cli.at \in {"clear", "tidy"} /\ cli'.at \in {"spawn", "sweep"}
    BY <1>0, <1>12, <2>1 DEF UpClears, DownTidies, Removes, Stops, ProcType, CliType
  <2>3. Quiet /\ tui.at \in {"off", "loop", "peers"}
    BY <1>0, <2>2 DEF OneAtATime
  <2>4. \A p \in Pid : pc'[p] \notin Named
    BY <2>2, <2>3, QuietIs
  <2>5. /\ cli'.at \in {"creating", "saving"} => cli'.at = cli.at
        /\ cli.at = "saving" => cli'.at = "saving" \/ Cli \in {}
    BY <2>2
  <2>6. /\ KeptSafe' /\ WritersMatch' /\ OneActive' /\ IdentityMatches'
        /\ PidFile' = None
    BY <1>1, <2>1, <2>2, <2>4, <2>5, Fading
  <2>7. OneAtATime'
    BY <1>1, <2>2, <2>3, <2>6 DEF OneAtATime, Quiet
  <2> QED
    BY <2>6, <2>7 DEF InOrder
<1>13. CASE UpSpawnFails
  <2>1. Removes({}) /\ Stops({}) /\ pc' = pc /\ cli'.at = "idle" /\ cli.at = "spawn"
    BY <1>13, FilesStay DEF UpSpawnFails, Idle
  <2> QED
    BY <1>0, <1>1, <2>1, FadingOut
<1>4. CASE UpSees
  <2>1. /\ Removes({}) /\ Stops({}) /\ pc' = pc /\ cli'.at = "report"
        /\ cli.at = "wait" /\ AlreadyUp
    BY <1>0, <1>4, FilesStay DEF UpSees, ProcType, CliType
  <2>2. NoneBoots
    <3>1. PidFile = cli.pid /\ pc[cli.pid] \notin Booting
      BY <1>0, <2>1, Nothing DEF OneAtATime, AlreadyUp, Data
    <3> QED
      BY <1>0, <2>1, <3>1 DEF OneAtATime, NoneBoots
  <2>3. /\ cli'.at \in {"creating", "saving"} => cli'.at = cli.at
        /\ cli.at = "saving" => cli'.at = "saving" \/ Cli \in {}
    BY <2>1
  <2>4. /\ KeptSafe' /\ WritersMatch' /\ OneActive' /\ IdentityMatches'
        /\ PidFile' = PidFile
    BY <1>0, <1>1, <2>1, <2>3, Fading
  <2>5. OneAtATime'
    BY <1>0, <1>1, <2>1, <2>2 DEF OneAtATime, Quiet, NoneBoots
  <2> QED
    BY <2>4, <2>5 DEF InOrder
<1>5. CASE UpFails \/ CliIdentity
  <2>1. /\ Removes({}) /\ Stops({}) /\ Return /\ cli.at # "saving"
    BY <1>5, FilesStay DEF UpFails, CliIdentity, LooksForIdentity
  <2>2. cli'.at = "idle" /\ \A p \in Pid : pc'[p] = pc[p] \/ (pc[p] = "zombie" /\ pc'[p] = "dead")
    BY <1>0, <2>1, ReturnType
  <2>3. \A p \in Pid : \/ pc'[p] = pc[p]
                       \/ pc'[p] \in Gone /\ (pc[p] \in {"saving", "writing_pid"} => Main(p) \in {})
    BY <2>2, Reaped
  <2> QED
    BY <1>0, <1>1, <2>1, <2>2, <2>3, FadingOut
<1>6. CASE UpTimeout
  <2> DEFINE W == Threads(cli.pid)
  <2>1. /\ cli.at = "wait" /\ cli'.at = "idle" /\ Removes({}) /\ Stops(W)
        /\ pc' = [pc EXCEPT ![cli.pid] = IF Exists(cli.pid) THEN "dead" ELSE @]
    BY <1>6 DEF UpTimeout, Removes, Stops, Idle
  <2>2. cli.pid \in Pid /\ Main(cli.pid) \in W
    BY <1>0, <2>1, ThreadsAre DEF OneAtATime
  <2> HIDE DEF W
  <2>3. \A p \in Pid : pc'[p] = pc[p] \/ (pc'[p] \in Gone /\ p = cli.pid)
    BY <1>0, <2>1, <2>2, GoneIs DEF ProcType, Over
  <2>4. \A p \in Pid : \/ pc'[p] = pc[p]
                       \/ pc'[p] \in Gone /\ (pc[p] \in {"saving", "writing_pid"} => Main(p) \in W)
    BY <2>2, <2>3
  <2> QED
    BY <1>0, <1>1, <2>1, <2>4, FadingOut
<1>7. CASE CliKilled
  <2>1. /\ Removes({}) /\ Stops({Cli}) /\ Return
    BY <1>7 DEF CliKilled, Removes, Stops
  <2>2. cli'.at = "idle" /\ \A p \in Pid : pc'[p] = pc[p] \/ (pc[p] = "zombie" /\ pc'[p] = "dead")
    BY <1>0, <2>1, ReturnType
  <2>3. \A p \in Pid : \/ pc'[p] = pc[p]
                       \/ pc'[p] \in Gone /\ (pc[p] \in {"saving", "writing_pid"} => Main(p) \in {Cli})
    BY <2>2, Reaped
  <2> QED
    BY <1>0, <1>1, <2>1, <2>2, <2>3, FadingOut
<1>8. CASE DownSignals
  <2>1. /\ Removes({}) /\ Kill({PidFile}) /\ PidFile \in Pid /\ cli'.at = "settle"
        /\ cli.at = "idle" /\ tui.at \in {"off", "loop", "peers"} /\ NoneBoots
    BY <1>8, OrderlyIs DEF DownSignals, AlreadyUp, Removes
  <2>2. {PidFile} \in SUBSET Pid
    BY <2>1
  <2>3. /\ Stops(Team({PidFile}))
        /\ \A p \in Pid : pc'[p] = pc[p] \/ (pc'[p] \in Gone /\ Main(p) \in Team({PidFile}))
    BY <2>1, <2>2, KillFades
  <2>4. Quiet'
    BY <2>1, <2>2, KillQuiets
  <2>7. /\ cli'.at \in {"creating", "saving"} => cli'.at = cli.at
        /\ cli.at = "saving" => cli'.at = "saving" \/ Cli \in Team({PidFile})
    BY <2>1
  <2>5. KeptSafe' /\ WritersMatch' /\ OneActive' /\ IdentityMatches'
    BY <1>0, <1>1, <2>1, <2>3, <2>7, Fading
  <2>6. OneAtATime'
    BY <1>1, <2>1, <2>4 DEF OneAtATime
  <2> QED
    BY <2>5, <2>6 DEF InOrder
<1>9. CASE DownClears
  <2>1. /\ Removes({"pid", "peers"}) /\ Stops({}) /\ pc' = pc /\ cli'.at = "idle" /\ cli.at = "settle"
    BY <1>9 DEF DownClears, Removes, Stops, Idle
  <2>2. \A p \in Pid : pc'[p] \notin Named
    BY <1>0, <2>1, QuietIs DEF OneAtATime
  <2> QED
    BY <1>0, <1>1, <2>1, <2>2, FadingOut
<1>10. CASE DownSweeps \/ DownSearches
  <2>1. /\ Removes({}) /\ Kill(Orphans) /\ Orphans \in SUBSET Pid
        /\ cli.at \in {"sweep", "search"} /\ cli'.at \in {"idle", "settle"}
    BY <1>0, <1>10 DEF DownSweeps, DownSearches, Orphans, Removes, Idle, ProcType, CliType
  <2>2. /\ Stops(Team(Orphans))
        /\ \A p \in Pid : pc'[p] = pc[p] \/ (pc'[p] \in Gone /\ Main(p) \in Team(Orphans))
    BY <2>1, KillFades
  <2>3. Quiet /\ tui.at \in {"off", "loop", "peers"}
    BY <1>0, <2>1 DEF OneAtATime
  <2>4. Quiet'
    BY <2>2, <2>3, GoneIs DEF Quiet
  <2>5. /\ cli'.at \in {"creating", "saving"} => cli'.at = cli.at
        /\ cli.at = "saving" => cli'.at = "saving" \/ Cli \in Team(Orphans)
    BY <2>1
  <2>6. KeptSafe' /\ WritersMatch' /\ OneActive' /\ IdentityMatches'
    BY <1>0, <1>1, <2>1, <2>2, <2>5, Fading
  <2>7. OneAtATime'
    BY <1>1, <2>1, <2>3, <2>4 DEF OneAtATime
  <2> QED
    BY <2>6, <2>7 DEF InOrder
<1> QED
  BY <1>2, <1>3, <1>4, <1>5, <1>6, <1>7, <1>8, <1>9, <1>10, <1>12, <1>13

LEMMA CommandSpawns ==
  ASSUME AllInv, UpSpawn
  PROVE  InOrder'
<1>0. OneAtATime
  BY InvIs DEF InOrder
<1>1. cli.at = "spawn" /\ UNCHANGED <<dirVars, key, tui>>
  BY DEF UpSpawn
<1>2. PICK p \in NextPid : Spawn(p, "up") /\ cli' = [at |-> "wait", pid |-> p]
  BY DEF UpSpawn
<1>3. Quiet /\ tui.at \in {"off", "loop", "peers"} /\ PidFile = None
  BY <1>0, <1>1 DEF OneAtATime
<1>4. /\ KeptSafe' /\ WritersMatch' /\ OneActive' /\ IdentityMatches'
      /\ PidFile' = PidFile
      /\ p \in Pid /\ pc'[p] = "identity"
      /\ \A q \in Pid : pc'[q] \in Booting => q = p
  BY <1>1, <1>2, <1>3, Spawning
<1>5. OneAtATime'
  BY <1>1, <1>2, <1>3, <1>4 DEF OneAtATime
<1> QED
  BY <1>4, <1>5 DEF InOrder

\* A command finds no identity,
LEMMA CommandMisses ==
  ASSUME AllInv, Orderly', CliNoIdentity
  PROVE  InOrder'
<1>0. /\ KeptSafe /\ WritersMatch /\ OneActive /\ OneAtATime /\ IdentityMatches
      /\ cli \in CliType
  BY InvIs DEF InOrder, ProcType
<1>1. /\ UNCHANGED <<dirVars, pc, key, tui>> /\ cli'.at = "creating" /\ cli.at \in {"idle", "report"}
      /\ Content("identity") = None
  BY <1>0 DEF CliNoIdentity, LooksForIdentity, CliType
<1>2. NoneBoots /\ tui.at \in {"off", "loop", "peers"}
  BY <1>0, OrderlyIs DEF CliNoIdentity, LooksForIdentity, OneAtATime
<1>3. PidFile' = PidFile /\ Content("identity")' = Content("identity")
  BY <1>1 DEF dirVars, PidFile, Content
<1>4. KeptSafe'
  BY <1>0, <1>1 DEF dirVars, KeptSafe, SoleWriter, KeptWell, WritesAlone
<1>5. WritersMatch'
  BY <1>0, <1>1 DEF dirVars, WritersMatch
<1>6. OneActive'
  BY <1>0, <1>1, <1>3 DEF OneActive
<1>7. OneAtATime'
  BY <1>1, <1>2 DEF OneAtATime, NoneBoots
<1>8. IdentityMatches'
  BY <1>0, <1>1, <1>3 DEF IdentityMatches
<1> QED
  BY <1>4, <1>5, <1>6, <1>7, <1>8 DEF InOrder

\* and creates one.
LEMMA CommandCreates ==
  ASSUME AllInv, CliCreatesIdentity
  PROVE  InOrder'
<1>0. /\ DirSafe /\ KeptSafe /\ WritersMatch /\ OneActive /\ OneAtATime /\ IdentityMatches
      /\ Cli \in Writer /\ Cli \in Data /\ "identity" \in File /\ "pid" \in File
  BY InvIs, ThreadsAre, FilesAre DEF InOrder, Data
<1>1. /\ OpenTmp(Cli, "identity", Cli) /\ Content("identity") = None
      /\ UNCHANGED <<pc, key, tui>> /\ cli'.at = "saving" /\ cli.at = "creating"
  <2>1. cli \in CliType
    BY InvIs DEF ProcType
  <2> QED
    BY <1>0, <2>1 DEF CliCreatesIdentity, CliType, IdentityMatches
<1>2. NoneBoots /\ tui.at \in {"off", "loop", "peers"}
  BY <1>0, <1>1 DEF OneAtATime
<1>3. PidFile' = PidFile /\ Content("identity")' = None
  BY <1>0, <1>1, OpenSafe DEF PidFile
<1>4. \A v \in Writer : writing[v] # None => writing[v].file = "peers"
  BY <1>0, <1>1, <1>2, NobodyWrites, StatusesAre DEF NoneBoots
<1>5. KeptSafe'
  <2>1. \A v \in Writer : writing[v] # None => writing[v].file # "identity"
    BY <1>4
  <2> QED
    BY <1>0, <1>1, <2>1, OpenKept
<1>6. WritersMatch'
  <2>1. /\ writing'[Cli].file = "identity" /\ writing'[Cli].data = Cli
        /\ \A v \in Writer : v # Cli => writing'[v] = writing[v]
    BY <1>0, <1>1 DEF OpenTmp, DirSafe, DirTypeOK
  <2>2. \A q \in Pid : writing'[Main(q)] = writing[Main(q)] /\ writing'[Snap(q)] = writing[Snap(q)]
    BY <2>1, ThreadsAre
  <2> QED
    BY <1>0, <1>1, <2>1, <2>2 DEF WritersMatch
<1>7. OneActive'
  BY <1>0, <1>1, <1>3 DEF OneActive
<1>8. OneAtATime'
  BY <1>1, <1>2 DEF OneAtATime, NoneBoots
<1>9. IdentityMatches'
  BY <1>0, <1>1, <1>3 DEF IdentityMatches
<1> QED
  BY <1>5, <1>6, <1>7, <1>8, <1>9 DEF InOrder

LEMMA CommandSaves ==
  ASSUME AllInv, CliSaved
  PROVE  InOrder'
<1>0. /\ DirSafe /\ ProcType /\ KeptSafe /\ WritersMatch /\ OneActive /\ OneAtATime /\ IdentityMatches
      /\ Cli \in Writer /\ {} \in SUBSET {"pid", "peers"}
  BY InvIs, ThreadsAre DEF InOrder
<1>1. cli.at = "saving" /\ Return /\ UNCHANGED <<key, tui>> /\ cli'.at = "idle"
      /\ \A p \in Pid : pc'[p] = pc[p] \/ (pc[p] = "zombie" /\ pc'[p] = "dead")
  <2>1. cli.at = "saving" /\ Return /\ UNCHANGED <<key, tui>>
    BY DEF CliSaved
  <2> QED
    BY <1>0, <2>1, ReturnType
<1>2. CASE GiveUp(Cli)
  <2>1. Stops({Cli}) /\ Removes({}) /\ UNCHANGED tmp
    BY <1>0, <1>2, GiveUpStops DEF DirSafe
  <2>2. \A p \in Pid : \/ pc'[p] = pc[p]
                       \/ pc'[p] \in Gone /\ (pc[p] \in {"saving", "writing_pid"} => Main(p) \in {Cli})
    BY <1>1, Reaped
  <2> QED
    BY <1>0, <1>1, <2>1, <2>2, FadingOut
<1>3. CASE RenameTmp(Cli)
  <2>1. /\ KeptSafe' /\ writing[Cli] # None
        /\ writing' = [writing EXCEPT ![Cli] = None]
        /\ \A f \in Kept :
             Content(f)' = IF f = writing[Cli].file THEN writing[Cli].data ELSE Content(f)
    BY <1>0, <1>3, RenameKept
  <2>2. PidFile' = PidFile
    BY <1>0, <2>1, FilesAre DEF WritersMatch, PidFile
  <2>3. \A p \in Pid : /\ pc'[p] \in Active => pc'[p] = pc[p]
                       /\ pc'[p] = pc[p] \/ pc'[p] \in Gone
    BY <1>1, GoneIs DEF Over
  <2>4. NoneBoots
    BY <1>0, <1>1 DEF OneAtATime
  <2>5. WritersMatch'
    <3>1. writing'[Cli] = None /\ \A v \in Writer : v # Cli => writing'[v] = writing[v]
      BY <1>0, <2>1 DEF DirSafe, DirTypeOK
    <3>2. \A q \in Pid : writing'[Main(q)] = writing[Main(q)] /\ writing'[Snap(q)] = writing[Snap(q)]
      BY <3>1, ThreadsAre
    <3>3. \A q \in Pid : writing[Main(q)] = None
      BY <1>0, <2>4, StatusesAre DEF WritersMatch, NoneBoots
    <3> QED
      BY <1>0, <3>1, <3>2, <3>3 DEF WritersMatch
  <2>6. OneActive'
    BY <1>0, <2>2, <2>3, GoneIs DEF OneActive
  <2>7. OneAtATime'
    BY <1>0, <1>1, <2>2, <2>3, FadingInTurn
  <2>8. IdentityMatches'
    <3>1. \A p \in Pid : pc[p] \notin {"creating", "saving", "pid", "writing_pid"} \cup Engine
      BY <1>0, <1>1, <2>4, StatusesAre DEF IdentityMatches, NoneBoots
    <3>2. \A p \in Pid : pc'[p] \notin {"creating", "saving", "pid", "writing_pid"} \cup Engine
      BY <2>3, <3>1, StatusesAre
    <3> QED
      BY <1>1, <3>2 DEF IdentityMatches
  <2> QED
    BY <2>1, <2>5, <2>6, <2>7, <2>8 DEF InOrder
<1> QED
  BY <1>2, <1>3 DEF CliSaved

\* Steps of the interface that neither signal nor start a daemon.
LEMMA ScreenStep ==
  ASSUME AllInv,
         \/ TuiOpens \/ PollExited \/ PollRunning \/ PollNothing \/ RefreshPeers
         \/ TuiClears \/ TuiSpawnFails \/ TuiStopped \/ TuiLeft \/ TuiQuits
  PROVE  InOrder'
<1>0. /\ DirSafe /\ ProcType /\ OneActive /\ OneAtATime
      /\ {} \in SUBSET {"pid", "peers"} /\ {"pid"} \in SUBSET {"pid", "peers"}
  BY InvIs DEF InOrder
<1>1. cli' = cli /\ key' = key /\ tmp' = tmp
  BY DEF TuiOpens, PollExited, PollRunning, PollNothing, RefreshPeers, TuiClears, TuiSpawnFails,
         TuiStopped, TuiLeft, TuiQuits, dirVars
<1>2. CASE TuiOpens \/ PollRunning \/ PollNothing \/ RefreshPeers \/ TuiSpawnFails
  <2>1. Removes({}) /\ Stops({}) /\ pc' = pc
    BY <1>2, FilesStay DEF TuiOpens, PollRunning, PollNothing, RefreshPeers, TuiSpawnFails
  <2>2. tui'.at \in {"loop", "peers"}
    BY <1>0, <1>2 DEF TuiOpens, PollRunning, PollNothing, Polls, RefreshPeers, TuiSpawnFails, NoTui,
       ProcType, TuiType
  <2> QED
    BY <1>0, <1>1, <2>1, <2>2, FadingOut
<1>3. CASE PollExited
  <2>1. Removes({}) /\ Stops({}) /\ tui'.at = tui.at
    BY <1>0, <1>3, FilesStay DEF PollExited, ProcType, TuiType
  <2>2. \A p \in Pid : pc'[p] = pc[p] \/ (pc[p] = "zombie" /\ pc'[p] = "dead")
    BY <1>0, <1>3 DEF PollExited, ProcType
  <2>3. \A p \in Pid : \/ pc'[p] = pc[p]
                       \/ pc'[p] \in Gone /\ (pc[p] \in {"saving", "writing_pid"} => Main(p) \in {})
    BY <2>2, Reaped
  <2> QED
    BY <1>0, <1>1, <2>1, <2>3, FadingOut
<1>n. ASSUME tui.at \in {"start", "stop", "quit"}
      PROVE  cli.at = "idle" /\ Quiet
  BY <1>0, <1>n DEF OneAtATime
<1>4. CASE TuiClears \/ TuiStopped
  <2>1. PICK F \in SUBSET {"pid"} : Removed(F)
    BY <1>4 DEF TuiClears, TuiStopped
  <2>2. /\ Removes(F) /\ Stops({}) /\ pc' = pc /\ tui.at \in {"start", "stop"}
        /\ tui'.at \in {"spawn", "loop"} /\ F \in SUBSET {"pid", "peers"}
    BY <1>0, <1>4, <2>1 DEF TuiClears, TuiStopped, Removes, Stops, ProcType, TuiType
  <2>3. cli.at = "idle" /\ Quiet /\ \A p \in Pid : pc'[p] \notin Named
    BY <1>n, <2>2, QuietIs
  <2>4. KeptSafe' /\ WritersMatch' /\ OneActive' /\ IdentityMatches'
    BY <1>1, <2>2, <2>3, Fading
  <2>5. OneAtATime'
    BY <1>1, <2>2, <2>3 DEF OneAtATime, Quiet
  <2> QED
    BY <2>4, <2>5 DEF InOrder
<1>5. CASE TuiLeft \/ TuiQuits
  <2>1. tui'.at = "off" /\ \A p \in Pid : pc'[p] = pc[p] \/ (pc[p] = "zombie" /\ pc'[p] = "dead")
    BY <1>0, <1>5, TuiGoneIs DEF TuiLeft, TuiQuits
  <2>2. \A p \in Pid : \/ pc'[p] = pc[p]
                       \/ pc'[p] \in Gone /\ (pc[p] \in {"saving", "writing_pid"} => Main(p) \in {})
    BY <2>1, Reaped
  <2>3. CASE TuiLeft
    <3>1. Removes({"pid"}) /\ Stops({}) /\ Quiet
      BY <1>n, <2>3 DEF TuiLeft, Removes, Stops
    <3>2. \A p \in Pid : pc'[p] \notin Named
      BY <2>1, <3>1, QuietIs, GoneIs, StatusesAre
    <3> QED
      BY <1>0, <1>1, <2>1, <2>2, <3>1, <3>2, FadingOut
  <2>4. CASE TuiQuits
    <3>1. Removes({}) /\ Stops({})
      BY <2>4, FilesStay DEF TuiQuits
    <3> QED
      BY <1>0, <1>1, <2>1, <2>2, <3>1, FadingOut
  <2> QED
    BY <1>5, <2>3, <2>4
<1> QED
  BY <1>2, <1>3, <1>4, <1>5

LEMMA ScreenSpawns ==
  ASSUME AllInv, TuiSpawns
  PROVE  InOrder'
<1>0. ProcType /\ OneAtATime
  BY InvIs DEF InOrder
<1>1. tui.at = "spawn" /\ UNCHANGED <<dirVars, key, cli>>
  BY DEF TuiSpawns
<1>2. PICK p \in NextPid :
        Spawn(p, "tui") /\ tui' = [tui EXCEPT !.at = "loop", !.child = p]
  BY DEF TuiSpawns
<1>3. Quiet /\ cli.at = "idle" /\ tui'.at = "loop"
  BY <1>0, <1>1, <1>2 DEF OneAtATime, ProcType, TuiType
<1>4. KeptSafe' /\ WritersMatch' /\ OneActive' /\ IdentityMatches'
  BY <1>1, <1>2, <1>3, Spawning
<1>5. OneAtATime'
  BY <1>1, <1>3 DEF OneAtATime
<1> QED
  BY <1>4, <1>5 DEF InOrder

\* Steps of the interface that signal.
LEMMA ScreenSignals ==
  ASSUME AllInv, Orderly', TuiStarts \/ TuiStops \/ TuiQuitsRunning
  PROVE  InOrder'
<1>0. /\ ProcType /\ OneActive
      /\ {} \in SUBSET {"pid", "peers"} /\ {"pid", "peers"} \in SUBSET {"pid", "peers"}
  BY InvIs DEF InOrder
<1>1. cli' = cli /\ key' = key /\ tmp' = tmp
  BY DEF TuiStarts, TuiStops, TuiQuitsRunning
<1>2. PICK P \in SUBSET Pid, F \in SUBSET {"pid", "peers"}, granted \in BOOLEAN :
        /\ Kill(P) /\ Removes(F) /\ Commanded(granted)
        /\ granted /\ AlreadyUp => PidFile \in P
  <2>1. CASE TuiStarts
    <3> DEFINE P == {p \in {PidFile} \cap Pid : ~Refused(p)}
               granted == \A p \in {PidFile} \cap Pid : ~Refused(p)
    <3>1. /\ P \in SUBSET Pid /\ granted \in BOOLEAN
          /\ Kill(P) /\ Removes({}) /\ Commanded(granted)
      BY <2>1 DEF TuiStarts, Removes
    <3>2. granted /\ AlreadyUp => PidFile \in P
      BY DEF AlreadyUp
    <3> HIDE DEF P, granted
    <3> QED
      BY <1>0, <3>1, <3>2
  <2>2. CASE TuiStops \/ TuiQuitsRunning
    <3>1. PICK then \in {"stop", "quit"} : StopSignals(then)
      BY <2>2 DEF TuiStops, TuiQuitsRunning
    <3>2. PICK P \in SUBSET Pid, granted \in BOOLEAN :
            Kill(P) /\ Commanded(granted) /\ (granted /\ AlreadyUp => PidFile \in P)
      BY <1>0, <3>1, StopSignalsIs
    <3>3. Removes({}) \/ Removes({"pid", "peers"})
      BY <1>0, <3>1, StopSignalsIs DEF Removes
    <3> QED
      BY <1>0, <3>2, <3>3
  <2> QED
    BY <2>1, <2>2
<1>3. cli.at = "idle" /\ NoneBoots /\ granted
  BY <1>2, OrderlyIs
<1>4. Quiet'
  BY <1>2, <1>3, KillQuiets
<1>5. /\ Stops(Team(P))
      /\ \A p \in Pid : pc'[p] = pc[p] \/ (pc'[p] \in Gone /\ Main(p) \in Team(P))
  BY <1>2, KillFades
<1>6. \A p \in Pid : pc'[p] \notin Named
  BY <1>4, GoneIs DEF Quiet
<1>7. KeptSafe' /\ WritersMatch' /\ OneActive' /\ IdentityMatches'
  BY <1>1, <1>2, <1>3, <1>5, <1>6, Fading
<1>8. OneAtATime'
  BY <1>1, <1>3, <1>4 DEF OneAtATime
<1> QED
  BY <1>7, <1>8 DEF InOrder

-----------------------------------------------------------------------------
(* Theorems *)

LEMMA InitInOrder == Init => InOrder
<1> SUFFICES ASSUME Init PROVE InOrder
  OBVIOUS
<1> DEFINE place == CHOOSE g \in [Damaged -> Ino] : \A e, f \in Damaged : g[e] = g[f] => e = f
<1>1. PICK F \in SUBSET Damaged :
        /\ disk = [f \in File |-> IF f \in F THEN place[f] ELSE None]
        /\ inode = [i \in Ino |-> IF \E f \in F : place[f] = i THEN Torn ELSE Empty]
        /\ writing = [w \in Writer |-> None]
  BY DEF Init, DirInit
<1>p. place \in [Damaged -> Ino]
  BY Places
<1> HIDE DEF place
<1>2. /\ \A w \in Writer : writing[w] = None
      /\ \A f \in File : disk[f] # None => inode[disk[f]] = Torn
  BY <1>1, <1>p
<1>3. KeptSafe
  BY <1>2, FilesAre, Nothing DEF KeptSafe, SoleWriter, KeptWell
<1>4. WritersMatch
  BY <1>2, ThreadsAre DEF WritersMatch
<1>5. \A p \in Pid : pc[p] = "unborn"
  BY DEF Init
<1>6. OneActive /\ OneAtATime /\ IdentityMatches
  BY <1>5, StatusesAre DEF Init, OneActive, OneAtATime, IdentityMatches, Idle, NoTui
<1> QED
  BY <1>3, <1>4, <1>6 DEF InOrder

LEMMA StepInOrder ==
  ASSUME AllInv, Orderly', [Next]_vars
  PROVE  InOrder'
<1>1. CASE UNCHANGED vars
  <2>1. Removes({}) /\ Stops({}) /\ {} \in SUBSET {"pid", "peers"} /\ UNCHANGED <<tmp, key>>
        /\ UNCHANGED <<pc, cli, tui>>
    BY <1>1, FilesStay DEF vars, dirVars
  <2> QED
    BY <2>1, FadingOut
<1>2. ASSUME NEW p \in Pid,
             DaemonStep(p) \/ WritePeers(p) \/ PeersWritten(p) \/ Interrupt(p) \/ Crash(p)
      PROVE  InOrder'
  BY <1>2, DaemonReads, DaemonOpens, DaemonSaves, EndingStep, SnapshotStep, DaemonInterrupted
     DEF DaemonStep
<1>3. ASSUME NEW w \in Writer, Fill(w)
      PROVE  InOrder'
  BY <1>3, FillStep
<1>4. CASE CliStep \/ UpTimeout \/ CliKilled
  BY <1>4, CommandStep, CommandSpawns, CommandMisses, CommandCreates, CommandSaves DEF CliStep
<1>5. CASE TuiStep
  BY <1>5, ScreenStep, ScreenSpawns DEF TuiStep
<1>6. CASE UserStep
  BY <1>6, CommandStep, CommandMisses, ScreenStep, ScreenSignals DEF UserStep
<1> QED
  BY <1>1, <1>2, <1>3, <1>4, <1>5, <1>6 DEF Next

\* A patient user who may signal every daemon does nothing out of order.
LEMMA PatientIsOrderly ==
  ASSUME Patient, ~Foreign, AnyUserInv, Orderly, [Next]_vars
  PROVE  Orderly'
<1>0. used \in UsedType /\ ProcType
  BY TypesAre
<1>u. CASE used' = used
  BY <1>u DEF Orderly
<1>k. CASE used' = [used EXCEPT !.crash = @ + 1] \/ used' = [used EXCEPT !.command = @ + 1]
  BY <1>0, <1>k DEF UsedType, Orderly
<1>g. ASSUME Ready, Commanded(TRUE)
      PROVE  Orderly'
  BY <1>0, <1>g, CommandedIs DEF Ready
<1>1. CASE UNCHANGED vars
  BY <1>u, <1>1 DEF vars
<1>2. CASE \E p \in Pid : DaemonStep(p) \/ WritePeers(p) \/ PeersWritten(p)
  <2>1. used' = used
    BY <1>2 DEF DaemonStep, LoadIdentity, FindNoIdentity, CreateIdentity, SaveIdentity, FailEarly,
       WritePid, PidWritten, EngineStarts, EngineFails, ClearPid, ClearPeers, Exit, WritePeers,
       PeersWritten
  <2> QED
    BY <1>u, <2>1
<1>3. CASE (\E p \in Pid : Interrupt(p) \/ Crash(p)) \/ CliKilled
  BY <1>3, <1>k DEF Interrupt, Crash, CliKilled
<1>4. CASE (\E w \in Writer : Fill(w)) \/ UpTimeout \/ TuiStep
  <2>1. used' = used
    BY <1>4 DEF Fill, UpTimeout, TuiStep, PollExited, PollRunning, PollNothing, RefreshPeers,
       TuiClears, TuiSpawns, TuiSpawnFails, TuiStopped, TuiLeft
  <2> QED
    BY <1>u, <2>1
<1>i. ASSUME CliIdentity \/ CliNoIdentity
      PROVE  Orderly'
  BY <1>i, <1>u, <1>g DEF CliIdentity, CliNoIdentity, LooksForIdentity
<1>5. CASE CliStep
  <2>1. CASE CliIdentity \/ CliNoIdentity
    BY <1>i, <2>1
  <2>2. CASE used' = used
    BY <1>u, <2>2
  <2> QED
    BY <1>5, <2>1, <2>2 DEF CliStep, UpClears, UpSpawn, UpSpawnFails, UpFails, UpSees,
       CliCreatesIdentity, CliSaved, DownClears, DownTidies, DownSweeps, DownSearches
<1>6. CASE UserStep
  <2>1. CASE CliIdentity \/ CliNoIdentity
    BY <1>i, <2>1
  <2>2. CASE UpAlready \/ Up \/ DownSignals \/ DownStale \/ TuiOpens
    BY <1>g, <2>2 DEF UpAlready, Up, DownSignals, DownStale, TuiOpens
  <2>3. CASE TuiStarts
    <3> DEFINE granted == \A p \in {PidFile} \cap Pid : ~Refused(p)
    <3>1. Ready /\ Commanded(granted)
      BY <2>3 DEF TuiStarts
    <3>2. granted
      BY DEF Refused
    <3> HIDE DEF granted
    <3>3. granted \in BOOLEAN /\ Settled
      BY <3>1, <3>2 DEF Ready
    <3> QED
      BY <1>0, <3>1, <3>2, <3>3, CommandedIs
  <2>4. CASE TuiStops \/ TuiQuitsRunning
    <3>1. Ready /\ \E then \in {"stop", "quit"} : StopSignals(then)
      BY <2>4 DEF TuiStops, TuiQuitsRunning
    <3>2. CASE Commanded(TRUE)
      BY <3>1, <3>2, <1>g
    <3>3. CASE Commanded(~AlreadyUp) /\ \E p \in {PidFile} \cap Pid : ~Exists(p) \/ Refused(p)
      <4>1. ~AlreadyUp /\ Settled /\ (~AlreadyUp) \in BOOLEAN
        BY <3>1, <3>3 DEF Refused, AlreadyUp, Ready
      <4> QED
        BY <1>0, <3>3, <4>1, CommandedIs
    <3> QED
      BY <3>1, <3>2, <3>3 DEF StopSignals
  <2>5. CASE TuiQuits
    BY <1>k, <2>5 DEF TuiQuits
  <2> QED
    BY <1>6, <2>1, <2>2, <2>3, <2>4, <2>5 DEF UserStep
<1> QED
  BY <1>1, <1>2, <1>3, <1>4, <1>5, <1>6 DEF Next

\* For any user, however hasty: the state directory keeps the inodes of its
\* files apart, and peers are on the screen only next to a daemon believed to
\* run (config/src/lib.rs:185-209, tui.rs:266, 283, 314).
THEOREM AnyUserInvariant == Spec => []AnyUserInv
<1>1. Init => AnyUserInv
  BY InitAnyUser
<1>2. AnyUserInv /\ [Next]_vars => AnyUserInv'
  BY StepAnyUser
<1> QED
  BY <1>1, <1>2, PTL DEF Spec

\* The inductive invariant, for any user: until a command is given in the
\* middle of another start or stop, or a signal is refused, one daemon at most
\* is starting or running, whoever is in the middle of a write writes alone, and
\* a command or the interface that waits for daemons to end meets none
\* (commands.rs:29-37, 300-334, tui.rs:136-144, config/src/lib.rs:192-198).
THEOREM DaemonInvariant == Spec => []DaemonInv
<1>1. Init => DaemonInv
  BY InitAnyUser, InitInOrder, InvIs
<1>2. DaemonInv /\ [Next]_vars => DaemonInv'
  <2> SUFFICES ASSUME DaemonInv, [Next]_vars PROVE DaemonInv'
    OBVIOUS
  <2>1. AnyUserInv /\ AnyUserInv'
    BY InvIs, StepAnyUser
  <2>2. ASSUME Orderly'
        PROVE  InOrder'
    <3>1. Orderly
      BY <2>1, <2>2, TypesAre, UsedStep
    <3>2. AllInv
      BY <3>1, InvIs DEF AllInv
    <3> QED
      BY <2>2, <3>2, StepInOrder
  <2> QED
    BY <2>1, <2>2, InvIs
<1> QED
  BY <1>1, <1>2, PTL DEF Spec

\* Until two starts or stops overlap or a signal is refused there is never more
\* than one daemon that runs an engine or is about to, whatever is killed,
\* interrupted, given up or left behind (commands.rs:29-37, tui.rs:136-144).
THEOREM EnginesCollideInHaste == Spec => []EnginesCollideOnlyInHaste
<1>1. DaemonInv => EnginesCollideOnlyInHaste
  <2> SUFFICES ASSUME DaemonInv, Orderly PROVE OneEngine
    BY DEF EnginesCollideOnlyInHaste
  <2> DEFINE S == {p \in Pid : pc[p] \in Booting \cup Engine}
  <2>1. \A p, q \in S : p = q
    BY InvIs, GoneIs DEF InOrder, OneActive
  <2> HIDE DEF S
  <2>2. CASE S = {}
    BY <2>2, FS_EmptySet DEF OneEngine, S
  <2>3. CASE S # {}
    <3>1. PICK p : S = {p}
      BY <2>1, <2>3
    <3>2. Cardinality(S) = 1
      BY <3>1, FS_Singleton
    <3> QED
      BY <3>2 DEF OneEngine, S
  <2> QED
    BY <2>2, <2>3
<1> QED
  BY <1>1, DaemonInvariant, PTL

\* Until then a running engine is the one the PID file names
\* (commands.rs:285, 312, 318, tui.rs:144, 265).
THEOREM EnginesLostInHaste == Spec => []EnginesLostOnlyInHaste
<1>1. DaemonInv => EnginesLostOnlyInHaste
  BY InvIs, GoneIs DEF InOrder, OneActive, EngineIsNamed, EnginesLostOnlyInHaste
<1> QED
  BY <1>1, DaemonInvariant, PTL

\* With a user who lets every start and stop finish and may signal every daemon,
\* nothing is ever out of order.
LEMMA AlwaysInOrder ==
  ASSUME Patient, ~Foreign
  PROVE  Spec => [](DaemonInv /\ Orderly)
<1>1. Init => Orderly
  BY DEF Init, Orderly
<1>2. DaemonInv /\ Orderly /\ [Next]_vars => Orderly'
  BY PatientIsOrderly, InvIs
<1> QED
  BY <1>1, <1>2, DaemonInvariant, PTL DEF Spec

\* For such a user: a running engine uses the identity that is on disk, also
\* when it was killed while saving one before (config/src/lib.rs:102-132).
THEOREM IdentitiesAreSaved ==
  ASSUME Patient, ~Foreign
  PROVE  Spec => []IdentityIsSaved
<1>1. DaemonInv /\ Orderly => IdentityIsSaved
  BY InvIs DEF InOrder, IdentityMatches, IdentityIsSaved
<1> QED
  BY <1>1, AlwaysInOrder, PTL

\* When an orderly down is over there is no engine and no PID file, for any user
\* (commands.rs:300-336).
THEOREM DownHasStopped == Spec => DownStops
<1>1. DaemonInv /\ [Next]_vars =>
        [DownEnds /\ Orderly => disk'["pid"] = None /\ \A p \in Pid : pc'[p] \notin Engine]_vars
  <2> SUFFICES ASSUME DaemonInv, DownEnds, Orderly
               PROVE  disk'["pid"] = None /\ \A p \in Pid : pc'[p] \notin Engine
    OBVIOUS
  <2>0. AllInv /\ DirSafe /\ ProcType /\ OneAtATime /\ "pid" \in File
    BY InvIs, FilesAre DEF AllInv, InOrder
  <2>1. CASE DownClears
    BY <2>0, <2>1, QuietIs, GoneIs DEF DownClears, OneAtATime, Removed
  <2>2. CASE DownSweeps \/ DownSearches
    <3>1. /\ Orphans \in SUBSET Pid /\ Kill(Orphans) /\ disk' = disk
          /\ cli.at \in {"sweep", "search"}
      BY <2>2 DEF DownSweeps, DownSearches, Orphans
    <3>2. Quiet /\ PidFile = None
      BY <2>0, <3>1 DEF OneAtATime
    <3>3. \A p \in Pid : pc'[p] \notin Engine
      BY <2>0, <3>1, <3>2, KillFades, GoneIs DEF Quiet
    <3>4. disk["pid"] = None
      BY <2>0, <3>2, Nothing DEF PidFile, Content, DirSafe, DirTypeOK
    <3> QED
      BY <3>1, <3>3, <3>4
  <2> QED
    BY <2>1, <2>2 DEF DownEnds
<1> QED
  BY <1>1, DaemonInvariant, PTL DEF Spec, DownStops

-----------------------------------------------------------------------------
(* The files that matter, as StateFiles has them *)

Held == [f \in Kept |-> Content(f)]
Asked == [w \in Writer |->
            IF writing[w] = None \/ writing[w].file \notin Kept THEN None
            ELSE <<writing[w].file, writing[w].data>>]

LEMMA InitPromised == Init => Promised!Init
<1> SUFFICES ASSUME Init PROVE Promised!Init
  OBVIOUS
<1>1. AnyUserInv /\ InOrder
  BY InitAnyUser, InitInOrder
<1>2. \A f \in Kept : Content(f) \in Data \cup {Torn} \cup {None}
  <2>1. DirTypeOK(Data) /\ KeptWell /\ Kept \subseteq File
    BY <1>1, TypesAre, FilesAre DEF DirSafe, InOrder, KeptSafe
  <2> SUFFICES ASSUME NEW f \in Kept PROVE Content(f) \in Data \cup {Torn} \cup {None}
    OBVIOUS
  <2>2. Content(f) \in Data \cup {Empty, Torn, None}
    BY <2>1, ContentType
  <2>3. Content(f) # Empty
    BY <2>1, Nothing DEF KeptWell, Content
  <2> QED
    BY <2>2, <2>3
<1>3. \A w \in Writer : writing[w] = None
  BY DEF Init, DirInit
<1> QED
  BY <1>2, <1>3 DEF Promised!Init

\* Each system call is a step of the abstract directory, or none.
LEMMA CallPromised ==
  ASSUME DirSafe, KeptSafe, DirStep
  PROVE  [Promised!Next]_Promised!vars
<1>0. Kept \subseteq File
  BY FilesAre
<1>v. Promised!vars = <<Held, Asked>> /\ Promised!vars' = <<Held', Asked'>>
  BY DEF Promised!vars, Held, Asked
<1>1. ASSUME NEW w \in Writer, NEW f \in File, NEW d \in Data, OpenTmp(w, f, d)
      PROVE  [Promised!Next]_Promised!vars
  <2>1. Held' = Held
    BY <1>0, <1>1, OpenSafe DEF Held
  <2>2. PICK i : writing' = [writing EXCEPT ![w] = [file |-> f, data |-> d, ino |-> i, filled |-> FALSE]]
        /\ i \in Ino /\ writing[w] = None
    BY <1>1, OpenIno
  <2>3. /\ writing'[w] = [file |-> f, data |-> d, ino |-> i, filled |-> FALSE]
        /\ writing'[w] # None
        /\ \A v \in Writer : v # w => writing'[v] = writing[v]
    <3>1. [file |-> f, data |-> d, ino |-> i, filled |-> FALSE] \in Write
      BY <2>2 DEF Write
    <3> QED
      BY <2>2, <3>1, Nothing DEF DirSafe, DirTypeOK
  <2>4. CASE f \in Kept
    <3>a. Asked[w] = None /\ Asked = [v \in Writer |-> Asked[v]]
      BY <2>2 DEF Asked
    <3>b. Asked'[w] = <<f, d>> /\ \A v \in Writer : v # w => Asked'[v] = Asked[v]
      BY <2>3, <2>4 DEF Asked
    <3>c. Asked' = [v \in Writer |-> Asked'[v]]
      BY DEF Asked
    <3>1. Asked[w] = None /\ Asked' = [Asked EXCEPT ![w] = <<f, d>>]
      BY <3>a, <3>b, <3>c
    <3>2. d \in Data \cup {Torn}
      OBVIOUS
    <3>3. Asked'[w] = <<f, d>> /\ Asked' = [Asked EXCEPT ![w] = Asked'[w]]
      BY <3>b, <3>1
    <3>4. Asked'[w] \in Kept \X (Data \cup {Torn})
      BY <2>4, <3>2, <3>3
    <3>5. Promised!Ask(w)
      BY <2>1, <3>a, <3>3, <3>4 DEF Promised!Ask, Held, Asked
    <3> QED
      BY <3>5 DEF Promised!Next
  <2>5. CASE f \notin Kept
    <3>1. Asked' = Asked
      BY <2>2, <2>3, <2>5 DEF Asked
    <3> QED
      BY <1>v, <2>1, <3>1
  <2> QED
    BY <2>4, <2>5
<1>2. ASSUME NEW w \in Writer, FillTmp(w)
      PROVE  [Promised!Next]_Promised!vars
  <2>1. Held' = Held /\ Asked' = Asked
    BY <1>2, FillKept DEF Held, Asked
  <2> QED
    BY <1>v, <2>1
<1>3. ASSUME NEW w \in Writer, RenameTmp(w)
      PROVE  [Promised!Next]_Promised!vars
  <2>1. /\ writing[w] \in Write /\ writing[w] # None
        /\ writing' = [writing EXCEPT ![w] = None]
        /\ \A f \in Kept :
             Content(f)' = IF f = writing[w].file THEN writing[w].data ELSE Content(f)
    BY <1>3, RenameKept
  <2>2. writing'[w] = None /\ \A v \in Writer : v # w => writing'[v] = writing[v]
    BY <2>1 DEF DirSafe, DirTypeOK
  <2>3. CASE writing[w].file \in Kept
    <3>1. Asked[w] = <<writing[w].file, writing[w].data>> /\ Asked[w] # None
      BY <2>1, <2>3, <1>0, Nothing DEF Asked, Write
    <3>2. Asked' = [Asked EXCEPT ![w] = None]
      BY <2>2 DEF Asked
    <3>a. Asked[w][1] = writing[w].file /\ Asked[w][2] = writing[w].data
      BY <3>1
    <3>b. Held' = [f \in Kept |-> IF f = writing[w].file THEN writing[w].data ELSE Held[f]]
      BY <2>1 DEF Held
    <3>3. Held' = [Held EXCEPT ![Asked[w][1]] = Asked[w][2]]
      BY <3>a, <3>b, <2>3 DEF Held
    <3>4. Promised!Commit(w)
      BY <3>1, <3>2, <3>3 DEF Promised!Commit, Held, Asked
    <3> QED
      BY <3>4 DEF Promised!Next
  <2>4. CASE writing[w].file \notin Kept
    <3>1. Held' = Held /\ Asked' = Asked
      BY <2>1, <2>2, <2>4 DEF Held, Asked
    <3> QED
      BY <1>v, <3>1
  <2> QED
    BY <2>3, <2>4
<1>4. ASSUME NEW F \in SUBSET File, NEW W \in SUBSET Writer, Removes(F), Stops(W), UNCHANGED tmp
      PROVE  [Promised!Next]_Promised!vars
  <2>1. /\ writing' = [w \in Writer |-> IF w \in W THEN None ELSE writing[w]]
        /\ \A f \in File : Content(f)' = IF f \in F THEN None ELSE Content(f)
    BY <1>4, LossEffect
  <2>2. Held' = [f \in Kept |-> IF f \in F \cap Kept THEN None ELSE Held[f]]
    BY <1>0, <2>1 DEF Held
  <2>3. Asked' = [w \in Writer |-> IF w \in W THEN None ELSE Asked[w]]
    BY <2>1 DEF Asked
  <2>4. F \cap Kept \in SUBSET Kept
    OBVIOUS
  <2>5. Promised!Lose
    BY <2>2, <2>3, <2>4 DEF Promised!Lose, Held, Asked
  <2> QED
    BY <2>5 DEF Promised!Next
<1> QED
  BY <1>1, <1>2, <1>3, <1>4 DEF DirStep

\* For a user who lets every start and stop finish and may signal every daemon:
\* the identity and the PID file are replaced at once or not at all, whatever is
\* killed between two system calls of atomic_write (config/src/lib.rs:185-209).
THEOREM StateFilesImplemented ==
  ASSUME Patient, ~Foreign
  PROVE  Spec => ImplementsStateFiles
<1>1. DaemonInv /\ Orderly /\ [Next]_vars => [Promised!Next]_Promised!vars
  <2> SUFFICES ASSUME DaemonInv, Orderly, [Next]_vars PROVE [Promised!Next]_Promised!vars
    OBVIOUS
  <2>1. DirSafe /\ KeptSafe /\ TypeOK
    BY InvIs, TypesAre DEF DirSafe, InOrder
  <2>2. DirStep
    BY <2>1, CallDir
  <2> QED
    BY <2>1, <2>2, CallPromised
<1> QED
  BY <1>1, InitPromised, AlwaysInOrder, PTL DEF Spec, ImplementsStateFiles, Promised!Spec
=============================================================================
