------------------------------ MODULE StateDir ------------------------------
(***************************************************************************)
(* The state directory (config/src/lib.rs): its files, the temporary file  *)
(* next to each, and atomic_write step by step.  The temporary file has    *)
(* one name per file, so two writers of a file share it; an open file      *)
(* stays the same inode when it is renamed.                                *)
(* Abstracted: file modes, disk errors other than a missing file, and      *)
(* power failures after the first state (nothing is synced, so one may     *)
(* leave a file with less than was written).                               *)
(***************************************************************************)
EXTENDS Naturals, FiniteSets

CONSTANTS
  File,    \* names of files
  Writer,  \* threads that write
  Ino,     \* inodes
  Empty,   \* content of a file that was just created or truncated
  Torn,    \* a mixture of two contents, or what a power failure left
  Damaged, \* files a power failure may have damaged before the run
  None

\* There is always another inode for a file that is created.
ASSUME DirAssumption ==
  /\ IsFiniteSet(File) /\ IsFiniteSet(Writer) /\ IsFiniteSet(Ino)
  /\ Cardinality(Ino) > 2 * Cardinality(File) + Cardinality(Writer)
  /\ Damaged \subseteq File
  /\ None \notin Ino \cup {Empty, Torn} /\ Empty # Torn

VARIABLES
  disk,    \* disk[f]: the inode f names, or None
  tmp,     \* tmp[f]: the inode .f.tmp names, or None
  inode,   \* inode[i]: content
  writing  \* writing[w]: the write w is in the middle of, or None

dirVars == <<disk, tmp, inode, writing>>

\* A new directory, or one in which a power failure has damaged some files.
DirInit ==
  LET place == CHOOSE g \in [Damaged -> Ino] : \A e, f \in Damaged : g[e] = g[f] => e = f
  IN \E F \in SUBSET Damaged :
       /\ disk = [f \in File |-> IF f \in F THEN place[f] ELSE None]
       /\ inode = [i \in Ino |-> IF \E f \in F : place[f] = i THEN Torn ELSE Empty]
       /\ tmp = [f \in File |-> None]
       /\ writing = [w \in Writer |-> None]

\* What reading f returns; None when there is no such file.
Content(f) == IF disk[f] = None THEN None ELSE inode[disk[f]]

InUse ==
  {disk[f] : f \in File} \cup {tmp[f] : f \in File}
    \cup {writing[w].ino : w \in {v \in Writer : writing[v] # None}}

\* fs::write opens the temporary file, creating it or cutting it to nothing.
OpenTmp(w, f, d) ==
  LET i == IF tmp[f] # None THEN tmp[f] ELSE CHOOSE j \in Ino : j \notin InUse
  IN /\ writing[w] = None
     /\ tmp' = [tmp EXCEPT ![f] = i]
     /\ inode' = [inode EXCEPT ![i] = Empty]
     /\ writing' = [writing EXCEPT ![w] = [file |-> f, data |-> d, ino |-> i, filled |-> FALSE]]
     /\ UNCHANGED disk

\* fs::write puts the bytes at the start of what it opened, whatever that is
\* called by now.  Over other bytes the result may be a mixture.
FillTmp(w) ==
  LET m == writing[w]
  IN /\ m # None /\ ~m.filled
     /\ \E c \in IF inode[m.ino] \in {Empty, m.data} THEN {m.data} ELSE {m.data, Torn} :
          inode' = [inode EXCEPT ![m.ino] = c]
     /\ writing' = [writing EXCEPT ![w].filled = TRUE]
     /\ UNCHANGED <<disk, tmp>>

\* Nobody can read these inodes any more.
Unlinked(I) == inode' = [i \in Ino |-> IF i \in I THEN Empty ELSE inode[i]]

\* Mutant of RenameTmp: the target is replaced before it is written.
RenameTmpEarly(w) ==
  LET m == writing[w]
  IN /\ m # None /\ tmp[m.file] # None
     /\ disk' = [disk EXCEPT ![m.file] = tmp[m.file]]
     /\ tmp' = [tmp EXCEPT ![m.file] = None]
     /\ writing' = [writing EXCEPT ![w] = None]
     /\ Unlinked({disk[m.file]})

\* chmod and rename, both by name.
RenameTmp(w) ==
  LET m == writing[w]
  IN /\ m # None /\ m.filled /\ tmp[m.file] # None
     /\ disk' = [disk EXCEPT ![m.file] = tmp[m.file]]
     /\ tmp' = [tmp EXCEPT ![m.file] = None]
     /\ writing' = [writing EXCEPT ![w] = None]
     /\ Unlinked({disk[m.file]})

\* Another writer has renamed the temporary file away: the write fails.
TmpGone(w) == writing[w] # None /\ writing[w].filled /\ tmp[writing[w].file] = None

GiveUp(w) ==
  /\ writing' = [writing EXCEPT ![w] = None]
  /\ UNCHANGED <<disk, tmp, inode>>

\* remove_file; it is no error if there is none.
Removed(F) ==
  /\ disk' = [f \in File |-> IF f \in F THEN None ELSE disk[f]]
  /\ Unlinked({disk[f] : f \in F})

\* The threads W end in the middle of whatever they were doing.
Stopped(W) == writing' = [w \in Writer |-> IF w \in W THEN None ELSE writing[w]]

DirTypeOK(Data) ==
  /\ disk \in [File -> Ino \cup {None}]
  /\ tmp \in [File -> Ino \cup {None}]
  /\ inode \in [Ino -> Data \cup {Empty, Torn}]
  /\ writing \in [Writer -> [file : File, data : Data, ino : Ino, filled : BOOLEAN] \cup {None}]

\* Every name has an inode of its own, and a file, its temporary file and those
\* who write it have none that another file has.
InodesApart ==
  /\ \A f, g \in File : f # g => disk[f] # disk[g] \/ disk[f] = None
  /\ \A f, g \in File : f # g => tmp[f] # tmp[g] \/ tmp[f] = None
  /\ \A f, g \in File : disk[f] # tmp[g] \/ disk[f] = None
  /\ \A w \in Writer : writing[w] # None =>
       \A f \in File : writing[w].ino \in {disk[f], tmp[f]} => f = writing[w].file
  /\ \A v, w \in Writer :
       /\ writing[v] # None /\ writing[w] # None
       /\ writing[v].ino = writing[w].ino
       => writing[v].file = writing[w].file

\* A file that has one writer at a time: what it writes to is the temporary
\* file and has nothing in it but what it writes.
WritesAlone(w) ==
  LET m == writing[w]
  IN m.ino = tmp[m.file] /\ inode[m.ino] = (IF m.filled THEN m.data ELSE Empty)
=============================================================================
