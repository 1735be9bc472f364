----------------------------- MODULE StateFiles -----------------------------
(***************************************************************************)
(* What atomic_write promises its callers (config/src/lib.rs:185-187): a   *)
(* file has its old content or its new content, never a part of one.  A    *)
(* write takes effect at one moment while it is under way, or never; files *)
(* may be removed at any time and writers may stop for good.               *)
(***************************************************************************)
CONSTANTS
  File,    \* names of files
  Writer,  \* threads that write
  Data,    \* whole contents
  None     \* no content: no file; no write under way

VARIABLES
  content,  \* content[f]: what a reader of f gets
  asked     \* asked[w]: the <<file, content>> w is writing, or None

vars == <<content, asked>>

Init ==
  /\ content \in [File -> Data \cup {None}]
  /\ asked = [w \in Writer |-> None]

Ask(w) ==
  /\ asked[w] = None /\ asked'[w] \in File \X Data
  /\ asked' = [asked EXCEPT ![w] = asked'[w]]
  /\ UNCHANGED content

\* The write takes effect and is over.
Commit(w) ==
  /\ asked[w] # None
  /\ content' = [content EXCEPT ![asked[w][1]] = asked[w][2]]
  /\ asked' = [asked EXCEPT ![w] = None]

\* Files disappear, and writers fail or die with nothing changed.
Lose ==
  /\ \E F \in SUBSET File : content' = [f \in File |-> IF f \in F THEN None ELSE content[f]]
  /\ \E W \in SUBSET Writer : asked' = [w \in Writer |-> IF w \in W THEN None ELSE asked[w]]

Next ==
  \/ \E w \in Writer : Ask(w) \/ Commit(w)
  \/ Lose

Spec == Init /\ [][Next]_vars
=============================================================================
