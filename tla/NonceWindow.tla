---------------------------- MODULE NonceWindow -----------------------------
(***************************************************************************)
(* crypto/src/noise.rs: the per-packet nonces of a SecureTransport and the *)
(* sliding-window bitmap that refuses replays.                             *)
(*                                                                         *)
(* One direction of one session: the sender numbers its datagrams with     *)
(* send_nonce; the network delivers each of them never, once or many times *)
(* and in any order; datagrams the sender never encrypted reach the same   *)
(* receiver too, because the inbound loop decrypts whatever arrives from   *)
(* an address that is indexed to a session.                                *)
(*                                                                         *)
(* The u128 bitmap is the set of offsets behind the top it marks: bit      *)
(* d - 1 set is d \in mask.  `top: None` is -1.  The counter stops at      *)
(* MaxNonce instead of wrapping at 2^64.                                   *)
(***************************************************************************)
EXTENDS Integers

CONSTANTS
  WIDTH,     \* width of the bitmap (128 in the code)
  MaxNonce,  \* bound on the nonces of a run
  StrayNonce \* what the first eight bytes of foreign datagrams read as

Nonce == 0 .. MaxNonce

ASSUME WidthAssumption == WIDTH \in Nat \ {0}
ASSUME MaxNonceAssumption == MaxNonce \in Nat
ASSUME StrayAssumption == StrayNonce \subseteq Nonce

VARIABLES
  send_nonce,  \* the sender's counter
  top,         \* NonceWindow.top
  mask,        \* NonceWindow.mask, as offsets behind top
  seen,        \* history: nonces the window has answered "fresh" to
  deliveries   \* history: successful decryptions per nonce

vars == <<send_nonce, top, mask, seen, deliveries>>

TypeOK ==
  /\ send_nonce \in Nat
  /\ top \in Nonce \cup {-1}
  /\ mask \subseteq 1 .. WIDTH
  /\ seen \subseteq Nonce
  /\ deliveries \in [Nonce -> Nat]

Init ==
  /\ send_nonce = 0
  /\ top = -1
  /\ mask = {}
  /\ seen = {}
  /\ deliveries = [n \in Nonce |-> 0]

-----------------------------------------------------------------------------
\* What check_and_insert answers for nonce n.
Fresh(n) ==
  \/ n > top
  \/ /\ n < top
     /\ top - n <= WIDTH
     /\ top - n \notin mask

\* Mutants of Slide: the old top's own bit is forgotten, or the bitmap is not
\* shifted when the top moves.
SlideForgetsTop(shift) ==
  IF shift >= WIDTH THEN {} ELSE {d \in 1 .. WIDTH : d - shift \in mask}
SlideInPlace(shift) ==
  IF shift >= WIDTH THEN {} ELSE mask \cup {shift}

\* The bitmap after the window slides up by `shift` places.
Slide(shift) ==
  IF shift >= WIDTH
    THEN {}
    ELSE {d \in 1 .. WIDTH : d = shift \/ d - shift \in mask}

\* Mutant of MaskAfter: a late nonce is answered "fresh" without being marked.
MaskNotMarked(n) ==
  IF top = -1 THEN {} ELSE IF n > top THEN Slide(n - top) ELSE mask

\* The bitmap after check_and_insert(n).
MaskAfter(n) ==
  IF top = -1 THEN {}
  ELSE IF n > top THEN Slide(n - top)
  ELSE IF Fresh(n) THEN mask \cup {top - n}
  ELSE mask

CheckAndInsert(n) ==
  /\ top' = IF n > top THEN n ELSE top
  /\ mask' = MaskAfter(n)
  /\ seen' = IF Fresh(n) THEN seen \cup {n} ELSE seen

-----------------------------------------------------------------------------
\* encrypt, encrypt_into: number a datagram and advance the counter.
Encrypt ==
  /\ send_nonce \in Nonce
  /\ send_nonce' = send_nonce + 1
  /\ UNCHANGED <<top, mask, seen, deliveries>>

\* decrypt, decrypt_into on a datagram the peer did encrypt: the nonce is
\* recorded, and a fresh one authenticates.
DecryptGenuine(n) ==
  /\ n < send_nonce
  /\ CheckAndInsert(n)
  /\ deliveries' = IF Fresh(n) THEN [deliveries EXCEPT ![n] = @ + 1]
                               ELSE deliveries
  /\ UNCHANGED send_nonce

\* decrypt, decrypt_into on anything else, its first eight bytes read as n:
\* the nonce is recorded before authentication fails.
DecryptStray(n) ==
  /\ CheckAndInsert(n)
  /\ UNCHANGED <<send_nonce, deliveries>>

Next ==
  \/ Encrypt
  \/ \E n \in Nonce : DecryptGenuine(n)
  \/ \E n \in StrayNonce : DecryptStray(n)

Spec == Init /\ [][Next]_vars

-----------------------------------------------------------------------------
(* The part of the invariant that ties the bitmap to what was received.    *)

\* Every nonce recorded is at or below top, and top itself was recorded.
TopIsHighest ==
  /\ \A n \in seen : n <= top
  /\ top # -1 => top \in seen

\* Below the last place, a bit is set exactly when that nonce was recorded;
\* the last place is only ever set for a recorded nonce.
MaskMatchesHistory ==
  \A d \in mask \cup 1 .. (WIDTH - 1) :
    d \in mask <=> (top - d \in seen)

\* Only recorded nonces were ever delivered.
DeliveredWereRecorded ==
  \A n \in Nonce : deliveries[n] > 0 => n \in seen

\* The inductive invariant.
WindowInv ==
  TypeOK /\ TopIsHighest /\ MaskMatchesHistory /\ DeliveredWereRecorded

-----------------------------------------------------------------------------
(* Properties *)

\* A datagram no more than WIDTH - 1 behind the highest nonce is never
\* decrypted a second time, whatever was lost, reordered, duplicated or
\* received from elsewhere in between (noise.rs:91-93).
NoReplayInsideWindow ==
  [][\A n \in Nonce :
       deliveries[n] > 0 /\ top - n < WIDTH => deliveries'[n] = deliveries[n]]_vars

\* No datagram is ever decrypted a second time: the bitmap covers "the preceding
\* 128 nonces", and what is more than 128 behind is rejected unseen
\* (noise.rs:31-33, 45).
DuplicatesRefused ==
  [][\A n \in Nonce : deliveries[n] > 0 => deliveries'[n] = deliveries[n]]_vars

\* Reordering inside the window costs nothing: a nonce that was not recorded
\* yet and is at most WIDTH behind is still answered "fresh"
\* (noise.rs:90-91, the out-of-order test at noise.rs:463-481).
LateIsNotLost ==
  \A n \in Nonce \ seen : top - n <= WIDTH => Fresh(n)

\* The bitmap implements the filter that remembers every nonce.
Filter == INSTANCE ReplayFilter WITH Width <- WIDTH, next <- send_nonce
ImplementsFilter == Filter!FilterSpec

=============================================================================
