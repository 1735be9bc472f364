---------------------------- MODULE ReplayFilter ----------------------------
(***************************************************************************)
(* What the receiving half of a SeedNet transport promises about nonces,   *)
(* with no bitmap: it remembers every nonce it has recorded.               *)
(*                                                                         *)
(* A nonce above the highest one recorded is fresh; one at most Width - 1  *)
(* behind is fresh exactly when it was not recorded before; one more than  *)
(* Width behind is refused.  Exactly Width behind the filter promises      *)
(* nothing.  Recording comes before authentication, so a datagram that     *)
(* this transport's peer never encrypted ("stray") is recorded too.        *)
(***************************************************************************)
EXTENDS Integers

CONSTANTS
  Width,     \* nonces remembered behind the highest one
  MaxNonce   \* bound: nonces are drawn from 0..MaxNonce

VARIABLES
  next,       \* nonces 0..next-1 have been used by the sender
  top,        \* highest nonce recorded, -1 before the first
  seen,       \* every nonce recorded so far
  deliveries  \* how often the payload under each nonce was handed on

filterVars == <<next, top, seen, deliveries>>

Nonce == 0 .. MaxNonce

FilterInit ==
  /\ next = 0
  /\ top = -1
  /\ seen = {}
  /\ deliveries = [n \in Nonce |-> 0]

\* The sender encrypts one more message.
Send ==
  /\ next \in Nonce
  /\ next' = next + 1
  /\ UNCHANGED <<top, seen, deliveries>>

\* The filter's answer for nonce n may be `fresh`.
Promised(n, fresh) ==
  /\ n > top => fresh
  /\ n <= top /\ top - n < Width => (fresh <=> n \notin seen)
  /\ top - n > Width => ~fresh

\* A datagram carrying nonce n arrives; a genuine one is delivered if fresh.
Arrive(n, genuine) ==
  \E fresh \in BOOLEAN :
    /\ Promised(n, fresh)
    /\ top' = IF n > top THEN n ELSE top
    /\ seen' = IF fresh THEN seen \cup {n} ELSE seen
    /\ deliveries' = IF fresh /\ genuine
                       THEN [deliveries EXCEPT ![n] = @ + 1]
                       ELSE deliveries
    /\ UNCHANGED next

FilterNext ==
  \/ Send
  \/ \E n \in Nonce : n < next /\ Arrive(n, TRUE)
  \/ \E n \in Nonce : Arrive(n, FALSE)

FilterSpec == FilterInit /\ [][FilterNext]_filterVars
=============================================================================
