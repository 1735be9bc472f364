-------------------------- MODULE NonceWindowProofs -------------------------
(***************************************************************************)
(* Proofs about crypto/src/noise.rs's replay window, for every width and   *)
(* every bound on the nonces.  The bitmap has finite memory, so neither    *)
(* property is inductive: WindowInv says which part of the history the     *)
(* bitmap still knows, and both follow from it.                            *)
(***************************************************************************)
EXTENDS NonceWindow, TLAPS

USE WidthAssumption, MaxNonceAssumption, StrayAssumption

\* A recorded nonce inside the window is not fresh, an unrecorded one up to
\* WIDTH behind is (check_and_insert, noise.rs:63-84).
LEMMA FreshnessIsExact ==
  ASSUME WindowInv, NEW n \in Nonce
  PROVE  /\ n \in seen /\ top - n < WIDTH => ~Fresh(n)
         /\ n \notin seen /\ top - n <= WIDTH => Fresh(n)
         /\ top - n > WIDTH => ~Fresh(n)
<1>1. ASSUME n \in seen, top - n < WIDTH
      PROVE  ~Fresh(n)
  <2>1. n <= top
    BY <1>1 DEF WindowInv, TopIsHighest
  <2>2. CASE n = top
    BY <2>2 DEF Fresh, Nonce, WindowInv, TypeOK
  <2>3. CASE n < top
    <3>1. top - n \in 1 .. (WIDTH - 1) /\ top - (top - n) = n
      BY <1>1, <2>3 DEF Nonce, WindowInv, TypeOK
    <3>2. top - n \in mask
      BY <1>1, <3>1 DEF WindowInv, MaskMatchesHistory
    <3>. QED BY <2>3, <3>2 DEF Fresh, Nonce, WindowInv, TypeOK
  <2>. QED BY <2>1, <2>2, <2>3 DEF Nonce, WindowInv, TypeOK
<1>2. ASSUME n \notin seen, top - n <= WIDTH
      PROVE  Fresh(n)
  <2>1. CASE n > top
    BY <2>1 DEF Fresh
  <2>2. CASE n <= top
    <3>1. n # top
      BY <1>2, <2>2 DEF Nonce, WindowInv, TypeOK, TopIsHighest
    <3>2. top - n \notin mask
      BY <1>2 DEF Nonce, WindowInv, TypeOK, MaskMatchesHistory
    <3>. QED BY <1>2, <2>2, <3>1, <3>2 DEF Fresh, Nonce, WindowInv, TypeOK
  <2>. QED BY <2>1, <2>2 DEF Nonce, WindowInv, TypeOK
<1>3. ASSUME top - n > WIDTH
      PROVE  ~Fresh(n)
  BY <1>3 DEF Fresh, Nonce, WindowInv, TypeOK
<1>. QED BY <1>1, <1>2, <1>3

\* check_and_insert keeps the bitmap and the history in step.
LEMMA CheckAndInsertKeepsWindow ==
  ASSUME WindowInv, NEW n \in Nonce, CheckAndInsert(n)
  PROVE  /\ top' \in Nonce /\ mask' \subseteq 1 .. WIDTH /\ seen' \subseteq Nonce
         /\ TopIsHighest'
         /\ MaskMatchesHistory'
<1>. USE DEF WindowInv, TypeOK, Nonce
<1>1. top' \in Nonce /\ mask' \subseteq 1 .. WIDTH /\ seen' \subseteq Nonce
  <2>1. top' \in Nonce /\ seen' \subseteq Nonce
    BY DEF CheckAndInsert
  <2>2. Slide(n - top) \subseteq 1 .. WIDTH
    BY DEF Slide
  <2>3. Fresh(n) /\ n <= top => top - n \in 1 .. WIDTH
    BY DEF Fresh
  <2>4. MaskAfter(n) \subseteq 1 .. WIDTH
    <3>1. CASE top = -1 \/ n > top
      BY <2>2, <3>1 DEF MaskAfter
    <3>2. CASE n <= top /\ Fresh(n)
      <4>1. top - n \in 1 .. WIDTH
        BY <2>3, <3>2
      <4>2. MaskAfter(n) = mask \cup {top - n}
        BY <3>2 DEF MaskAfter
      <4>. QED BY <4>1, <4>2
    <3>3. CASE n <= top /\ ~Fresh(n)
      BY <3>3 DEF MaskAfter, Fresh
    <3>. QED BY <3>1, <3>2, <3>3
  <2>. QED BY <2>1, <2>4 DEF CheckAndInsert
<1>2. TopIsHighest'
  BY DEF CheckAndInsert, TopIsHighest, Fresh
<1>3. MaskMatchesHistory'
  <2>. SUFFICES ASSUME NEW d \in mask' \cup 1 .. (WIDTH - 1)
                PROVE  d \in mask' <=> (top' - d \in seen')
    BY DEF MaskMatchesHistory
  <2>0. d \in 1 .. WIDTH
    BY <1>1
  <2>1. CASE top = -1
    <3>1. seen = {}
      BY <2>1 DEF TopIsHighest
    <3>2. mask' = {} /\ top' = n
      BY <2>1 DEF CheckAndInsert, MaskAfter
    <3>3. seen' = {n}
      BY <2>1, <3>1 DEF CheckAndInsert, Fresh
    <3>. QED BY <2>0, <3>2, <3>3
  <2>2. CASE top # -1 /\ n > top /\ n - top >= WIDTH
    <3>1. mask' = {} /\ top' = n /\ seen' = seen \cup {n}
      BY <2>2 DEF CheckAndInsert, MaskAfter, Slide, Fresh
    <3>2. d <= WIDTH - 1 /\ n - d > top
      BY <2>2, <3>1
    <3>3. n - d \notin seen
      <4>. SUFFICES ASSUME n - d \in seen PROVE FALSE
        OBVIOUS
      <4>1. n - d <= top
        BY DEF TopIsHighest
      <4>. QED BY <4>1, <3>2, <2>0
    <3>. QED BY <2>0, <3>1, <3>3
  <2>3. CASE top # -1 /\ n > top /\ n - top < WIDTH
    <3>. DEFINE shift == n - top
    <3>1. mask' = {e \in 1 .. WIDTH : e = shift \/ e - shift \in mask}
      BY <2>3 DEF CheckAndInsert, MaskAfter, Slide, Fresh
    <3>2. top' = n /\ seen' = seen \cup {n}
      BY <2>3 DEF CheckAndInsert, Fresh
    <3>3. shift \in 1 .. (WIDTH - 1)
      BY <2>3
    <3>4. n - d \in seen' <=> n - d \in seen
      BY <2>0, <3>2
    <3>5. CASE d < shift
      <4>1. n - d > top
        BY <3>5, <3>3, <2>0, <2>3
      <4>2. n - d \notin seen
        BY <4>1, <2>0, <2>3 DEF TopIsHighest
      <4>3. d # shift /\ d - shift \notin mask
        BY <3>5, <3>3, <2>0
      <4>. QED BY <4>2, <4>3, <3>1, <3>2, <3>4
    <3>6. CASE d = shift
      <4>1. n - d = top /\ top \in seen
        BY <3>6, <2>3 DEF TopIsHighest
      <4>. QED BY <4>1, <3>6, <3>1, <3>2, <3>4, <2>0
    <3>7. CASE d > shift
      <4>1. d - shift \in 1 .. (WIDTH - 1) /\ n - d = top - (d - shift)
        BY <3>7, <3>3, <2>0, <2>3
      <4>2. d - shift \in mask <=> (top - (d - shift) \in seen)
        BY <4>1 DEF MaskMatchesHistory
      <4>3. d \in mask' <=> d - shift \in mask
        BY <3>1, <3>7, <2>0
      <4>. HIDE DEF shift
      <4>. QED BY <4>1, <4>2, <4>3, <3>2, <3>4
    <3>. QED BY <3>5, <3>6, <3>7, <3>3, <2>0
  <2>4. CASE n <= top
    <3>1. top' = top /\ top # -1
      BY <2>4 DEF CheckAndInsert
    <3>2. CASE Fresh(n)
      <4>1. mask' = mask \cup {top - n} /\ seen' = seen \cup {n}
        BY <2>4, <3>1, <3>2 DEF CheckAndInsert, MaskAfter
      <4>2. d = top - n <=> top - d = n
        BY <2>0, <3>1
      <4>3. CASE d = top - n
        BY <4>1, <4>2, <4>3, <3>1
      <4>4. CASE d # top - n
        <5>1. d \in mask \cup 1 .. (WIDTH - 1)
          BY <4>1, <4>4
        <5>2. d \in mask <=> (top - d \in seen)
          BY <5>1 DEF MaskMatchesHistory
        <5>. QED BY <5>2, <4>1, <4>2, <4>4, <3>1
      <4>. QED BY <4>3, <4>4
    <3>3. CASE ~Fresh(n)
      <4>1. mask' = mask /\ seen' = seen
        BY <2>4, <3>1, <3>3 DEF CheckAndInsert, MaskAfter
      <4>. QED BY <4>1, <3>1 DEF MaskMatchesHistory
    <3>. QED BY <3>2, <3>3
  <2>. QED BY <2>1, <2>2, <2>3, <2>4
<1>. QED BY <1>1, <1>2, <1>3

\* One step of either end keeps the inductive invariant.
LEMMA StepKeepsWindow == WindowInv /\ [Next]_vars => WindowInv'
<1>. SUFFICES ASSUME WindowInv, [Next]_vars
              PROVE  WindowInv'
  OBVIOUS
<1>1. CASE Encrypt
  BY <1>1 DEF Encrypt, WindowInv, TypeOK, TopIsHighest, MaskMatchesHistory,
              DeliveredWereRecorded, Nonce
<1>2. ASSUME NEW n \in Nonce, DecryptGenuine(n)
      PROVE  WindowInv'
  <2>1. CheckAndInsert(n)
    BY <1>2 DEF DecryptGenuine
  <2>2. TopIsHighest' /\ MaskMatchesHistory'
    BY <2>1, CheckAndInsertKeepsWindow
  <2>3. TypeOK'
    <3>1. deliveries' \in [Nonce -> Nat]
      BY <1>2 DEF DecryptGenuine, WindowInv, TypeOK
    <3>2. send_nonce' \in Nat
      BY <1>2 DEF DecryptGenuine, WindowInv, TypeOK
    <3>. QED BY <2>1, <3>1, <3>2, CheckAndInsertKeepsWindow DEF TypeOK
  <2>4. DeliveredWereRecorded'
    BY <1>2 DEF DecryptGenuine, CheckAndInsert, WindowInv, TypeOK,
                DeliveredWereRecorded
  <2>. QED BY <2>2, <2>3, <2>4 DEF WindowInv
<1>3. ASSUME NEW n \in StrayNonce, DecryptStray(n)
      PROVE  WindowInv'
  <2>1. n \in Nonce /\ CheckAndInsert(n)
    BY <1>3 DEF DecryptStray
  <2>2. TopIsHighest' /\ MaskMatchesHistory'
    BY <2>1, CheckAndInsertKeepsWindow
  <2>3. TypeOK'
    BY <1>3, <2>1, CheckAndInsertKeepsWindow DEF DecryptStray, WindowInv, TypeOK
  <2>4. DeliveredWereRecorded'
    BY <1>3 DEF DecryptStray, CheckAndInsert, WindowInv, TypeOK,
                DeliveredWereRecorded
  <2>. QED BY <2>2, <2>3, <2>4 DEF WindowInv
<1>4. CASE UNCHANGED vars
  BY <1>4 DEF vars, WindowInv, TypeOK, TopIsHighest, MaskMatchesHistory,
              DeliveredWereRecorded
<1>. QED BY <1>1, <1>2, <1>3, <1>4 DEF Next

\* The bitmap always agrees with the history where it claims to remember it
\* (NonceWindow, noise.rs:37-43).
THEOREM WindowInvariant == Spec => []WindowInv
<1>1. Init => WindowInv
  BY DEF Init, WindowInv, TypeOK, TopIsHighest, MaskMatchesHistory,
         DeliveredWereRecorded, Nonce
<1>. QED BY <1>1, StepKeepsWindow, PTL DEF Spec

\* A late datagram that is still inside the window is never refused
\* (noise.rs:73-84).
THEOREM LateDatagramsAccepted == Spec => []LateIsNotLost
<1>1. WindowInv => LateIsNotLost
  BY FreshnessIsExact DEF LateIsNotLost
<1>. QED BY <1>1, WindowInvariant, PTL

\* Nothing less than WIDTH behind the highest nonce is decrypted twice
\* (noise.rs:46-86, 289-332).
THEOREM ReplaysRefused == Spec => NoReplayInsideWindow
<1>1. WindowInv /\ [Next]_vars =>
        [\A n \in Nonce :
           deliveries[n] > 0 /\ top - n < WIDTH => deliveries'[n] = deliveries[n]]_vars
  <2>. SUFFICES ASSUME WindowInv, Next, NEW n \in Nonce,
                       deliveries[n] > 0, top - n < WIDTH
                PROVE  deliveries'[n] = deliveries[n]
    OBVIOUS
  <2>1. ~Fresh(n)
    BY FreshnessIsExact DEF WindowInv, DeliveredWereRecorded
  <2>2. CASE \E m \in Nonce : DecryptGenuine(m)
    BY <2>1, <2>2 DEF DecryptGenuine, WindowInv, TypeOK
  <2>3. CASE Encrypt \/ \E m \in StrayNonce : DecryptStray(m)
    BY <2>3 DEF Encrypt, DecryptStray
  <2>. QED BY <2>2, <2>3 DEF Next
<1>. QED BY <1>1, WindowInvariant, PTL DEF Spec, NoReplayInsideWindow

\* The 128-bit window implements the filter that remembers every nonce
\* (noise.rs:29-35).
THEOREM WindowImplementsFilter == Spec => ImplementsFilter
<1>1. Init => Filter!FilterInit
  BY DEF Init, Filter!FilterInit, Filter!Nonce, Nonce
<1>2. WindowInv /\ [Next]_vars => [Filter!FilterNext]_(Filter!filterVars)
  <2>. SUFFICES ASSUME WindowInv, Next
                PROVE  Filter!FilterNext
    BY DEF vars, Filter!filterVars
  <2>1. CASE Encrypt
    BY <2>1 DEF Encrypt, Filter!FilterNext, Filter!Send, Filter!Nonce, Nonce
  <2>2. ASSUME NEW n \in Nonce
        PROVE  Filter!Promised(n, Fresh(n)) /\ Fresh(n) \in BOOLEAN
    BY FreshnessIsExact DEF Filter!Promised, Fresh, WindowInv, TypeOK, Nonce
  <2>3. ASSUME NEW n \in Nonce, DecryptGenuine(n)
        PROVE  Filter!FilterNext
    BY <2>2, <2>3 DEF DecryptGenuine, CheckAndInsert, Filter!FilterNext,
                      Filter!Arrive, Filter!Nonce, Nonce
  <2>4. ASSUME NEW n \in StrayNonce, DecryptStray(n)
        PROVE  Filter!FilterNext
    BY <2>2, <2>4 DEF DecryptStray, CheckAndInsert, Filter!FilterNext,
                      Filter!Arrive, Filter!Nonce, Nonce
  <2>. QED BY <2>1, <2>3, <2>4 DEF Next
<1>. QED BY <1>1, <1>2, WindowInvariant, PTL
         DEF Spec, ImplementsFilter, Filter!FilterSpec
=============================================================================
