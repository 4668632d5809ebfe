---------------------------- MODULE RollupLedger ----------------------------
(***************************************************************************)
(* What the rollup tiers of a series promise their readers: per tier, a    *)
(* ledger from bucket start to the total counted in that bucket.  Only the *)
(* newest bucket is open, and it only grows; a closed bucket never changes *)
(* until it is the oldest one past the tier's retention and is forgotten,  *)
(* or the whole series is cleared.                                         *)
(***************************************************************************)
EXTENDS Integers, FiniteSets

CONSTANTS
  Tier,      \* the rollup tiers
  Keep(_)    \* buckets a tier retains

VARIABLE ledger

Newest(t, b) == \A c \in DOMAIN ledger[t] : c <= b
Oldest(t, b) == \A c \in DOMAIN ledger[t] : b <= c

Set(t, f) == ledger' = [ledger EXCEPT ![t] = f]

\* A point lands in the open bucket, or opens the next one.
Fold(t, b, n) ==
  /\ Newest(t, b)
  /\ Set(t, [c \in DOMAIN ledger[t] \cup {b} |->
               IF c \notin DOMAIN ledger[t] THEN n
               ELSE IF c = b THEN ledger[t][c] + n ELSE ledger[t][c]])

Forget(t, b) ==
  /\ Cardinality(DOMAIN ledger[t]) > Keep(t)
  /\ b \in DOMAIN ledger[t] /\ Oldest(t, b)
  /\ Set(t, [c \in DOMAIN ledger[t] \ {b} |-> ledger[t][c]])

Wipe(t) == Set(t, [c \in {} |-> 0])

Init == ledger = [t \in Tier |-> [c \in {} |-> 0]]
=============================================================================
