--------------------------------- MODULE Msec ---------------------------------
(***************************************************************************)
(* The timer's time values (event_timer.h, rbtree.h): msec_t and           *)
(* rbtree_key are unsigned long, and two of them are compared by the sign  *)
(* of their difference as a long.                                          *)
(***************************************************************************)
EXTENDS Integers

CONSTANT KeyMod     \* 2^64

ASSUME KeyModAssumption == KeyMod \in Nat \ {0}

\* The low bits of x as a signed number of the same width.
Signed(x, mod) == LET r == x % mod IN IF 2 * r < mod THEN r ELSE r - mod

\* (msec_int_t) (a - b)
msec_int(a, b) == Signed(a - b, KeyMod)
=============================================================================
