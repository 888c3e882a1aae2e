------------------------------ MODULE DpdkProofs ------------------------------
(***************************************************************************)
(* Proofs about the DPDK bindings, for every number of cores, buffers and  *)
(* handles: what dpdk.init sets up fits the cores (ConfInv), and buffers   *)
(* are conserved (BufInv).                                                 *)
(***************************************************************************)
EXTENDS Dpdk, FiniteSetTheorems, TLAPS

-----------------------------------------------------------------------------
(* The mask. *)

\* The bits of a digit with k ones at its low end.
LEMMA Digit ==
    ASSUME NEW k \in 1 .. 4, NEW x \in 0 .. 3
    PROVE  ((2^k - 1) \div 2^x) % 2 = 1 <=> x < k
<1>1. /\ 2^0 = 1 /\ 2^1 = 2 /\ 2^2 = 4 /\ 2^3 = 8 /\ 2^4 = 16
      /\ 2^1 - 1 = 1 /\ 2^2 - 1 = 3 /\ 2^3 - 1 = 7 /\ 2^4 - 1 = 15
  OBVIOUS
<1>2. PICK p \in {1, 3, 7, 15} : /\ 2^k - 1 = p
                                 /\ k = 1 <=> p = 1
                                 /\ k = 2 <=> p = 3
                                 /\ k = 3 <=> p = 7
                                 /\ k = 4 <=> p = 15
  <2>1. (k = 1 /\ 2^k - 1 = 1) \/ (k = 2 /\ 2^k - 1 = 3) \/ (k = 3 /\ 2^k - 1 = 7)
        \/ (k = 4 /\ 2^k - 1 = 15)
    <3>1. k = 1 \/ k = 2 \/ k = 3 \/ k = 4
      OBVIOUS
    <3> QED BY <1>1, <3>1, Zenon
  <2> QED BY <2>1
<1>3. CASE x = 0
  <2>1. (p \div 1) % 2 = 1
    OBVIOUS
  <2> QED BY <1>1, <1>2, <1>3, <2>1
<1>4. CASE x = 1
  <2>1. (p \div 2) % 2 = 1 <=> p # 1
    OBVIOUS
  <2> QED BY <1>1, <1>2, <1>4, <2>1
<1>5. CASE x = 2
  <2>1. (p \div 4) % 2 = 1 <=> p \in {7, 15}
    OBVIOUS
  <2> QED BY <1>1, <1>2, <1>5, <2>1
<1>6. CASE x = 3
  <2>1. (p \div 8) % 2 = 1 <=> p = 15
    OBVIOUS
  <2> QED BY <1>1, <1>2, <1>6, <2>1
<1> QED BY <1>3, <1>4, <1>5, <1>6

\* The digits of core_mask_conv: all are full but the first, which has n % 4
\* ones unless that is 0.
LEMMA Digits ==
    ASSUME NEW n \in Nat, n >= 1
    PROVE  LET r == core_mask_conv(n)
               k == IF n % 4 = 0 THEN 4 ELSE n % 4
           IN  /\ Len(r) \in Nat /\ 1 <= Len(r) /\ 4 * (Len(r) - 1) + k = n
               /\ r[1] = 2^k - 1
               /\ \A d \in 2 .. Len(r) : r[d] = 2^4 - 1
<1> DEFINE j == n \div 4
           s == [d \in 1 .. j |-> 15]
           r == core_mask_conv(n)
<1>1. j \in Nat /\ n = 4 * j + (n % 4) /\ n % 4 \in 0 .. 3
  OBVIOUS
<1>2. s \in Seq(Int) /\ Len(s) = j /\ \A d \in 1 .. j : s[d] = 15
  BY <1>1
<1>3. 2^4 - 1 = 15
  OBVIOUS
<1>4. CASE n % 4 = 0
  <2>1. r = <<>> \o s
    BY <1>4 DEF core_mask_conv
  <2> HIDE DEF s, j, r
  <2>2. r = s
    BY <1>2, <2>1
  <2> QED BY <1>1, <1>2, <1>3, <1>4, <2>2 DEF r
<1>5. CASE n % 4 # 0
  <2> DEFINE u == 2^(n % 4) - 1
  <2>1. r = <<u>> \o s
    BY <1>5 DEF core_mask_conv
  <2>2. u \in Int
    <3>1. n % 4 = 1 \/ n % 4 = 2 \/ n % 4 = 3
      BY <1>1, <1>5
    <3> QED BY <3>1
  <2> HIDE DEF s, j, r, u
  <2>3. Len(<<u>>) = 1 /\ <<u>> \in Seq(Int) /\ <<u>>[1] = u
    BY <2>2
  <2>4. Len(r) = 1 + j /\ r[1] = u /\ \A d \in 2 .. Len(r) : r[d] = s[d - 1]
    BY <1>1, <1>2, <2>1, <2>3
  <2> QED BY <1>1, <1>2, <1>3, <1>5, <2>4 DEF r, u
<1> QED BY <1>4, <1>5

\* The digits select n cores.
LEMMA MaskOf ==
    ASSUME NEW n \in Nat, n >= 1
    PROVE  CoresOf(core_mask_conv(n)) = 0 .. n - 1
<1> DEFINE r == core_mask_conv(n)
           k == IF n % 4 = 0 THEN 4 ELSE n % 4
           l == Len(r)
<1>1. /\ l \in Nat /\ 1 <= l /\ 4 * (l - 1) + k = n
      /\ r[1] = 2^k - 1
      /\ \A d \in 2 .. l : r[d] = 2^4 - 1
  BY Digits
<1>2. k \in 1 .. 4
  OBVIOUS
<1>3. CoresOf(r) = UNION {{4 * (l - d) + b : b \in {x \in 0 .. 3 : (r[d] \div 2^x) % 2 = 1}} :
                            d \in 1 .. l}
  BY DEF CoresOf
<1> HIDE DEF r, k, l
<1>4. \A v : v \in CoresOf(r) <=>
         \E d \in 1 .. l, b \in 0 .. 3 : (r[d] \div 2^b) % 2 = 1 /\ v = 4 * (l - d) + b
  <2> DEFINE On(d) == {x \in 0 .. 3 : (r[d] \div 2^x) % 2 = 1}
             Of(d) == {4 * (l - d) + b : b \in On(d)}
  <2>1. CoresOf(r) = UNION {Of(d) : d \in 1 .. l}
    BY <1>3
  <2>2. ASSUME NEW v, NEW d
        PROVE  v \in Of(d) <=> \E b \in On(d) : v = 4 * (l - d) + b
    OBVIOUS
  <2>3. ASSUME NEW b, NEW d
        PROVE  b \in On(d) <=> b \in 0 .. 3 /\ (r[d] \div 2^b) % 2 = 1
    OBVIOUS
  <2> HIDE DEF On, Of
  <2>4. \A v : v \in CoresOf(r) <=> \E d \in 1 .. l : v \in Of(d)
    BY <2>1
  <2> SUFFICES ASSUME NEW v
               PROVE  v \in CoresOf(r) <=>
                        \E d \in 1 .. l, b \in 0 .. 3 :
                           (r[d] \div 2^b) % 2 = 1 /\ v = 4 * (l - d) + b
    OBVIOUS
  <2>5. v \in CoresOf(r) <=> \E d \in 1 .. l : \E b \in On(d) : v = 4 * (l - d) + b
    BY <2>2, <2>4
  <2> QED BY <2>3, <2>5
<1>5. \A d \in 1 .. l, b \in 0 .. 3 :
         (r[d] \div 2^b) % 2 = 1 <=> (d = 1 => b < k)
  <2> SUFFICES ASSUME NEW d \in 1 .. l, NEW b \in 0 .. 3
               PROVE  (r[d] \div 2^b) % 2 = 1 <=> (d = 1 => b < k)
    OBVIOUS
  <2>1. CASE d = 1
    BY <1>1, <1>2, <2>1, Digit
  <2>2. CASE d # 1
    <3>1. r[d] = 2^4 - 1 /\ b < 4
      BY <1>1, <2>2
    <3>2. ((2^4 - 1) \div 2^b) % 2 = 1 <=> b < 4
      <4>1. 4 \in 1 .. 4
        OBVIOUS
      <4> QED BY <4>1, Digit
    <3> QED BY <2>2, <3>1, <3>2
  <2> QED BY <2>1, <2>2
<1>6. ASSUME NEW v \in CoresOf(r) PROVE v \in 0 .. n - 1
  <2>1. PICK d \in 1 .. l, b \in 0 .. 3 : (d = 1 => b < k) /\ v = 4 * (l - d) + b
    BY <1>4, <1>5
  <2> QED BY <1>1, <1>2, <2>1
<1>7. ASSUME NEW v \in 0 .. n - 1 PROVE v \in CoresOf(r)
  <2> DEFINE d == l - (v \div 4)
             b == v % 4
  <2>1. d \in 1 .. l /\ b \in 0 .. 3 /\ v = 4 * (l - d) + b /\ (d = 1 => b < k)
    BY <1>1, <1>2
  <2> HIDE DEF d, b
  <2> QED BY <1>4, <1>5, <2>1
<1> QED BY <1>6, <1>7 DEF r

-----------------------------------------------------------------------------
(* What dpdk.init leaves when it succeeds, which nothing changes later: not  *)
(* even a second dpdk.init, though it writes over saved_core_mask.           *)

ConfInv ==
    up => /\ eal
          /\ \E n \in 2 .. 128 :
               eal_mask = core_mask_conv(n) /\ rings = n - 1 /\ queue_id = CoreTable(n)

LEMMA ConfStep == ASSUME ConfInv, [Next]_vars PROVE ConfInv'
<1>1. ASSUME NEW n \in NCores, NEW step, InitFails(n, step) PROVE ConfInv'
  BY <1>1 DEF InitFails, ConfInv
<1>2. ASSUME NEW n \in NCores, InitDone(n) PROVE ConfInv'
  BY <1>2, DpdkAssumption DEF InitDone, ValidCores, ConfInv
<1>3. ASSUME UNCHANGED confVars PROVE ConfInv'
  BY <1>3 DEF confVars, ConfInv
<1>4. ASSUME NEW c \in Slaves, NEW h \in Handles, Script(c, h) PROVE UNCHANGED confVars
  BY <1>4 DEF Script, Get, Send, UseNull, Gc
<1>5. ASSUME NEW e \in tx, Transmitted(e) PROVE UNCHANGED confVars
  BY <1>5 DEF Transmitted
<1>6. CASE UNCHANGED vars
  BY <1>3, <1>6 DEF vars
<1> QED BY <1>1, <1>2, <1>3, <1>4, <1>5, <1>6 DEF Next

THEOREM ConfInvariant == Spec => []ConfInv
<1>1. Init => ConfInv
  BY DEF Init, ConfInv
<1>2. ConfInv /\ [Next]_vars => ConfInv'
  BY ConfStep
<1> QED BY <1>1, <1>2, PTL DEF Spec

\* DPDK runs with exactly the cores 0 .. ncore-1, for every number of cores that
\* ldpdk_init accepts, and whatever the other calls of dpdk.init did.
THEOREM MaskIsExact == Spec => []MaskExact
<1>1. ConfInv => MaskExact
  <2> SUFFICES ASSUME ConfInv, up PROVE CoresOf(eal_mask) = 0 .. rings
    BY DEF MaskExact
  <2>1. PICK n \in 2 .. 128 : eal_mask = core_mask_conv(n) /\ rings = n - 1
    BY DEF ConfInv
  <2> QED BY <2>1, MaskOf
<1> QED BY <1>1, ConfInvariant, PTL

\* The eight bits of queue_id are enough: no two cores share a queue.
THEOREM QueueIsPerCore == Spec => []QueuePerCore
<1>1. ConfInv => QueuePerCore
  <2> SUFFICES ASSUME ConfInv, up
               PROVE  /\ \A c \in 1 .. rings : queue_id[c] < rings
                      /\ \A c, d \in 1 .. rings : queue_id[c] = queue_id[d] => c = d
    BY DEF QueuePerCore
  <2>1. PICK n \in 2 .. 128 : rings = n - 1 /\ queue_id = CoreTable(n)
    BY DEF ConfInv
  <2>2. \A c \in 1 .. rings : queue_id[c] = c - 1
    <3> SUFFICES ASSUME NEW c \in 1 .. rings PROVE queue_id[c] = c - 1
      OBVIOUS
    <3>1. queue_id[c] = (c - 1) % 256 /\ c - 1 \in 0 .. 255
      BY <2>1 DEF CoreTable
    <3> QED BY <3>1
  <2> QED BY <2>1, <2>2
<1> QED BY <1>1, ConfInvariant, PTL

-----------------------------------------------------------------------------
(***************************************************************************)
(* Buffers.  A handle that does not exist, or whose send has failed, has   *)
(* no pointer; the rings and the sets of owners stay finite, whatever the  *)
(* sets of buffers and handles are.                                        *)
(***************************************************************************)
BufTypeOK ==
    /\ pool \in [Mbufs -> Nat]
    /\ \A e \in tx : e[3] \in Mbufs
    /\ IsFiniteSet(tx)
    /\ core \in [Handles -> Slaves \cup {0}]
    /\ mbuf \in [Handles -> Mbufs \cup {None}]
    /\ sent \in [Handles -> BOOLEAN]
    /\ extra \in [Mbufs -> Nat]
    /\ \A m \in Mbufs : IsFiniteSet(Owners(m))

Pointers ==
    \A h \in Handles : /\ core[h] = 0 => mbuf[h] = None
                       /\ mbuf[h] = None => ~sent[h]

Idle == ~up => tx = {} /\ extra = [m \in Mbufs |-> 0] /\ mbuf = [h \in Handles |-> None]

Conserved(m) ==
    pool[m] + Cardinality(InFlight(m)) + Cardinality(Owners(m)) = 1 + extra[m]

BufInv == BufTypeOK /\ Pointers /\ Idle /\ (up => \A m \in Mbufs : Conserved(m))

bit(b) == IF b THEN 1 ELSE 0

LEMMA Sizes ==
    ASSUME BufTypeOK, NEW m \in Mbufs
    PROVE  /\ IsFiniteSet(InFlight(m)) /\ Cardinality(InFlight(m)) \in Nat
           /\ IsFiniteSet(Owners(m)) /\ Cardinality(Owners(m)) \in Nat
           /\ pool[m] \in Nat /\ extra[m] \in Nat
<1>1. IsFiniteSet(InFlight(m)) /\ IsFiniteSet(Owners(m))
  BY FS_Subset DEF BufTypeOK, InFlight
<1> QED BY <1>1, FS_CardinalityType DEF BufTypeOK

LEMMA SizesNext ==
    ASSUME BufTypeOK', NEW m \in Mbufs
    PROVE  /\ Cardinality(InFlight(m)') \in Nat /\ Cardinality(Owners(m)') \in Nat
           /\ pool'[m] \in Nat
<1>1. IsFiniteSet(InFlight(m)') /\ IsFiniteSet(Owners(m)')
  BY FS_Subset DEF BufTypeOK, InFlight
<1> QED BY <1>1, FS_CardinalityType DEF BufTypeOK

\* A step about the handle h changes only h's part in the owners.
LEMMA OwnersStep ==
    ASSUME BufTypeOK, NEW h \in Handles, NEW m \in Mbufs,
           \A g \in Handles \ {h} : mbuf'[g] = mbuf[g] /\ sent'[g] = sent[g]
    PROVE  /\ IsFiniteSet(Owners(m)')
           /\ Cardinality(Owners(m)') + bit(h \in Owners(m))
                = Cardinality(Owners(m)) + bit(h \in Owners(m)')
<1> DEFINE a == Owners(m)
           b == Owners(m)'
<1>1. a \ {h} = b \ {h}
  BY DEF Owners
<1>2. IsFiniteSet(a) /\ Cardinality(a) \in Nat
  BY Sizes
<1> HIDE DEF a, b
<1>3. IsFiniteSet(b)
  <2>1. b \subseteq a \cup {h}
    BY <1>1
  <2>2. IsFiniteSet(a \cup {h})
    BY <1>2, FS_AddElement
  <2> QED BY <2>1, <2>2, FS_Subset
<1>4. Cardinality(b) \in Nat
  BY <1>3, FS_CardinalityType
<1>5. /\ Cardinality(a \ {h}) = IF h \in a THEN Cardinality(a) - 1 ELSE Cardinality(a)
      /\ Cardinality(b \ {h}) = IF h \in b THEN Cardinality(b) - 1 ELSE Cardinality(b)
  BY <1>2, <1>3, FS_RemoveElement
<1>6. Cardinality(b) + bit(h \in a) = Cardinality(a) + bit(h \in b)
  BY <1>1, <1>2, <1>4, <1>5 DEF bit
<1> QED BY <1>3, <1>6 DEF a, b

\* A descriptor is taken.
LEMMA RingAdd ==
    ASSUME BufTypeOK, NEW m \in Mbufs, NEW e, e \notin tx, tx' = tx \cup {e}
    PROVE  /\ IsFiniteSet(tx')
           /\ Cardinality(InFlight(m)') = Cardinality(InFlight(m)) + bit(e[3] = m)
<1>1. IsFiniteSet(tx')
  BY FS_AddElement DEF BufTypeOK
<1>2. InFlight(m)' = IF e[3] = m THEN InFlight(m) \cup {e} ELSE InFlight(m)
  BY DEF InFlight
<1>3. e \notin InFlight(m)
  BY DEF InFlight
<1>4. Cardinality(InFlight(m) \cup {e}) = Cardinality(InFlight(m)) + 1
  BY <1>3, Sizes, FS_AddElement
<1> QED BY <1>1, <1>2, <1>4, Sizes DEF bit

\* A descriptor is given back.
LEMMA RingRemove ==
    ASSUME BufTypeOK, NEW m \in Mbufs, NEW e \in tx, tx' = tx \ {e}
    PROVE  /\ IsFiniteSet(tx')
           /\ Cardinality(InFlight(m)') = Cardinality(InFlight(m)) - bit(e[3] = m)
<1>1. IsFiniteSet(tx')
  BY FS_RemoveElement DEF BufTypeOK
<1>2. InFlight(m)' = IF e[3] = m THEN InFlight(m) \ {e} ELSE InFlight(m)
  BY DEF InFlight
<1>3. e[3] = m => e \in InFlight(m)
  BY DEF InFlight
<1>4. e[3] = m => Cardinality(InFlight(m) \ {e}) = Cardinality(InFlight(m)) - 1
  BY <1>3, Sizes, FS_RemoveElement
<1> QED BY <1>1, <1>2, <1>4, Sizes DEF bit

\* dpdk.mbuf moves a copy from the pool to the handle.
LEMMA GetStep ==
    ASSUME BufInv, NEW c \in Slaves, NEW h \in Handles, NEW n \in Mbufs, Get(c, h, n)
    PROVE  BufInv'
<1>1. BufTypeOK /\ Pointers /\ up /\ \A m \in Mbufs : Conserved(m)
  BY DEF BufInv, Get, Runs
<1>2. /\ pool[n] > 0 /\ pool' = [pool EXCEPT ![n] = @ - 1] /\ core[h] = 0
      /\ core' = [core EXCEPT ![h] = c] /\ mbuf' = [mbuf EXCEPT ![h] = n]
      /\ sent' = [sent EXCEPT ![h] = FALSE] /\ UNCHANGED <<up, tx, extra>>
  BY DEF Get, confVars
<1>3. \A m \in Mbufs : IsFiniteSet(Owners(m)') /\
         Cardinality(Owners(m)') + bit(h \in Owners(m)) = Cardinality(Owners(m)) + bit(h \in Owners(m)')
  BY <1>1, <1>2, OwnersStep DEF BufTypeOK
<1>4. BufTypeOK'
  <2>1. pool' \in [Mbufs -> Nat]
    BY <1>1, <1>2 DEF BufTypeOK
  <2> QED BY <1>1, <1>2, <1>3, <2>1 DEF BufTypeOK
<1>5. Pointers'
  BY <1>1, <1>2, DpdkAssumption DEF Pointers, BufTypeOK
<1>6. ASSUME NEW m \in Mbufs PROVE Conserved(m)'
  <2>1. h \notin Owners(m) /\ (h \in Owners(m)' <=> m = n)
    BY <1>1, <1>2, DpdkAssumption DEF Owners, Pointers, BufTypeOK
  <2>2. Cardinality(Owners(m)') = Cardinality(Owners(m)) + bit(m = n)
    BY <1>1, <1>3, <1>4, <2>1, Sizes, SizesNext DEF bit
  <2>3. pool'[m] = pool[m] - bit(m = n) /\ extra'[m] = extra[m] /\ InFlight(m)' = InFlight(m)
    BY <1>1, <1>2 DEF BufTypeOK, InFlight, bit
  <2> QED BY <1>1, <2>2, <2>3, Sizes DEF Conserved, bit
<1> QED BY <1>1, <1>2, <1>4, <1>5, <1>6 DEF BufInv, Idle

\* CountStale counts the copies that a handle gives away after its send.
LEMMA StaleStep ==
    ASSUME BufInv, NEW h \in Handles, CountStale(h)
    PROVE  /\ extra' \in [Mbufs -> Nat]
           /\ \A m \in Mbufs : extra'[m] = extra[m] + bit(sent[h] /\ mbuf[h] = m)
<1>1. sent[h] => mbuf[h] \in Mbufs
  BY DEF BufInv, BufTypeOK, Pointers
<1>2. extra \in [Mbufs -> Nat] /\ sent[h] \in BOOLEAN
  BY DEF BufInv, BufTypeOK
<1>3. CASE sent[h]
  BY <1>1, <1>2, <1>3 DEF CountStale, bit
<1>4. CASE ~sent[h]
  BY <1>2, <1>4 DEF CountStale, bit
<1> QED BY <1>3, <1>4

\* A handle gives its buffer away, to a ring or to the pool: the copy is the
\* owner's, or else it is counted as extra.
LEMMA GiveStep ==
    ASSUME BufInv, up, up' = up, NEW h \in Handles, mbuf[h] # None, CountStale(h),
           core' \in [Handles -> Slaves \cup {0}], mbuf' \in [Handles -> Mbufs \cup {None}],
           sent' \in [Handles -> BOOLEAN], pool' \in [Mbufs -> Nat],
           \A g \in Handles \ {h} : mbuf'[g] = mbuf[g] /\ sent'[g] = sent[g] /\ core'[g] = core[g],
           core'[h] = 0 => mbuf'[h] = None,
           (mbuf'[h] = mbuf[h] /\ sent'[h]) \/ (mbuf'[h] = None /\ ~sent'[h]),
           IsFiniteSet(tx'), \A e \in tx' : e[3] \in Mbufs,
           \A m \in Mbufs : pool'[m] + Cardinality(InFlight(m)')
                               = pool[m] + Cardinality(InFlight(m)) + bit(mbuf[h] = m)
    PROVE  BufInv'
<1>1. BufTypeOK /\ Pointers /\ \A m \in Mbufs : Conserved(m)
  BY DEF BufInv
<1>2. \A m \in Mbufs : IsFiniteSet(Owners(m)') /\
         Cardinality(Owners(m)') + bit(h \in Owners(m)) = Cardinality(Owners(m)) + bit(h \in Owners(m)')
  BY <1>1, OwnersStep
<1>3. BufTypeOK'
  BY <1>2, StaleStep DEF BufTypeOK
<1>4. Pointers'
  <2>1. mbuf[h] \in Mbufs
    BY <1>1 DEF BufTypeOK
  <2> QED BY <1>1, <2>1, DpdkAssumption DEF Pointers
<1>5. ASSUME NEW m \in Mbufs PROVE Conserved(m)'
  <2>1. h \notin Owners(m)' /\ (h \in Owners(m) <=> mbuf[h] = m /\ ~sent[h])
    BY DpdkAssumption DEF Owners
  <2>2. /\ Cardinality(Owners(m)) \in Nat /\ Cardinality(Owners(m)') \in Nat
        /\ Cardinality(InFlight(m)) \in Nat /\ Cardinality(InFlight(m)') \in Nat
        /\ pool[m] \in Nat /\ extra[m] \in Nat /\ pool'[m] \in Nat
    BY <1>1, <1>3, Sizes, SizesNext
  <2>3. Cardinality(Owners(m)') = Cardinality(Owners(m)) - bit(mbuf[h] = m /\ ~sent[h])
    BY <1>2, <2>1, <2>2 DEF bit
  <2>4. extra'[m] = extra[m] + bit(sent[h] /\ mbuf[h] = m)
    BY StaleStep
  <2>5. pool'[m] + Cardinality(InFlight(m)')
          = pool[m] + Cardinality(InFlight(m)) + bit(mbuf[h] = m)
    OBVIOUS
  <2>6. pool[m] + Cardinality(InFlight(m)) + Cardinality(Owners(m)) = 1 + extra[m]
    BY <1>1 DEF Conserved
  <2>7. pool'[m] + Cardinality(InFlight(m)') + Cardinality(Owners(m)') = 1 + extra'[m]
    <3>1. sent[h] \in BOOLEAN
      BY <1>1 DEF BufTypeOK
    <3> QED BY <2>2, <2>3, <2>4, <2>5, <2>6, <3>1 DEF bit
  <2> QED BY <2>7 DEF Conserved
<1> QED BY <1>3, <1>4, <1>5 DEF BufInv, Idle

\* send and __gc give a buffer away, the device gives one back.
LEMMA BufStep == ASSUME BufInv, [Next]_vars PROVE BufInv'
<1> USE DEF BufInv
<1>1. ASSUME UNCHANGED <<up, bufVars>> PROVE BufInv'
  BY <1>1 DEF bufVars, BufTypeOK, Pointers, Idle, Conserved, Owners, InFlight
<1>2. ASSUME NEW n \in NCores, NEW step, InitFails(n, step) PROVE BufInv'
  BY <1>1, <1>2 DEF InitFails
<1>3. ASSUME NEW n \in NCores, InitDone(n) PROVE BufInv'
  <2>1. /\ ~up /\ up' /\ pool' = [m \in Mbufs |-> 1] /\ UNCHANGED <<tx, core, mbuf, sent, extra>>
    BY <1>3 DEF InitDone
  <2>2. tx = {} /\ extra = [m \in Mbufs |-> 0] /\ mbuf = [h \in Handles |-> None]
    BY <2>1 DEF Idle
  <2>3. BufTypeOK' /\ Pointers' /\ Idle'
    BY <2>1, <2>2 DEF BufTypeOK, Pointers, Idle, Owners
  <2>4. ASSUME NEW m \in Mbufs PROVE Conserved(m)'
    <3>1. InFlight(m)' = {} /\ Owners(m)' = {}
      BY <2>1, <2>2, DpdkAssumption DEF InFlight, Owners
    <3> QED BY <2>1, <2>2, <3>1, FS_EmptySet DEF Conserved
  <2> QED BY <2>3, <2>4
<1>4. ASSUME NEW c \in Slaves, NEW h \in Handles, Send(c, h, TRUE) PROVE BufInv'
  <2>1. /\ up /\ up' = up /\ core[h] = c /\ mbuf[h] # None /\ CountStale(h)
        /\ sent' = [sent EXCEPT ![h] = TRUE] /\ UNCHANGED <<pool, mbuf, core>>
    BY <1>4 DEF Send, Has, Runs, confVars
  <2>2. PICK d \in FreeDescriptors(queue_id[c]) : tx' = tx \cup {<<queue_id[c], d, mbuf[h]>>}
    BY <1>4 DEF Send
  <2> DEFINE e == <<queue_id[c], d, mbuf[h]>>
  <2>3. e \notin tx /\ e[3] = mbuf[h] /\ mbuf[h] \in Mbufs
    BY <2>1, <2>2 DEF FreeDescriptors, BufTypeOK
  <2>4. tx' = tx \cup {e}
    BY <2>2
  <2> HIDE DEF e
  <2>5. /\ IsFiniteSet(tx') /\ \A x \in tx' : x[3] \in Mbufs
        /\ \A m \in Mbufs : Cardinality(InFlight(m)') = Cardinality(InFlight(m)) + bit(mbuf[h] = m)
    BY <2>3, <2>4, RingAdd DEF BufTypeOK
  <2>6. \A m \in Mbufs : pool'[m] + Cardinality(InFlight(m)')
                              = pool[m] + Cardinality(InFlight(m)) + bit(mbuf[h] = m)
    BY <2>1, <2>5, Sizes DEF bit
  <2>7. core[h] # 0
    BY <2>1, DpdkAssumption
  <2>8. /\ core' \in [Handles -> Slaves \cup {0}] /\ mbuf' \in [Handles -> Mbufs \cup {None}]
        /\ sent' \in [Handles -> BOOLEAN] /\ pool' \in [Mbufs -> Nat] /\ sent'[h]
        /\ \A g \in Handles \ {h} : mbuf'[g] = mbuf[g] /\ sent'[g] = sent[g] /\ core'[g] = core[g]
    BY <2>1 DEF BufTypeOK
  <2> QED BY <2>1, <2>5, <2>6, <2>7, <2>8, GiveStep
<1>5. ASSUME NEW c \in Slaves, NEW h \in Handles, mbuf[h] # None, Send(c, h, FALSE) \/ Gc(c, h)
      PROVE  BufInv'
  <2>1. /\ up /\ up' = up /\ CountStale(h) /\ UNCHANGED tx
        /\ sent' = [sent EXCEPT ![h] = FALSE] /\ mbuf' = [mbuf EXCEPT ![h] = None]
        /\ core' \in {core, [core EXCEPT ![h] = 0]} /\ pool' = [pool EXCEPT ![mbuf[h]] = @ + 1]
    BY <1>5 DEF Send, Gc, Has, Runs, confVars
  <2>2. mbuf[h] \in Mbufs
    BY <1>5 DEF BufTypeOK
  <2>3. \A m \in Mbufs : pool'[m] + Cardinality(InFlight(m)')
                              = pool[m] + Cardinality(InFlight(m)) + bit(mbuf[h] = m)
    <3> SUFFICES ASSUME NEW m \in Mbufs
                 PROVE  pool'[m] + Cardinality(InFlight(m)')
                              = pool[m] + Cardinality(InFlight(m)) + bit(mbuf[h] = m)
      OBVIOUS
    <3>1. InFlight(m)' = InFlight(m)
      BY <2>1 DEF InFlight
    <3>2. pool'[m] = pool[m] + bit(mbuf[h] = m)
      BY <2>1, <2>2 DEF BufTypeOK, bit
    <3> QED BY <3>1, <3>2, Sizes DEF bit
  <2>4. /\ core' \in [Handles -> Slaves \cup {0}] /\ mbuf' \in [Handles -> Mbufs \cup {None}]
        /\ sent' \in [Handles -> BOOLEAN] /\ pool' \in [Mbufs -> Nat]
        /\ ~sent'[h] /\ mbuf'[h] = None
        /\ \A g \in Handles \ {h} : mbuf'[g] = mbuf[g] /\ sent'[g] = sent[g] /\ core'[g] = core[g]
    BY <2>1, <2>2 DEF BufTypeOK
  <2>5. IsFiniteSet(tx') /\ \A x \in tx' : x[3] \in Mbufs
    BY <2>1 DEF BufTypeOK
  <2> QED BY <1>5, <2>1, <2>3, <2>4, <2>5, GiveStep
<1>6. ASSUME NEW c \in Slaves, NEW h \in Handles, mbuf[h] = None, Gc(c, h) PROVE BufInv'
  <2>1. /\ ~sent[h] /\ UNCHANGED <<up, tx, pool, extra>>
        /\ core' = [core EXCEPT ![h] = 0]
        /\ mbuf' = [mbuf EXCEPT ![h] = None] /\ sent' = [sent EXCEPT ![h] = FALSE]
    BY <1>6 DEF Gc, CountStale, Pointers, confVars
  <2>2. mbuf' = mbuf /\ sent' = sent
    BY <1>6, <2>1 DEF BufTypeOK
  <2>3. \A m \in Mbufs : Owners(m)' = Owners(m) /\ InFlight(m)' = InFlight(m)
    BY <2>1, <2>2 DEF Owners, InFlight
  <2>4. BufTypeOK'
    BY <2>1, <2>2, <2>3 DEF BufTypeOK
  <2>5. Pointers' /\ Idle'
    BY <1>6, <2>1, <2>2 DEF Pointers, Idle, BufTypeOK
  <2> QED BY <2>1, <2>3, <2>4, <2>5 DEF Conserved
<1>7. ASSUME NEW e \in tx, Transmitted(e) PROVE BufInv'
  <2>1. /\ tx' = tx \ {e} /\ pool' = [pool EXCEPT ![e[3]] = @ + 1] /\ e[3] \in Mbufs
        /\ UNCHANGED <<up, core, mbuf, sent, extra>>
    BY <1>7 DEF Transmitted, confVars, BufTypeOK
  <2>2. up
    BY DEF Idle
  <2>3. ASSUME NEW m \in Mbufs
        PROVE  /\ IsFiniteSet(tx') /\ Owners(m)' = Owners(m)
               /\ Cardinality(InFlight(m)') = Cardinality(InFlight(m)) - bit(e[3] = m)
               /\ pool'[m] = pool[m] + bit(e[3] = m)
    <3>1. pool'[m] = pool[m] + bit(e[3] = m) /\ Owners(m)' = Owners(m)
      BY <2>1 DEF BufTypeOK, bit, Owners
    <3> QED BY <2>1, <3>1, RingRemove
  <2>4. BufTypeOK' /\ Pointers' /\ Idle'
    <3>1. IsFiniteSet(tx')
      BY <2>1, <2>3
    <3> QED BY <2>1, <2>2, <2>3, <3>1 DEF BufTypeOK, Pointers, Idle
  <2>5. ASSUME NEW m \in Mbufs PROVE Conserved(m)'
    BY <2>1, <2>2, <2>3, Sizes DEF Conserved, bit
  <2> QED BY <2>4, <2>5
<1>8. ASSUME NEW c \in Slaves, NEW h \in Handles, Script(c, h) PROVE BufInv'
  <2>1. CASE UseNull(c, h)
    BY <1>1, <2>1 DEF UseNull, confVars
  <2>2. CASE Gc(c, h)
    BY <1>5, <1>6, <2>2
  <2>3. ASSUME NEW ok \in BOOLEAN, Send(c, h, ok) PROVE BufInv'
    <3>1. CASE ok = TRUE
      BY <1>4, <2>3, <3>1
    <3>2. CASE ok = FALSE
      <4>1. mbuf[h] # None /\ Send(c, h, FALSE)
        BY <2>3, <3>2 DEF Send
      <4> QED BY <1>5, <4>1
    <3> QED BY <3>1, <3>2
  <2>4. ASSUME NEW m \in Mbufs, Get(c, h, m) PROVE BufInv'
    BY <2>4, GetStep
  <2> QED BY <1>8, <2>1, <2>2, <2>3, <2>4 DEF Script
<1>9. CASE UNCHANGED vars
  BY <1>1, <1>9 DEF vars, confVars
<1> QED BY <1>2, <1>3, <1>7, <1>8, <1>9 DEF Next

\* get, send, __gc and the device neither lose nor make buffers; only the use
\* of a handle after its send makes a copy, one each.
THEOREM BuffersAreConserved == Spec => []BuffersConserved
<1>1. Init => BufInv
  <2> SUFFICES ASSUME Init PROVE BufInv
    OBVIOUS
  <2>1. \A m \in Mbufs : Owners(m) = {}
    BY DpdkAssumption DEF Init, Owners
  <2>2. IsFiniteSet({})
    BY FS_EmptySet
  <2> QED BY <2>1, <2>2 DEF Init, BufInv, BufTypeOK, Pointers, Idle
<1>2. BufInv /\ [Next]_vars => BufInv'
  BY BufStep
<1>3. BufInv => BuffersConserved
  BY DEF BufInv, Conserved, BuffersConserved
<1> QED BY <1>1, <1>2, <1>3, PTL DEF Spec
=============================================================================
