-------------------------------- MODULE Dpdk --------------------------------
(***************************************************************************)
(* The DPDK bindings (ldpdk.c, lconf.c, lmbuf.c): the master core's        *)
(* dpdk.init sets up the ports and a table with a queue for every core;    *)
(* the scripts of the other cores get, fill, send and collect packet       *)
(* buffers.  DPDK itself is external: the pool counts the copies of a      *)
(* buffer and a ring has a descriptor for each, so that a buffer that is   *)
(* given away twice is in them twice.                                      *)
(***************************************************************************)
EXTENDS Integers, Sequences, FiniteSets, Null

CONSTANTS
    NCores,     \* the arguments of dpdk.init
    Slaves,     \* the cores, not 0, whose scripts run
    Mbufs,      \* the buffers of the pool, PKT_RX_NB in the code
    Handles,    \* userdata that scripts make
    RingSize,   \* nb_txd, the descriptors of a transmit ring
    MaxStale    \* bound: uses of handles whose buffer was sent

ASSUME DpdkAssumption ==
    /\ NCores \subseteq Int
    /\ Slaves \subseteq Nat \ {0}
    /\ None \notin Mbufs
    /\ RingSize \in Nat \ {0}
    /\ MaxStale \in Nat

VARIABLES
    eal,        \* rte_eal_init has been called with success
    up,         \* ldpdk_init has returned without an error
    mask,       \* saved_core_mask: the hexadecimal digits
    eal_mask,   \* history: the mask in the call of rte_eal_init that succeeded
    rings,      \* rx_rings, tx_rings: the queues that were set up
    queue_id,   \* queue_id of the entries of ldpdk_core_conf
    pool,       \* pool[m]: how often m is among the free buffers
    tx,         \* descriptors in use: queue, place in its ring, buffer
    core,       \* core[h]: whose script has h, 0 if h does not exist
    mbuf,       \* mbuf[h]: the pointer in h
    sent,       \* history: the buffer of h was sent
    extra,      \* history: extra[m]: how often a handle that no longer owned m
                \* gave m away again
    fault       \* a script has used a handle without a buffer

confVars == <<eal, up, mask, eal_mask, rings, queue_id>>
bufVars  == <<pool, tx, core, mbuf, sent, extra>>
vars     == <<confVars, bufVars, fault>>

TypeOK ==
    /\ eal \in BOOLEAN /\ up \in BOOLEAN /\ fault \in BOOLEAN
    /\ mask \in Seq(0 .. 15) /\ eal_mask \in Seq(0 .. 15)
    /\ rings \in 0 .. 2^16 - 1
    /\ \A c \in DOMAIN queue_id : queue_id[c] \in 0 .. 255
    /\ pool \in [Mbufs -> Nat]
    /\ tx \subseteq (0 .. 255) \X (1 .. RingSize) \X Mbufs
    /\ core \in [Handles -> Slaves \cup {0}]
    /\ mbuf \in [Handles -> Mbufs \cup {None}]
    /\ sent \in [Handles -> BOOLEAN]
    /\ extra \in [Mbufs -> 0 .. MaxStale]

\* rx_rings and tx_rings start as 32; the table is memory of zeros.
Init ==
    /\ eal = FALSE /\ up = FALSE /\ fault = FALSE
    /\ mask = <<>> /\ eal_mask = <<>>
    /\ rings = 32
    /\ queue_id = [c \in Slaves |-> 0]
    /\ pool = [m \in Mbufs |-> 0]
    /\ tx = {}
    /\ core = [h \in Handles |-> 0]
    /\ mbuf = [h \in Handles |-> None]
    /\ sent = [h \in Handles |-> FALSE]
    /\ extra = [m \in Mbufs |-> 0]

-----------------------------------------------------------------------------
(* ldpdk_init *)

ValidCores(n) == n >= 2 /\ n <= 128

\* Mutant of core_mask_conv: the digit is the remainder, not as many ones.
core_mask_conv_Count(n) ==
    (IF n % 4 = 0 THEN <<>> ELSE <<n % 4>>) \o [d \in 1 .. n \div 4 |-> 15]

\* A digit of n % 4 ones, unless it is 0, then 'f' for every four cores.
core_mask_conv(n) ==
    (IF n % 4 = 0 THEN <<>> ELSE <<2^(n % 4) - 1>>) \o [d \in 1 .. n \div 4 |-> 15]

\* Mutant of CoreTable: the queue has the number of the core.
CoreTableByCore(n) == [c \in 0 .. n |-> c % 256]

\* The table has an entry for core n too; queue_id is a uint8_t.
CoreTable(n) == [c \in 0 .. n |-> (c - 1) % 256]

(***************************************************************************)
(* dpdk.init, up to the step that fails.  rte_eal_init can be called once: *)
(* a call after it, also after a complete dpdk.init, gets no further than  *)
(* to it, and has written its mask over saved_core_mask by then.  A call   *)
(* that fails leaves what it has set.                                      *)
(***************************************************************************)
InitFails(n, step) ==
    /\ ~fault
    /\ step = "cores" <=> ~ValidCores(n)
    /\ eal => step \in {"cores", "eal"}
    /\ mask' = IF step = "cores" THEN mask ELSE core_mask_conv(n)
    /\ IF step \in {"pool", "port"}
       THEN eal' = TRUE /\ eal_mask' = mask' /\ rings' = n - 1
       ELSE UNCHANGED <<eal, eal_mask, rings>>
    /\ UNCHANGED <<up, queue_id, bufVars, fault>>

InitDone(n) ==
    /\ ~up /\ ~eal /\ ValidCores(n)
    /\ mask' = core_mask_conv(n) /\ eal_mask' = mask'
    /\ eal' = TRUE /\ up' = TRUE
    /\ rings' = n - 1
    /\ queue_id' = CoreTable(n)
    /\ pool' = [m \in Mbufs |-> 1]
    /\ UNCHANGED <<tx, core, mbuf, sent, extra, fault>>

-----------------------------------------------------------------------------
(* The calls of the cores' scripts; core c runs if it is in the mask. *)

Runs(c) == up /\ ~fault /\ c <= rings

\* dpdk.mbuf; with an empty pool it only raises an error.
Get(c, h, m) ==
    /\ Runs(c) /\ core[h] = 0
    /\ pool[m] > 0
    /\ pool' = [pool EXCEPT ![m] = @ - 1]
    /\ core' = [core EXCEPT ![h] = c]
    /\ mbuf' = [mbuf EXCEPT ![h] = m]
    /\ sent' = [sent EXCEPT ![h] = FALSE]
    /\ UNCHANGED <<confVars, tx, extra, fault>>

Has(c, h) == Runs(c) /\ core[h] = c

\* The buffer of h is given away once more although h does not own it.
CountStale(h) ==
    IF sent[h] THEN /\ extra[mbuf[h]] < MaxStale
                    /\ extra' = [extra EXCEPT ![mbuf[h]] = @ + 1]
    ELSE UNCHANGED extra

FreeDescriptors(q) == {d \in 1 .. RingSize : \A e \in tx : ~(e[1] = q /\ e[2] = d)}

\* set and send dereference the pointer of a handle whose send has failed.
UseNull(c, h) ==
    /\ Has(c, h) /\ mbuf[h] = None
    /\ fault' = TRUE
    /\ UNCHANGED <<confVars, bufVars>>

\* Mutant of Send: the handle of a packet that was not sent keeps its buffer.
SendKeepsBuffer(c, h, ok) ==
    /\ Has(c, h) /\ mbuf[h] # None
    /\ CountStale(h)
    /\ IF ok
       THEN /\ \E d \in FreeDescriptors(queue_id[c]) :
                    tx' = tx \cup {<<queue_id[c], d, mbuf[h]>>}
            /\ sent' = [sent EXCEPT ![h] = TRUE]
            /\ UNCHANGED <<pool, mbuf>>
       ELSE /\ pool' = [pool EXCEPT ![mbuf[h]] = @ + 1]
            /\ UNCHANGED <<tx, sent, mbuf>>
    /\ UNCHANGED <<confVars, core, fault>>

(***************************************************************************)
(* send: rte_eth_tx_burst takes the buffer over, and the handle keeps the  *)
(* pointer; or it does not, and the buffer is freed.                       *)
(***************************************************************************)
Send(c, h, ok) ==
    /\ Has(c, h) /\ mbuf[h] # None
    /\ CountStale(h)
    /\ IF ok
       THEN /\ \E d \in FreeDescriptors(queue_id[c]) :
                    tx' = tx \cup {<<queue_id[c], d, mbuf[h]>>}
            /\ sent' = [sent EXCEPT ![h] = TRUE]
            /\ UNCHANGED <<pool, mbuf>>
       ELSE /\ pool' = [pool EXCEPT ![mbuf[h]] = @ + 1]
            /\ mbuf' = [mbuf EXCEPT ![h] = None]
            /\ sent' = [sent EXCEPT ![h] = FALSE]
            /\ UNCHANGED tx
    /\ UNCHANGED <<confVars, core, fault>>

\* __gc frees the buffer the handle points to; alloc gives single segments.
Gc(c, h) ==
    /\ Has(c, h)
    /\ CountStale(h)
    /\ pool' = IF mbuf[h] = None THEN pool ELSE [pool EXCEPT ![mbuf[h]] = @ + 1]
    /\ core' = [core EXCEPT ![h] = 0]
    /\ mbuf' = [mbuf EXCEPT ![h] = None]
    /\ sent' = [sent EXCEPT ![h] = FALSE]
    /\ UNCHANGED <<confVars, tx, fault>>

\* The device has transmitted a buffer and gives it back.
Transmitted(e) ==
    /\ ~fault
    /\ tx' = tx \ {e}
    /\ pool' = [pool EXCEPT ![e[3]] = @ + 1]
    /\ UNCHANGED <<confVars, core, mbuf, sent, extra, fault>>

-----------------------------------------------------------------------------
Script(c, h) ==
    \/ \E m \in Mbufs : Get(c, h, m)
    \/ \E ok \in BOOLEAN : Send(c, h, ok)
    \/ UseNull(c, h)
    \/ Gc(c, h)

Next ==
    \/ \E n \in NCores : \/ \E step \in {"cores", "eal", "pool", "port"} : InitFails(n, step)
                         \/ InitDone(n)
    \/ \E c \in Slaves, h \in Handles : Script(c, h)
    \/ \E e \in tx : Transmitted(e)

Spec == Init /\ [][Next]_vars

-----------------------------------------------------------------------------
(***************************************************************************)
(* The mask DPDK runs with selects exactly the cores 0 .. ncore-1 that the *)
(* rings and the table were made for, whichever calls of dpdk.init failed  *)
(* before or came later: the digits of core_mask_conv stand for four cores *)
(* each, the last one for the lowest.                                      *)
(***************************************************************************)
CoresOf(digits) ==
    UNION {{4 * (Len(digits) - d) + b : b \in {x \in 0 .. 3 : (digits[d] \div 2^x) % 2 = 1}} :
              d \in 1 .. Len(digits)}

MaskExact == up => CoresOf(eal_mask) = 0 .. rings

(***************************************************************************)
(* rte_eth_tx_burst may not be called by two cores for one queue: every    *)
(* core but the master has a queue of its own, one that was set up.        *)
(***************************************************************************)
QueuePerCore ==
    up => /\ \A c \in 1 .. rings : queue_id[c] < rings
          /\ \A c, d \in 1 .. rings : queue_id[c] = queue_id[d] => c = d

(***************************************************************************)
(* Buffers are neither lost nor made: a buffer is in the pool, in a ring   *)
(* or with the one handle that owns it.  send leaves the pointer in the    *)
(* handle, and every later send or collection of it adds a copy, until two *)
(* handles may own one buffer; nothing else does.                          *)
(***************************************************************************)
Owners(m) == {h \in Handles : mbuf[h] = m /\ ~sent[h]}

InFlight(m) == {e \in tx : e[3] = m}

BuffersConserved ==
    up => \A m \in Mbufs :
        pool[m] + Cardinality(InFlight(m)) + Cardinality(Owners(m)) = 1 + extra[m]
=============================================================================
