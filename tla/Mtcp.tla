--------------------------------- MODULE Mtcp ---------------------------------
(***************************************************************************)
(* The mTCP stack of one core, an external library, as far as mtcp_lua     *)
(* sees it: socket ids, one connection per id, and one epoll set.  The     *)
(* stack runs in a thread of its own, so its steps come between any two    *)
(* steps of the application.                                               *)
(*                                                                         *)
(* Assumed of it: an event is raised when it becomes true and is returned  *)
(* once (MTCP_EPOLLET; Wget, which registers without it, adds what is      *)
(* still true); different kinds of event of one socket are queued apart,   *)
(* so one mtcp_epoll_wait may return several of them; errors are reported  *)
(* for every registered socket; registering raises what is already true;   *)
(* ADD fails on a registered id, MOD and DEL on one that is not;           *)
(* mtcp_close takes an id out of the epoll set and frees it for reuse.     *)
(***************************************************************************)
EXTENDS Integers, Null

CONSTANTS
    Fds,        \* socket ids
    MaxRx       \* bound: chunks of data waiting in one receive buffer

ASSUME StackAssumption == None \notin Fds /\ MaxRx \in Nat

VARIABLES
    st,         \* st[f]: state of the socket id
    own,        \* history: the object whose connect call created f
    rx,         \* chunks of data in the receive buffer
    eof,        \* the peer has closed its side
    reg,        \* the event registered with mtcp_epoll_ctl, or "off"
    ptr,        \* the event_t given with it
    ready       \* events waiting to be collected by mtcp_epoll_wait

epollVars == <<reg, ptr, ready>>
netVars   == <<st, own, rx, eof, epollVars>>

Kinds == {"in", "out", "err"}

\* "idle": created and not connected.  "failed": SO_ERROR is set.
StackTypeOK(Owners, Ptrs) ==
    /\ st \in [Fds -> {"free", "idle", "syn", "est", "failed"}]
    /\ own \in [Fds -> Owners \cup {None}]
    /\ rx \in [Fds -> Nat]
    /\ eof \in [Fds -> BOOLEAN]
    /\ reg \in [Fds -> {"off", "in", "out"}]
    /\ ptr \in [Fds -> Ptrs \cup {None}]
    /\ ready \subseteq Fds \X Kinds

StackInit ==
    /\ st = [f \in Fds |-> "free"]
    /\ own = [f \in Fds |-> None]
    /\ rx = [f \in Fds |-> 0]
    /\ eof = [f \in Fds |-> FALSE]
    /\ reg = [f \in Fds |-> "off"]
    /\ ptr = [f \in Fds |-> None]
    /\ ready = {}

-----------------------------------------------------------------------------
(* Calls of the application. *)

\* What is already true of the connection when it is registered.
PendingOn(f, kind) ==
    IF \/ kind = "out" /\ st[f] = "est"
       \/ kind = "in" /\ (rx[f] > 0 \/ eof[f])
    THEN {<<f, kind>>} ELSE {}

mtcp_epoll_register(f, kind, p) ==
    /\ reg' = [reg EXCEPT ![f] = kind]
    /\ ptr' = [ptr EXCEPT ![f] = p]
    /\ ready' = {e \in ready : e[1] = f => e[2] \in {"err", kind}} \cup PendingOn(f, kind)

mtcp_epoll_deregister(f) ==
    /\ reg' = [reg EXCEPT ![f] = "off"]
    /\ ptr' = [ptr EXCEPT ![f] = None]
    /\ ready' = {e \in ready : e[1] # f}

mtcp_close(f) ==
    /\ st' = [st EXCEPT ![f] = "free"]
    /\ own' = [own EXCEPT ![f] = None]
    /\ rx' = [rx EXCEPT ![f] = 0]
    /\ eof' = [eof EXCEPT ![f] = FALSE]
    /\ mtcp_epoll_deregister(f)

mtcp_socket(f, owner, state) ==
    /\ st[f] = "free"
    /\ st' = [st EXCEPT ![f] = state]
    /\ own' = [own EXCEPT ![f] = owner]
    /\ UNCHANGED <<rx, eof, epollVars>>

\* What mtcp_read reports once the receive buffer is empty.
Readable(f) == f # None /\ st[f] = "est"

AtEnd(f) == IF ~Readable(f) THEN "error" ELSE IF eof[f] THEN "zero" ELSE "again"

-----------------------------------------------------------------------------
(* Steps of the stack. *)

Raise(f, kind) ==
    ready' = IF reg[f] # "off" /\ kind \in {"err", reg[f]} THEN ready \cup {<<f, kind>>} ELSE ready

Established(f) ==
    /\ st[f] = "syn"
    /\ st' = [st EXCEPT ![f] = "est"]
    /\ Raise(f, "out")
    /\ UNCHANGED <<own, rx, eof, reg, ptr>>

\* The attempt to connect fails, or the connection is reset.
Broken(f) ==
    /\ st[f] \in {"syn", "est"}
    /\ st' = [st EXCEPT ![f] = "failed"]
    /\ Raise(f, "err")
    /\ UNCHANGED <<own, rx, eof, reg, ptr>>

DataArrives(f) ==
    /\ st[f] = "est" /\ ~eof[f] /\ rx[f] < MaxRx
    /\ rx' = [rx EXCEPT ![f] = @ + 1]
    /\ Raise(f, "in")
    /\ UNCHANGED <<st, own, eof, reg, ptr>>

FinArrives(f) ==
    /\ st[f] = "est" /\ ~eof[f]
    /\ eof' = [eof EXCEPT ![f] = TRUE]
    /\ Raise(f, "in")
    /\ UNCHANGED <<st, own, rx, reg, ptr>>

\* Acknowledged data leaves the send buffer.
WriteSpace(f) ==
    /\ st[f] = "est" /\ reg[f] = "out"
    /\ Raise(f, "out")
    /\ UNCHANGED <<st, own, rx, eof, reg, ptr>>

StackStep == \E f \in Fds :
    Established(f) \/ Broken(f) \/ DataArrives(f) \/ FinArrives(f) \/ WriteSpace(f)
=============================================================================
