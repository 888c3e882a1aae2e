------------------------------ MODULE Scheduler ------------------------------
(***************************************************************************)
(* What a core promises its scripts, without timers, sockets and events: a *)
(* coroutine runs inside the one that spawned it until it waits or ends;   *)
(* when nobody runs, one that waits is continued, once for each wait and   *)
(* with a result of the call it waits in.  The one exception is a connect, *)
(* after which a coroutine may stay suspended for ever.                    *)
(***************************************************************************)
EXTENDS Integers, Sequences

CONSTANTS
    Tasks,      \* the coroutines
    First       \* the script file

VARIABLES
    calls,      \* who runs: the last one, inside the ones before it
    waits,      \* waits[c]: the call a suspended coroutine waits in, a function
                \* on the coroutines that wait
    lost,       \* suspended, and nothing will continue them
    ended,
    result      \* result[c]: what the last wait of a running c has returned

vars == <<calls, waits, lost, ended, result>>

Answers ==
    [timer   |-> {"ok"},
     connect |-> {"ok", "timeout"},
     recv    |-> {"data", "closed", "failed", "timeout"}]

Waiting == DOMAIN waits

Top(c) == calls # <<>> /\ calls[Len(calls)] = c

Fresh(d) ==
    /\ d \notin Waiting \cup lost \cup ended
    /\ \A n \in 1 .. Len(calls) : calls[n] # d

Without(f, c) == [x \in DOMAIN f \ {c} |-> f[x]]

Init ==
    /\ calls = <<>>
    /\ waits = [c \in {First} |-> "timer"]
    /\ lost = {}
    /\ ended = {}
    /\ result = [c \in Tasks |-> "none"]

Spawn(d) ==
    /\ calls # <<>> /\ Fresh(d)
    /\ calls' = Append(calls, d)
    /\ UNCHANGED <<waits, lost, ended, result>>

\* A coroutine that cannot even be started.
SpawnFails(d) ==
    /\ calls # <<>> /\ Fresh(d)
    /\ ended' = ended \cup {d}
    /\ UNCHANGED <<calls, waits, lost, result>>

\* A call that may have to wait drops the previous result.
Enter(c) ==
    /\ Top(c)
    /\ result' = [result EXCEPT ![c] = "none"]
    /\ UNCHANGED <<calls, waits, lost, ended>>

Return(c) == calls' = SubSeq(calls, 1, Len(calls) - 1) /\ result' = [result EXCEPT ![c] = "none"]

Wait(c, call) ==
    /\ Top(c)
    /\ Return(c)
    /\ waits' = [x \in Waiting \cup {c} |-> IF x = c THEN call ELSE waits[x]]
    /\ UNCHANGED <<lost, ended>>

End(c) ==
    /\ Top(c)
    /\ Return(c)
    /\ ended' = ended \cup {c}
    /\ UNCHANGED <<waits, lost>>

Continue(c, answer) ==
    /\ calls = <<>> /\ c \in Waiting
    /\ answer \in Answers[waits[c]]
    /\ calls' = <<c>>
    /\ waits' = Without(waits, c)
    /\ result' = [result EXCEPT ![c] = answer]
    /\ UNCHANGED <<lost, ended>>

Lose(c) ==
    /\ calls = <<>> /\ c \in Waiting
    /\ waits[c] = "connect"
    /\ waits' = Without(waits, c)
    /\ lost' = lost \cup {c}
    /\ UNCHANGED <<calls, ended, result>>

Next == \E c \in Tasks :
    \/ Spawn(c) \/ SpawnFails(c)
    \/ Enter(c) \/ End(c) \/ Lose(c)
    \/ \E call \in DOMAIN Answers : Wait(c, call)
    \/ \E answer \in {"ok", "timeout", "data", "closed", "failed"} : Continue(c, answer)

Spec == Init /\ [][Next]_vars
=============================================================================
