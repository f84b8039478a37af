--------------------------- MODULE AttestationLog ---------------------------
(***************************************************************************)
(* What the audit log promises its callers, with no database in sight.     *)
(*                                                                         *)
(* Each writer may have one event pending.  A pending event is either      *)
(* attested, once, at the end of the log, or given up.  Nothing already in *)
(* the log is ever moved, changed or removed.  AuditChain implements this. *)
(***************************************************************************)
EXTENDS Naturals, Sequences

CONSTANTS
    Writer,     \* callers of AuditChain.append
    Event,      \* what a caller asks the log to attest
    NoEvent     \* a writer with nothing pending

VARIABLES
    log,        \* the attested events, oldest first
    pending     \* pending[w] is the event w waits on, or NoEvent

vars == <<log, pending>>

Init ==
    /\ log = << >>
    /\ pending = [w \in Writer |-> NoEvent]

\* A caller enters append().
Ask(w, e) ==
    /\ pending[w] = NoEvent
    /\ pending' = [pending EXCEPT ![w] = e]
    /\ UNCHANGED log

\* The event becomes the newest attested one.
Attest(w) ==
    /\ pending[w] # NoEvent
    /\ log' = Append(log, pending[w])
    /\ pending' = [pending EXCEPT ![w] = NoEvent]

\* The call raises, or its process dies: the event was never attested.
GiveUp(w) ==
    /\ pending[w] # NoEvent
    /\ pending' = [pending EXCEPT ![w] = NoEvent]
    /\ UNCHANGED log

Next ==
    \E w \in Writer :
        \/ \E e \in Event : Ask(w, e)
        \/ Attest(w)
        \/ GiveUp(w)

Spec == Init /\ [][Next]_vars

=============================================================================
