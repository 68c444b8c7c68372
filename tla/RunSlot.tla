------------------------------ MODULE RunSlot ------------------------------
(***************************************************************************)
(* What the session slot promises, whatever the handlers and background    *)
(* tasks do: it is taken only when free, it is held by one session at a    *)
(* time, and a session that left it never comes back.                      *)
(***************************************************************************)
CONSTANTS Sessions, None

VARIABLES
    holder,     \* the session in the slot, None when it is free
    used        \* the sessions that have held it

Init == holder = None /\ used = {}

Acquire(s) ==
    /\ holder = None
    /\ s \notin used
    /\ holder' = s
    /\ used' = used \cup {s}

Release ==
    /\ holder # None
    /\ holder' = None
    /\ UNCHANGED used

Next == Release \/ \E s \in Sessions : Acquire(s)

Spec == Init /\ [][Next]_<<holder, used>>
=============================================================================
