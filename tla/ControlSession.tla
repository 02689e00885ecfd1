---------------------------- MODULE ControlSession ----------------------------
(***************************************************************************)
(* What the AP bridge promises its clients, with the tasks, the STM32 and  *)
(* the wire left out: at most one open connection has control, it asked    *)
(* for it on this connection, and it loses it at the latest when it closes.*)
(***************************************************************************)
CONSTANTS Conn, NoConn

VARIABLES
    open,        \* open connections
    asked,       \* those among them that claimed control
    controller   \* the one that has it, or NoConn

vars == <<open, asked, controller>>

Init == open = {} /\ asked = {} /\ controller = NoConn

Open(c) ==
    /\ c \notin open
    /\ open' = open \cup {c}
    /\ UNCHANGED <<asked, controller>>

Ask(c) ==
    /\ c \in open
    /\ asked' = asked \cup {c}
    /\ UNCHANGED <<open, controller>>

Grant(c) ==
    /\ c \in open \cap asked
    /\ controller' = c
    /\ UNCHANGED <<open, asked>>

Revoke ==
    /\ controller' = NoConn
    /\ UNCHANGED <<open, asked>>

\* The bridge may take the occasion to revoke another one's control.
Close(c) ==
    /\ c \in open
    /\ open' = open \ {c}
    /\ asked' = asked \ {c}
    /\ controller' \in {controller, NoConn} \ {c}

Next == Revoke \/ \E c \in Conn : Open(c) \/ Ask(c) \/ Grant(c) \/ Close(c)

Spec == Init /\ [][Next]_vars
===============================================================================
