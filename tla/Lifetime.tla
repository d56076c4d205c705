------------------------------ MODULE Lifetime ------------------------------
(***************************************************************************)
(* How long ImServer keeps a connection.  A Read_IO is released when the   *)
(* last shared_ptr to it goes.  The ping list, the pool and the list of    *)
(* nodes to write all let go of it in time.  The uuid map need not: the    *)
(* write callback registers the node of any clientconnectres it sends,     *)
(* given up or not, and nothing looks at a given-up node again.  The       *)
(* history variable notes when that happens; it changes no step.           *)
(***************************************************************************)
EXTENDS ImServer

VARIABLE late  \* connections the uuid map took after they were given up

\* connection_write_callback puts c, which no ping list entry names any more,
\* into the uuid map.
RegistersLate(c) ==
    /\ c \notin ToSet(pinglist)
    /\ \E d \in Device : uuidmap[d] # c /\ uuidmap'[d] = c

LifeNext ==
    /\ Next
    /\ late' = late \cup {c \in Conn : RegistersLate(c)}

LifeSpec == Init /\ late = {} /\ [][LifeNext]_<<vars, late>> /\ Fairness

\* The connection of a client that has left, with or without a FIN, and with
\* messages still unread or unanswered, is eventually released, unless the
\* clientconnectres it left behind was written after a read error or the ping
\* timer had given the node up: then the uuid map may keep it for good.
Released ==
    \A c \in Conn :
        (cl[c].st \in {"closed", "gone"}) ~> (~Alive(c) \/ c \in late)
=============================================================================
