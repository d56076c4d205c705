--------------------------- MODULE MessageService ---------------------------
(***************************************************************************)
(* What the server promises about the messages of conversations, whatever  *)
(* its workers do in between: a message is stored once, under an id of its *)
(* conversation that no other message ever has and that is above every id  *)
(* acknowledged before its request came; it is acknowledged after it is    *)
(* stored, and users are told of acknowledged messages only.  A request    *)
(* may be given up at any time, which undoes nothing.                      *)
(***************************************************************************)
EXTENDS Naturals

CONSTANTS User, Node, Request, Id

VARIABLES
    open,      \* requests being handled: [request, node, before]
    stored,    \* <<node, id>> -> the request stored there, 0: addFriend's
    promised,  \* acknowledgements, as <<node, id, request>>
    told       \* what users were told of, as [user, node, id]

vars == <<open, stored, promised, told>>

IsStored(r) == \E k \in DOMAIN stored : stored[k] = r

\* The ids acknowledged in node n.
Promised(n) == {a[2] : a \in {x \in promised : x[1] = n}}

Init ==
    /\ open = {} /\ promised = {} /\ told = {}
    /\ stored = [k \in Node \X {0} |-> 0]

Begin(r, n) ==
    /\ \A o \in open : o.request # r
    /\ ~IsStored(r)
    /\ open' = open \cup {[request |-> r, node |-> n, before |-> Promised(n)]}
    /\ UNCHANGED <<stored, promised, told>>

Store(o, id) ==
    LET k == <<o.node, id>> IN
    /\ \A i \in o.before : id > i
    /\ k \notin DOMAIN stored /\ ~IsStored(o.request)
    /\ stored' = [x \in DOMAIN stored \cup {k} |-> IF x = k THEN o.request ELSE stored[x]]
    /\ UNCHANGED <<open, promised, told>>

Promise(o, id) ==
    LET k == <<o.node, id>> IN
    /\ k \in DOMAIN stored /\ stored[k] = o.request
    /\ promised' = promised \cup {<<o.node, id, o.request>>}
    /\ UNCHANGED <<open, stored, told>>

\* A mark starts at 1, and a returning user may be told of it before message 1
\* is there.
Telling ==
    /\ told \subseteq told'
    /\ \A x \in told' \ told :
          x.id = 1 \/ \E a \in promised : a[1] = x.node /\ a[2] = x.id

Tell == UNCHANGED <<stored, promised, open>> /\ Telling

\* The request is finished, perhaps with a notification, or given up.
End(o) ==
    /\ UNCHANGED <<stored, promised>>
    /\ open' = open \ {o}
    /\ Telling

Next ==
    \/ Tell
    \/ \E o \in open : End(o) \/ \E id \in Id : Store(o, id) \/ Promise(o, id)
    \/ \E r \in Request, n \in Node : Begin(r, n)

Spec == Init /\ [][Next]_vars

-----------------------------------------------------------------------------
(* What follows for those who use the service.                             *)

\* An acknowledgement lasts: the message is stored under the id its sender was
\* given, and a request is never acknowledged under two ids.
AckedOnce ==
    \A a \in promised :
        /\ <<a[1], a[2]>> \in DOMAIN stored /\ stored[<<a[1], a[2]>>] = a[3]
        /\ \A b \in promised : a[3] = b[3] => a = b

\* What a user is told of can be fetched, message 1 excepted.
ToldIsStored ==
    \A x \in told : x.id = 1 \/ <<x.node, x.id>> \in DOMAIN stored
=============================================================================
