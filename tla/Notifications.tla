---------------------------- MODULE Notifications ----------------------------
(***************************************************************************)
(* What a user client of the framebuffer promises to its process about     *)
(* notifications: to enable those of a type is to bind, at one moment, the *)
(* port registered for the type with a callback, and each notification     *)
(* goes to what was bound last.                                            *)
(***************************************************************************)
EXTENDS Integers

CONSTANTS
  Types,     \* types of notifications
  Ports,     \* ports the process may register
  Callbacks, \* what it gives to recognise a notification
  None       \* nothing

VARIABLES
  port,    \* the port registered for each type
  bound,   \* the port and the callback bound to each type
  sent     \* the last notification sent

vars == <<port, bound, sent>>

Unbound == [port |-> None, cb |-> None]

Init ==
  /\ port = [y \in Types |-> None]
  /\ bound = [y \in Types |-> Unbound]
  /\ sent = None

Register(y, p) == port' = [port EXCEPT ![y] = p] /\ UNCHANGED <<bound, sent>>

Enable(y, k) ==
  /\ bound' = [bound EXCEPT ![y] = [port |-> port[y], cb |-> k]]
  /\ UNCHANGED <<port, sent>>

Notify(y) ==
  /\ bound[y].port # None
  /\ sent' = [type |-> y, to |-> bound[y]]
  /\ UNCHANGED <<port, bound>>

Next ==
  \E y \in Types :
    \/ \E p \in Ports : Register(y, p)
    \/ \E k \in Callbacks : Enable(y, k)
    \/ Notify(y)

Spec == Init /\ [][Next]_vars
=============================================================================
