------------------------------ MODULE Registry ------------------------------
(***************************************************************************)
(* What one start of aleph_bdev_drv promises to the rest of the kernel:    *)
(* each of the driver's classes appears in the kernel's dictionary of      *)
(* classes at one moment, and once they all have, the services appear one  *)
(* by one in the order of their numbers.                                   *)
(***************************************************************************)
EXTENDS Integers, Sequences

CONSTANTS
  Classes,  \* the driver's classes, a sequence in the order of registration
  Services  \* how many services the driver registers

VARIABLES
  visible,  \* the classes that can be found by name
  services  \* numbers of the services registered

vars == <<visible, services>>

ClassNames == {Classes[k] : k \in DOMAIN Classes}

Init == visible = {} /\ services = <<>>

PublishClass(k) ==
  /\ visible = {Classes[j] : j \in 1..(k - 1)}
  /\ visible' = visible \cup {Classes[k]}
  /\ UNCHANGED services

RegisterService ==
  /\ visible = ClassNames
  /\ Len(services) < Services
  /\ services' = Append(services, Len(services))
  /\ UNCHANGED visible

Next == RegisterService \/ \E k \in DOMAIN Classes : PublishClass(k)

Spec == Init /\ [][Next]_vars
=============================================================================
