------------------------------ MODULE FlashStore ------------------------------
(***************************************************************************)
(* What the flash manager promises its users (flash_manager.h): a store of *)
(* one value per handle, changed by requests in the order they were made,  *)
(* each as a whole or not at all.  A power failure forgets requests and    *)
(* changes nothing that is stored.                                         *)
(***************************************************************************)
EXTENDS Sequences

CONSTANTS Handles, Requests, None

VARIABLES
  store,     \* the value of each handle, or None
  pending    \* the requests that are not carried out yet

vars == <<store, pending>>

Init == store = [h \in Handles |-> None] /\ pending = <<>>

Request == \E r \in Requests : pending' = Append(pending, r) /\ UNCHANGED store

\* The oldest request takes effect: its handle has its value from now on.
Apply ==
  /\ pending # <<>>
  /\ store' = [store EXCEPT ![Head(pending).handle] = Head(pending).value]
  /\ pending' = Tail(pending)

\* There is no room for the entry, or there is none to invalidate.
Refuse == pending # <<>> /\ pending' = Tail(pending) /\ UNCHANGED store

Crash == pending' = <<>> /\ UNCHANGED store

Next == Request \/ Apply \/ Refuse \/ Crash

Spec == Init /\ [][Next]_vars
=============================================================================
