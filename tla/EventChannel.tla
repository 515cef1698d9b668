----------------------------- MODULE EventChannel -----------------------------
(***************************************************************************)
(* What the outbox, the relay, Kafka and the consumers promise together    *)
(* about the events between two services.  An event is emitted by the      *)
(* commit of the change it reports; the events of one key are applied in   *)
(* the order they were emitted, each at most once.  An event whose handler *)
(* keeps failing is dropped so that its successors can go on; a            *)
(* redelivery may still apply it afterwards, out of order.                 *)
(*                                                                         *)
(* EventDelivery is checked to implement this module, and Fulfilment       *)
(* relies on it.                                                           *)
(***************************************************************************)
EXTENDS Sequences

CONSTANTS Keys, Events

VARIABLES
  pending,      \* events of each key still to be applied, oldest first
  applied,      \* events whose effects are committed
  dropped       \* events given up

channel == <<pending, applied, dropped>>

Init ==
  /\ pending = [k \in Keys |-> <<>>]
  /\ applied = {}
  /\ dropped = {}

Known(e) ==
  \/ e \in applied \cup dropped
  \/ \E k \in Keys : \E i \in DOMAIN pending[k] : pending[k][i] = e

Emit(k, e) ==
  /\ ~Known(e)
  /\ pending' = [pending EXCEPT ![k] = Append(@, e)]
  /\ UNCHANGED <<applied, dropped>>

TakeNext(k) ==
  /\ pending[k] # <<>>
  /\ pending' = [pending EXCEPT ![k] = Tail(@)]

Apply(k) ==
  /\ TakeNext(k)
  /\ applied' = applied \cup {Head(pending[k])}
  /\ UNCHANGED dropped

Drop(k) ==
  /\ TakeNext(k)
  /\ dropped' = dropped \cup {Head(pending[k])}
  /\ UNCHANGED applied

ApplyLate(e) ==
  /\ e \in dropped \ applied
  /\ applied' = applied \cup {e}
  /\ UNCHANGED <<pending, dropped>>

Next ==
  \/ \E k \in Keys, e \in Events : Emit(k, e)
  \/ \E k \in Keys : Apply(k) \/ Drop(k)
  \/ \E e \in Events : ApplyLate(e)

Spec == Init /\ [][Next]_channel
=============================================================================
