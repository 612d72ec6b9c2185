-------------------------- MODULE MCSessionDelivery --------------------------
(***************************************************************************)
(* Two callers, a settled assignment to report, an outbox entry to send and *)
(* one input of a client, with any one fault.                               *)
(***************************************************************************)
EXTENDS SessionDelivery, TLC

CONSTANTS n, e, u

MCKind == n :> "note" @@ e :> "entry" @@ u :> "input"
=============================================================================
