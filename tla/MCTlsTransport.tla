---------------------------- MODULE MCTlsTransport ----------------------------
(***************************************************************************)
(* TlsTransport with the fairness of a live system: the thread keeps       *)
(* polling and handling, the network delivers, the server takes and sends. *)
(***************************************************************************)
EXTENDS TlsTransport

Fairness ==
    /\ WF_vars(Client)
    /\ WF_vars(AcceptConnect)
    /\ WF_vars(Receive)
    /\ WF_vars(Send)

FairSpec == Spec /\ Fairness

(***************************************************************************)
(* Every request that was begun gets out and is answered, whatever blocks  *)
(* on its way: "the retry after a WouldBlock reports its completion so the *)
(* caller advances before sending more" (tls.rs, write; connection.rs,     *)
(* writable).  It is so of a server that says nothing unasked, as one of   *)
(* TLS 1.2 does; a session ticket of TLS 1.3 that comes while a write is   *)
(* blocked refutes it (MCTlsTickets.cfg).                                  *)
(***************************************************************************)
RequestsAnswered == con.pending > 0 ~> con.pending = 0
================================================================================
