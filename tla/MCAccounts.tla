----------------------------- MODULE MCAccounts -----------------------------
(* Values for the constants of AccountClients: two accounts whose backoffs  *)
(* and token lifetimes are a few units long, in the order of the real ones. *)
EXTENDS AccountClients

MCBackoffBase == [rate_limit |-> 1, auth |-> 2, forbidden |-> 2, server |-> 1, network |-> 1]
MCBackoffMax == [rate_limit |-> 2, auth |-> 2, forbidden |-> 2, server |-> 1, network |-> 1]
=============================================================================
