----------------------------- MODULE MCExchange -----------------------------
(***************************************************************************)
(* The instance of Connection on which it implements HttpExchange: the     *)
(* constants are what the theorem about it assumes.                        *)
(***************************************************************************)
EXTENDS MCConnection

ASSUME PromiseKept == KeepsPromise
=============================================================================
