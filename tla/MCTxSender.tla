---- MODULE MCTxSender ----
(* A plain sender and a Safe sender that share one key. *)
EXTENDS TxSender

CONSTANTS eoa, safe

BothSenders == {eoa, safe}
OneSafe == {safe}

\* Only the plain sender's call is wrapped in a second retry loop.
EoaRetries == [s \in Senders |-> IF s = eoa THEN 2 ELSE 1]
====
