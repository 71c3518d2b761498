---- MODULE MCOrderLife ----
(* OrderLife for TLC: small deadlines in the order the deployment keeps    *)
(* them (settle and quote short, asynchronous fulfillment longest).        *)
EXTENDS OrderLife
====
