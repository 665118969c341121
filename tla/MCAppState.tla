---- MODULE MCAppState ----
(* AppState on small instances; the configurations give every bound. *)
EXTENDS AppState
====
