---------------------------- MODULE MCScoaState -----------------------------
(* Every line of LineSize bytes under every line above it.                 *)
EXTENDS ScoaState
=============================================================================
