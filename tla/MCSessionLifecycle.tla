------------------------- MODULE MCSessionLifecycle -------------------------
(* One session and its users, small bounds: see the configurations.        *)
EXTENDS SessionLifecycle
=============================================================================
