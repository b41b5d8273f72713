-------------------------- MODULE MCHostLifecycle --------------------------
(* Model values for HostLifecycle: the connections are interchangeable.    *)
EXTENDS HostLifecycle
=============================================================================
