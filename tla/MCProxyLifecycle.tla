-------------------------- MODULE MCProxyLifecycle --------------------------
(* ProxyLifecycle with two servers: every set of sections, of servers and of *)
(* failures to set up a socket is an initial state or a step.                *)
EXTENDS ProxyLifecycle

CONSTANTS hub, lobby
=============================================================================
