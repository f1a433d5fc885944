-------------------------- MODULE MC_Collaboration --------------------------
(* One user's tab, up to two messages queued on it and three server       *)
(* handlers in flight: the tab's opens, closes and heartbeats race each    *)
(* other on the server.  The properties are per user, and users interact  *)
(* only through the collaborator set, which each user's handlers change   *)
(* for that user alone.                                                   *)
EXTENDS Collaboration

CONSTANTS u1

MC_Users == {u1}
=============================================================================
