---------------------------- MODULE MCDtnEngine ----------------------------
(* One or two bundles, one or two open windows, lifetimes of a tick or two. *)
EXTENDS DtnEngine

=============================================================================
