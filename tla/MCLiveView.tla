----------------------------- MODULE MCLiveView -----------------------------
(* One tab, two tasks to comment on, two writes of any kind and origin.      *)
EXTENDS LiveView

=============================================================================
