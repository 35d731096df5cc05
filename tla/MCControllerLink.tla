-------------------------- MODULE MCControllerLink --------------------------
(***************************************************************************)
(* One sink and one mote, or two sinks, with buffers of one message each.  *)
(***************************************************************************)
EXTENDS ControllerLink

CONSTANTS s, t, m

MCSink == {s}
MCSinks == {s, t}
MCMotes == {m}

==============================================================================
