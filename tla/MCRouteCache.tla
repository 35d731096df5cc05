---------------------------- MODULE MCRouteCache ----------------------------
(***************************************************************************)
(* Three nodes; s hears a directly and over b, so that a path changes with *)
(* a length, with a link, and with a node that is removed.                 *)
(***************************************************************************)
EXTENDS RouteCache

CONSTANTS s, a, b

MCNodes == {s, a, b}
MCLink == {<<a, s>>, <<a, b>>, <<b, s>>}
MCMortal == {b}
MCLengths == {1, 3}

=============================================================================
