----------------------------- MODULE MCSinkTree -----------------------------
(***************************************************************************)
(* Two sinks, s and t, and three motes between them: c hears a, which      *)
(* hears s, and b, which hears t.  Every tick beacons and ages, and a rule *)
(* lives three ticks without the parent, so that rules expire after losses *)
(* and after a battery has run out.                                        *)
(***************************************************************************)
EXTENDS SinkDiscovery

CONSTANTS s, t, a, b, c

MCMotes == {a, b, c}
MCSinks == {s, t}
MCMortal == {a}
Pairs == {<<s, a>>, <<t, b>>, <<a, c>>, <<b, c>>}
MCLink == Pairs \cup {<<p[2], p[1]>> : p \in Pairs}

=============================================================================
