------------------------------- MODULE RuleList -------------------------------
(***************************************************************************)
(* What a flow table promises, without its ring of slots: a list of        *)
(* entries in the order a lookup tries them.  Position 0 is the rule       *)
(* towards the sink; the positions after it hold the other rules, the      *)
(* newest first.  A rule with the windows of a listed one replaces it      *)
(* where it stands; any other rule goes to position 1, the rest move down  *)
(* one position and the oldest falls off the end.                          *)
(***************************************************************************)
EXTENDS FlowRules

VARIABLES
  list,       \* the entries, in lookup order
  decision    \* what the last lookup answered

vars == <<list, decision>>

Push(l, r) ==
  [j \in Slots |-> IF j = 0 THEN l[0] ELSE IF j = 1 THEN r ELSE l[j - 1]]

\* The lists an insertion of rule r into l may give.
Insertions(l, r) ==
  LET same == {j \in Slots : SameWindows(l[j], r)}
  IN  IF same = {} THEN {Push(l, r)} ELSE {[l EXCEPT ![j] = r] : j \in same}

Init ==
  /\ \E e \in Entry : ~Blank(e) /\ list = [j \in Slots |-> IF j = 0 THEN e ELSE NoRule]
  /\ decision = Ask

\* Only the rule towards the sink is written without an insertion.
SinkRule ==
  /\ \E e \in Entry : list' = [list EXCEPT ![0] = e]
  /\ UNCHANGED decision

InsertOne ==
  /\ \E w \in WindowLists, a \in Actions : list' \in Insertions(list, Fresh(w, a))
  /\ UNCHANGED decision

\* Two insertions at once, of rules with one window each.
InsertTwo ==
  /\ \E w1, w2 \in WindowLists \ Aged, a1, a2 \in Actions :
        \E mid \in Insertions(list, Fresh(w1, a1)) :
           list' \in Insertions(mid, Fresh(w2, a2))
  /\ UNCHANGED decision

Remove ==
  /\ \E j \in Slots : list' = [list EXCEPT ![j] = NoRule]
  /\ UNCHANGED decision

AgeAll ==
  /\ list' = [j \in Slots |-> Age(list[j])]
  /\ UNCHANGED decision

Lookup ==
  /\ \E p \in Packets : decision' = FirstMatch(list, p)
  /\ UNCHANGED list

Next == SinkRule \/ InsertOne \/ InsertTwo \/ Remove \/ AgeAll \/ Lookup

Spec == Init /\ [][Next]_vars

==============================================================================
