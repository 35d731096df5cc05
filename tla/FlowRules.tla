------------------------------ MODULE FlowRules ------------------------------
(***************************************************************************)
(* The data of an SDN-WISE flow table: entries, matching and ageing.       *)
(* Shared by RuleList (what a flow table promises) and FlowTable (how      *)
(* AbstractMote.java keeps it).                                            *)
(*                                                                         *)
(* A list of windows is a member of WindowLists; what it matches is the    *)
(* relation Matches.  An action list is a member of Actions.  The time to  *)
(* live of an entry is the unsigned byte kept in its Stats.                *)
(***************************************************************************)
EXTENDS Integers

CONSTANTS
  RlsMax,        \* SDN_WISE_RLS_MAX, the number of slots of a table
  TtlMax,        \* the time to live of fresh Stats (254)
  TtlPermanent,  \* SDN_WISE_RL_TTL_PERMANENT (255)
  TtlDecr,       \* SDN_WISE_RL_TTL_DECR (10)
  WindowLists,   \* the non-empty lists of windows a rule may carry
  Aged,          \* those of them with more than one window
  Actions,       \* the lists of actions a rule may carry
  Packets,       \* the packets a table is asked about
  Matches,       \* <<windows, packet>>: every window of the list accepts it
  NoWindows,     \* the empty list of windows of a blank entry
  NoAction,      \* the empty list of actions of a blank entry
  Ask            \* what a lookup without a match does: ask the controller

ASSUME RulesAssumption ==
  /\ RlsMax \in Nat /\ RlsMax >= 2
  /\ TtlMax \in Nat /\ TtlPermanent \in Nat /\ TtlMax < TtlPermanent
  /\ TtlDecr \in Nat \ {0}
  /\ Aged \subseteq WindowLists
  /\ Matches \subseteq WindowLists \X Packets
  /\ NoWindows \notin WindowLists
  /\ NoAction \notin Actions
  /\ Ask \notin Actions

Slots == 0 .. (RlsMax - 1)

Entry == [win : WindowLists \cup {NoWindows},
          act : Actions \cup {NoAction},
          ttl : 0 .. TtlPermanent]

\* new FlowTableEntry(): no window, no action, fresh Stats
NoRule == [win |-> NoWindows, act |-> NoAction, ttl |-> TtlMax]

Fresh(w, a) == [win |-> w, act |-> a, ttl |-> TtlMax]

Blank(e) == e.win = NoWindows

SameWindows(e, r) == e.win = r.win

\* matchRule: a blank entry matches nothing
MatchRule(e, p) == ~Blank(e) /\ <<e.win, p>> \in Matches

\* A mutant: the time to live is lowered before it is compared.
AgeBelowZero(e) ==
  IF e.win \notin Aged \/ e.ttl = TtlPermanent THEN e ELSE [e EXCEPT !.ttl = @ - TtlDecr]

\* A mutant: entries with one window age as well.
AgeEvery(e) ==
  IF e.ttl = TtlPermanent THEN e
  ELSE IF e.ttl >= TtlDecr THEN [e EXCEPT !.ttl = @ - TtlDecr] ELSE NoRule

\* updateTable, for one entry: only entries with several windows age
Age(e) ==
  IF e.win \notin Aged \/ e.ttl = TtlPermanent THEN e
  ELSE IF e.ttl >= TtlDecr THEN [e EXCEPT !.ttl = @ - TtlDecr]
       ELSE NoRule

\* The actions of the first entry of the order l that matches p, or Ask.
FirstMatch(l, p) ==
  LET hits == {j \in Slots : MatchRule(l[j], p)}
  IN  IF hits = {} THEN Ask
      ELSE l[CHOOSE j \in hits : \A k \in hits : j <= k].act

==============================================================================
