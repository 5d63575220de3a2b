---------------------------- MODULE GateProtocol ----------------------------
(***************************************************************************)
(* What the human gates promise, whatever drives the campaign: a gate is   *)
(* crossed in its turn, by someone who has found the latest decision there *)
(* to be an approval while the campaign stood before the gate, and before  *)
(* the campaign went anywhere else.  A later decision may come between the *)
(* look and the crossing.  No gate is left again but the reopened ones,    *)
(* each before the next is crossed, and those must be crossed anew.        *)
(***************************************************************************)
CONSTANTS Gate,       \* the gates
          Earlier,    \* for each gate, the gates that come before it
          Reopened    \* the gates there is a way back over

VARIABLES decided,    \* the latest decision recorded at each gate
          opened,     \* the gates someone has found approved and may cross
          crossed     \* the gates the campaign is behind

Init == decided = [g \in Gate |-> "NONE"] /\ opened = {} /\ crossed = {}

Decide(g) ==
  /\ \E d \in {"APPROVED", "REJECTED", "CHANGES_REQUESTED"} :
       decided' = [decided EXCEPT ![g] = d]
  /\ UNCHANGED <<opened, crossed>>

Open(g) ==
  /\ crossed = Earlier[g]
  /\ decided[g] = "APPROVED"
  /\ opened' = opened \cup {g}
  /\ UNCHANGED <<decided, crossed>>

Cross(g) ==
  /\ g \in opened
  /\ crossed = Earlier[g]
  /\ crossed' = crossed \cup {g} /\ opened' = {}
  /\ UNCHANGED decided

GoBack(g) ==
  /\ g \in Reopened
  /\ crossed = Earlier[g] \cup {g}
  /\ crossed' = Earlier[g] /\ opened' = {}
  /\ UNCHANGED decided

\* Whoever was about to cross dies, or finds the campaign gone.
GiveUp ==
  /\ opened' \in SUBSET opened
  /\ UNCHANGED <<decided, crossed>>

Next == (\E g \in Gate : Decide(g) \/ Open(g) \/ Cross(g) \/ GoBack(g)) \/ GiveUp

Spec == Init /\ [][Next]_<<decided, opened, crossed>>
=============================================================================
