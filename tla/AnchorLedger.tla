---------------------------- MODULE AnchorLedger ----------------------------
(***************************************************************************)
(* What the chain promises whoever verifies a memory against it: for each  *)
(* identity a list of anchors that belongs to one guardian, only ever      *)
(* grows, and does not grow while it is sealed.  ImmortalMind implements   *)
(* it twice, with the log of memories and with the log of batches.         *)
(***************************************************************************)
EXTENDS Sequences

CONSTANTS Identity, Guardian, Nobody, Anchor

VARIABLES guardian, sealed, anchors

ledger == <<guardian, sealed, anchors>>

Init ==
    /\ guardian = [id \in Identity |-> Nobody]
    /\ sealed = [id \in Identity |-> FALSE]
    /\ anchors = [id \in Identity |-> <<>>]

Claim(id, g) ==
    /\ guardian[id] = Nobody
    /\ guardian' = [guardian EXCEPT ![id] = g]
    /\ UNCHANGED <<sealed, anchors>>

Add(id, a) ==
    /\ guardian[id] # Nobody
    /\ ~sealed[id]
    /\ anchors' = [anchors EXCEPT ![id] = Append(@, a)]
    /\ UNCHANGED <<guardian, sealed>>

Seal(id) ==
    /\ guardian[id] # Nobody
    /\ sealed' = [sealed EXCEPT ![id] = ~@]
    /\ UNCHANGED <<guardian, anchors>>

Next ==
    \E id \in Identity :
        \/ \E g \in Guardian : Claim(id, g)
        \/ \E a \in Anchor : Add(id, a)
        \/ Seal(id)

Spec == Init /\ [][Next]_ledger

=============================================================================
