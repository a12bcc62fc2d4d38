-------------------------------- MODULE Feed --------------------------------
(***************************************************************************)
(* What a following read of one object's journal promises its reader       *)
(* (internal/events/follow.go, docs of the /v1/events follow): the records *)
(* after the position it gave, in sequence order, none skipped and none    *)
(* twice, until the feed ends and says why.                                *)
(***************************************************************************)
EXTENDS Integers

VARIABLES newest, sent, state

feedVars == <<newest, sent, state>>

Init == newest \in Nat /\ sent = 0 /\ state = "opening"

Append == newest' = newest + 1 /\ UNCHANGED <<sent, state>>

(* The position is fixed once, at or below the newest record. *)
Open ==
    /\ state = "opening"
    /\ state' = "open"
    /\ sent' \in 0 .. newest
    /\ UNCHANGED newest

(* The next records go out: a run that follows the last one sent. *)
Send ==
    /\ state = "open"
    /\ sent' = sent + 1 /\ sent' <= newest
    /\ UNCHANGED <<newest, state>>

End ==
    /\ state # "ended"
    /\ state' = "ended"
    /\ UNCHANGED <<newest, sent>>

Next == Append \/ Open \/ Send \/ End

Spec == Init /\ [][Next]_feedVars

=============================================================================
