----------------------------- MODULE GrabPromise -----------------------------
(***************************************************************************)
(* What the banner grabbers under examples/ promise, whatever they are     *)
(* made of: every address that is read is tried at most once, at most Limit*)
(* of them at a time, each ends with one outcome, each outcome is reported,*)
(* and the program ends when all have been.                                *)
(***************************************************************************)
EXTENDS Integers, FiniteSets

CONSTANTS Address, Limit

VARIABLES waiting,   \* addresses not tried yet
          open,      \* addresses being tried
          ended,     \* addresses whose outcome is known and not yet reported
          over

gvars == <<waiting, open, ended, over>>

Init == waiting = Address /\ open = {} /\ ended = {} /\ over = FALSE

Try(a) == /\ a \in waiting /\ Cardinality(open) < Limit
          /\ waiting' = waiting \ {a} /\ open' = open \cup {a}
          /\ UNCHANGED <<ended, over>>

\* the outcome of an address, reported now or later
End(a) == /\ a \in open /\ open' = open \ {a}
          /\ ended' \in {ended, ended \cup {a}}
          /\ UNCHANGED <<waiting, over>>

\* an address that fails, or is passed over, as soon as it is read
Refuse(a) == /\ a \in waiting /\ waiting' = waiting \ {a}
             /\ UNCHANGED <<open, ended, over>>

Report(a) == /\ a \in ended /\ ended' = ended \ {a}
             /\ UNCHANGED <<waiting, open, over>>

Stop == /\ ~over /\ waiting = {} /\ open = {} /\ ended = {}
        /\ over' = TRUE /\ UNCHANGED <<waiting, open, ended>>

Next == \/ \E a \in Address : Try(a) \/ End(a) \/ Refuse(a) \/ Report(a)
        \/ Stop

SafeSpec == Init /\ [][Next]_gvars
Spec == SafeSpec /\ WF_gvars(Next)
=============================================================================
