----------------------------- MODULE OrderedFeed -----------------------------
(***************************************************************************)
(* What a bot may expect of the messages of a channel (the SDK's events()  *)
(* and its module documentation), with no socket, cursor or page in it:    *)
(* from the first message it is handed on, it is handed every message      *)
(* once, in order, except those that are gone by then: deleted, hidden     *)
(* from bots, or lost to it.                                               *)
(***************************************************************************)
EXTENDS Naturals, Sequences

VARIABLES
    posted, \* how many messages the channel has
    gone,   \* the messages that are deleted, hidden from bots or lost
    handed  \* the messages the bot was handed, in order

feedVars == <<posted, gone, handed>>

Init == posted = 0 /\ gone = {} /\ handed = <<>>

Post ==
    /\ posted' = posted + 1
    /\ gone' \in {gone, gone \cup {posted + 1}}
    /\ UNCHANGED handed

Vanish ==
    /\ gone \subseteq gone'
    /\ gone' \subseteq 1..posted
    /\ UNCHANGED <<posted, handed>>

(* Everything between the last message handed over and m is gone.          *)
Hand(m) ==
    /\ handed # <<>> =>
         LET last == handed[Len(handed)]
         IN m > last /\ (last + 1)..(m - 1) \subseteq gone
    /\ handed' = Append(handed, m)
    /\ UNCHANGED <<posted, gone>>

Next == Post \/ Vanish \/ \E m \in 1..posted : Hand(m)

Spec == Init /\ [][Next]_feedVars
=============================================================================
