-------------------------- MODULE MCNotifications --------------------------
(* Instances of Notifications for TLC. *)
EXTENDS Notifications, TLC

CONSTANTS a1, a2, b, ann, bob, h1, h2, w1, w2

(* Two keyed notifications, of which one event has both, and a broadcast.   *)
MCRecipients == [n \in Notifications |->
                    IF n = a1 THEN {ann} ELSE IF n = a2 THEN {bob} ELSE Users]
BothUsers == {{a1, a2}}
Nobody == {{}}
Symmetry == Permutations(Requests) \cup Permutations(Workers)
=============================================================================
