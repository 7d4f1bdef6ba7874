---------------------------- MODULE PolicyStore ----------------------------
(***************************************************************************)
(* What the application database promises: an application enters it once,    *)
(* blocked, and its policy then changes only to one that a user asks for.    *)
(***************************************************************************)
CONSTANTS App, Policy, Blocked

VARIABLES
  policy,  \* the policy of each known application
  asked    \* what users are asking for

Init == asked = {} /\ policy \in UNION {[known -> Policy] : known \in SUBSET App}

Discover(n) ==
  /\ n \notin DOMAIN policy
  /\ policy' = [k \in DOMAIN policy \cup {n} |-> IF k = n THEN Blocked ELSE policy[k]]
  /\ UNCHANGED asked

Decide(n, p) ==
  /\ n \in DOMAIN policy /\ <<n, p>> \in asked
  /\ policy' = [policy EXCEPT ![n] = p]
  /\ UNCHANGED asked

AskOrAnswer == asked' \subseteq App \X Policy /\ UNCHANGED policy

Next == \/ \E n \in App : Discover(n) \/ \E p \in Policy : Decide(n, p)
        \/ AskOrAnswer

Spec == Init /\ [][Next]_<<policy, asked>>
=============================================================================
