---------------------------- MODULE BookingBoard ----------------------------
(***************************************************************************)
(* What the scheduling core promises, whatever happens inside it: a board  *)
(* on which every appointment holds at most one stretch of one             *)
(* technician's time.  An appointment stays with its technician while it   *)
(* keeps a claim, no two claims of a technician ever meet, and each step   *)
(* is one transaction: of one appointment in Spec, of several in BatchSpec.*)
(***************************************************************************)
EXTENDS Integers

CONSTANTS
  Appts,    (* appointments that may hold a claim                          *)
  Techs,    (* technicians whose time is claimed                           *)
  None      (* no claim                                                    *)

VARIABLE claims

Claim == [tech : Techs, start : Int, end : Int]

(* Half-open stretches of the same technician's time that share a point.   *)
Clash(p, q) == /\ p.tech = q.tech
               /\ p.start < p.end
               /\ q.start < q.end
               /\ p.start < q.end
               /\ q.start < p.end

(* The new claim of a meets no other claim of the board the step leads to. *)
Free(a) ==
  \A b \in Appts \ {a} : claims'[b] # None => ~Clash(claims'[b], claims'[a])

Init == claims = [a \in Appts |-> None]

(* Claim time that is free: a booking.                                     *)
Take(a) ==
  /\ claims[a] = None
  /\ claims'[a] \in Claim
  /\ Free(a)

(* Exchange the claim for free time of the same technician.                *)
Move(a) ==
  /\ claims[a] # None
  /\ claims'[a] \in Claim
  /\ claims'[a].tech = claims[a].tech
  /\ Free(a)

(* Give the claim up.                                                      *)
Release(a) ==
  /\ claims[a] # None
  /\ claims'[a] = None

(* One transaction changes the claims of S and no other.                   *)
Exchange(S) ==
  /\ claims' = [a \in Appts |-> IF a \in S THEN claims'[a] ELSE claims[a]]
  /\ \A a \in S : Take(a) \/ Move(a) \/ Release(a)

(* Requests and dispatchers change one claim at a time.                    *)
Next == \E a \in Appts : Exchange({a})

Spec == Init /\ [][Next]_claims

(* A batch of the calendar sync changes several.                           *)
BatchNext == \E S \in SUBSET Appts : Exchange(S)

BatchSpec == Init /\ [][BatchNext]_claims

=============================================================================
