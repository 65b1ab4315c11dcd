--------------------------- MODULE SeatInventory ---------------------------
(***************************************************************************)
(* What the airline promises about the seats of one flight, with no        *)
(* transactions, locks or rows: every seat is free or belongs to exactly   *)
(* one ticket, which is reserved, sold, or waiting for its refund; a seat  *)
(* becomes free again only from "refunding"; and a ticket identifier is    *)
(* granted once in the life of the system.                                 *)
(*                                                                         *)
(* SeatBooking, the translation of the handlers, implements this module.   *)
(***************************************************************************)
CONSTANTS Seats,   \* the seats of the plane that flies the flight
          Ids      \* the ticket identifiers

VARIABLES seat,    \* seat[s]: the state of s, and the ticket that holds it
          granted  \* the identifiers handed out so far

vars == <<seat, granted>>

Free         == [state |-> "free", by |-> 0]
Held(st, id) == [state |-> st, by |-> id]

Init ==
  /\ seat = [s \in Seats |-> Free]
  /\ granted = {}

(* A purchase: a free seat and an identifier nobody was given before. *)
Grant(s, id, st) ==
  /\ seat[s] = Free
  /\ id \notin granted
  /\ st \in {"RESERVED", "SALED"}
  /\ seat' = [seat EXCEPT ![s] = Held(st, id)]
  /\ granted' = granted \union {id}

(* The passenger pays for a reservation. *)
Pay(s) ==
  /\ seat[s].state = "RESERVED"
  /\ seat' = [seat EXCEPT ![s] = Held("SALED", seat[s].by)]
  /\ UNCHANGED granted

(* A cancellation: the seat stays with the ticket through the refund window. *)
Refund(s) ==
  /\ seat[s].state \in {"RESERVED", "SALED"}
  /\ seat' = [seat EXCEPT ![s] = Held("REFUNDED", seat[s].by)]
  /\ UNCHANGED granted

(* The end of the window: the seat can be sold again. *)
Release(s) ==
  /\ seat[s].state = "REFUNDED"
  /\ seat' = [seat EXCEPT ![s] = Free]
  /\ UNCHANGED granted

Next ==
  \E s \in Seats :
    \/ \E id \in Ids, st \in {"RESERVED", "SALED"} : Grant(s, id, st)
    \/ Pay(s)
    \/ Refund(s)
    \/ Release(s)

Spec == Init /\ [][Next]_vars
=============================================================================
