--------------------------- MODULE MCSeatBooking ---------------------------
(***************************************************************************)
(* Instances of SeatBooking for TLC, with the manifests of a plane of      *)
(* three seats.  A manifest fills the seats its target leaves after the    *)
(* sold ones, in the order of FillOrder, which stands for the shuffle: it  *)
(* depends on the number of available seats and on nothing else.           *)
(***************************************************************************)
EXTENDS SeatBooking, TLC

Symmetry == Permutations(Sessions)

FillOrder(n) == IF n = 3 THEN <<1, 2, 3>> ELSE <<3, 1, 2>>

Fill(eligible, target, sold, held) ==
  LET available == eligible \ (sold \union held)
      order     == FillOrder(Cardinality(available))
      before(i) == {j \in 1 .. i - 1 : order[j] \in available}
  IN  {order[i] : i \in {j \in DOMAIN order :
         order[j] \in available /\ Cardinality(before(j)) + Cardinality(sold) < target}}

(* Every seat has a fare, and one is filled at first. *)
AllEligible(m)               == Seats
OneFilled(m, sold, held)     == Fill(Seats, 1, sold, held)
NoneFilled(m, sold, held)    == Fill(Seats, 0, sold, held)

(* Matrix 1 sells seats 2 and 3 and fills one; matrix 2 sells all three    *)
(* seats and fills two.                                                    *)
GrowingEligible(m)           == IF m = 1 THEN Seats \ {1} ELSE Seats
GrowingFilled(m, sold, held) == Fill(GrowingEligible(m), m, sold, held)
=============================================================================
