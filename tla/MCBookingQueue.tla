--------------------------- MODULE MCBookingQueue ---------------------------
(* Instances of BookingQueue for TLC. *)
EXTENDS BookingQueue, TLC

\* Rows, clients, units and parties are interchangeable in every action; the
\* CHOOSE of Init only fills columns of rows that do not exist yet.
Symmetry ==
    UNION {Permutations(S) : S \in {Bookings, Clients, Units, Parties}}
=============================================================================
