--------------------------- MODULE MCDistribution ---------------------------
(* Instances of Distribution for TLC. *)
EXTENDS Distribution, TLC

CONSTANTS e1, q1, q2

\* What drunner.run puts for one tag with two sequential tests: the ticket of
\* the tag's empty parallel set first.
ThreeTickets == <<e1, q1, q2>>

=============================================================================
