------------------------------ MODULE MCTrips ------------------------------
(* Speeds and delays around the limits of the analysis, in minutes.        *)
EXTENDS Trips

MCSpeeds == {5, 6, 20}
MCDelays == {0, 1, 3, 10, 11}
=============================================================================
