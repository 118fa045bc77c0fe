---------------------------- MODULE MCRssiWindow ----------------------------
(* RssiWindow with halves of three readings: a failed reading (127), one     *)
(* that only didFindBeacon accepts (-80), the weakest accepted one, and      *)
(* three more, far enough apart for some to be outliers.                     *)
EXTENDS RssiWindow

MCHalf == 3
MCRSSI == {127, -80, -75, -74, -60, -48}
=============================================================================
