------------------------------- MODULE MC_Oracle -------------------------------
(***************************************************************************)
(* Model-checking instance of Oracle: the input sets with negative values, *)
(* which a .cfg cannot write.                                              *)
(***************************************************************************)
EXTENDS Oracle

\* Pyth exponents from 10^-6 to 10^6: at +-6 the power itself overflows
\* U128_MAX.
ScalingExponents == {-6, -4, -3, -2, -1, 0, 2, 6}

\* Around Now = 100 and Staleness = 60: negative and zero (fallback "now"),
\* one second too old, the oldest accepted, current, one second ahead.
ScalingPublishTimes == {-5, 0, 39, 40, 100, 101}
=============================================================================
