------------------------------- MODULE MCRTC -------------------------------
(* The RTC of one terminal with a base shell and one child, two optional  *)
(* descriptors (fds 2 and 3, so halt's close loop from 3 is exercised),   *)
(* and write frequencies below, at and above the valid range.             *)
EXTENDS RTC, TLC

MCFreqs == {1, 1024, 4096}
\* Every power of two up to 2048 and its neighbours, and the largest value TLC represents (every value >= 1024 takes the same branch).
MCRateFreqs ==
  {0, 2147483647} \cup UNION {{2^k - 1, 2^k, 2^k + 1} : k \in 1..11}
=============================================================================
