------------------------------ MODULE MCHostList ------------------------------
(***************************************************************************)
(* One element of one range over numbers below 16, with at most three      *)
(* hosts; a range may end at the largest number.                           *)
(***************************************************************************)
EXTENDS HostList

Extreme == {<< <<RangePart("node", low, high, 2)>> >> : low \in {0, 9, 14}, high \in {2, 15}}
===============================================================================
