------------------------------ MODULE MCPortScan ------------------------------
(* A small instance of PortScan for TLC *)
EXTENDS PortScan

(* Valid ranges, a first port of 0, a reversed range and last ports out of range *)
MCStarts == 0..2
MCEnds == {-1, 1, 4, 5}
=============================================================================
