------------------------------ MODULE MCApiLoad ------------------------------
(* Small instances of ApiLoad for TLC *)
EXTENDS ApiLoad

(* For the interleavings: all successes alike *)
OneAnswer == {[code |-> 200, duration |-> 1]}

(* For the report: fast and slow successes, and both ends of the error range *)
ManyAnswers == {[code |-> 200, duration |-> 1], [code |-> 302, duration |-> 2],
                [code |-> 399, duration |-> 4], [code |-> 400, duration |-> 2],
                [code |-> 599, duration |-> 7], [code |-> 600, duration |-> 3]}
=============================================================================
