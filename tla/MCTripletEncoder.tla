--------------------------- MODULE MCTripletEncoder ---------------------------
(* TLC instances of TripletEncoder.  400 units are 100 %, so that 1 % is 4:*)
(* an error of 401 shrinks the bound by 4, of 450 by 100 (to 0 after four  *)
(* times), and 700 by more than there is.                                  *)
EXTENDS TripletEncoder

ManyErrors == {0, 400, 401, 450, 700, Infinite}
FewErrors == {400, 450, Infinite}
===============================================================================
