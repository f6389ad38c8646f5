-------------------------------- MODULE Ring --------------------------------
(***************************************************************************)
(* The index arithmetic of shared/ring.c.  A ring context is the triple    *)
(* front, back, size; front is the slot the producer fills next and back   *)
(* the slot the consumer waits for.  The ring holds at most size - 1       *)
(* entries, because front = back means that it is empty.                   *)
(***************************************************************************)
EXTENDS Integers

(***************************************************************************)
(* ringIncFront and ringIncBack: x++; if (x >= size) x = 0.                *)
(***************************************************************************)
ringInc(x, size) == IF x + 1 >= size THEN 0 ELSE x + 1

(***************************************************************************)
(* Plausible errors of ringHasFree: the room of one free slot forgotten,   *)
(* and no test at all.                                                     *)
(***************************************************************************)
ringHasFreeAlways(front, back, size) == TRUE

ringHasFree(front, back, size) ==
  LET fplus == IF front + 1 >= size THEN 0 ELSE front + 1
  IN  fplus # back

ringHasRemaining(front, back) == front # back

(***************************************************************************)
(* The number of entries between two indices of the same ring, going up    *)
(* from b to a.  Not in the code: it is how the properties speak of        *)
(* "how far ahead".                                                        *)
(***************************************************************************)
Dist(a, b, size) == IF a >= b THEN a - b ELSE a - b + size
=============================================================================
