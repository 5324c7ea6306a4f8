---------------------------- MODULE RCompensation ----------------------------
(***************************************************************************)
(* The per-window reservation compensation of an R client, computed in     *)
(* do_next_request (src/src/dmclock_server.h) when the window rolls over:  *)
(*                                                                         *)
(*   int compensate = (reservation * win_size - r0_counter) / win_size;    *)
(*   r_compensation += compensate;            // std::atomic_uint          *)
(*   if (r_compensation < 0) r_compensation = 0;                           *)
(*   else if (r_compensation > reservation * 0.1)                          *)
(*     r_compensation = reservation * 0.1;                                 *)
(*                                                                         *)
(* r_compensation is a 32-bit unsigned integer: adding a negative          *)
(* compensate wraps modulo 2^32 and the "< 0" test is always false.  The   *)
(* double quotient is truncated toward zero by the conversion to int, and  *)
(* reservation * 0.1 by the conversion to unsigned.                        *)
(***************************************************************************)
EXTENDS Integers

\* conversion of a double quotient a / b (b > 0) to int: truncation toward zero
TruncDiv(a, b) == IF a >= 0 THEN a \div b ELSE -((-a) \div b)

\* rc + compensate stored into the 32-bit unsigned r_compensation wraps to
\* 2^32 + (rc + compensate) when the sum is negative.  TLC's integers cannot
\* hold 2^32; the wrapped value only enters the comparison with
\* reservation * 0.1, which it exceeds for every reservation below 2^31,
\* so a wrapped sum is represented by its effect on that comparison.
Wraps(rc, compensate) == rc + compensate < 0

\* r_compensation after one window, for reservation res (requests per
\* second), window ws (seconds), r0 reservation dispatches in the window and
\* the previous compensation rc
Compensation(res, ws, r0, rc) ==
  LET compensate == TruncDiv(res * ws - r0, ws)
      added      == rc + compensate
  IN IF Wraps(rc, compensate) \/ 10 * added > res THEN res \div 10 ELSE added

\* whether the window's compensation is updated at all:
\* r0_counter >= reservation * win_size * 0.8
CompensationDue(res, ws, r0) == 10 * r0 >= 8 * res * ws
=============================================================================
