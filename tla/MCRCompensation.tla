--------------------------- MODULE MCRCompensation ---------------------------
(***************************************************************************)
(* The compensation of RCompensation checked against the rule the spec     *)
(* states for it (section 4.4 and invariant I4):                           *)
(*   r_compensation <- clamp(r_compensation + (reservation * win_size      *)
(*                           - r0_counter) / win_size, 0, 0.1 * reservation) *)
(* over every window outcome of an R client with a reservation of at       *)
(* least 10 requests per second (below that 0.1 * reservation truncates    *)
(* to 0 and every compensation is 0).                                      *)
(***************************************************************************)
EXTENDS Integers, RCompensation

CONSTANTS Reservations, WinSizes

\* the window outcomes for which do_next_request updates the compensation:
\* r0_counter dispatches in the window, from the 80% threshold up to one
\* window's worth plus a little over-service, and a previous compensation
\* within its clamp
Outcomes ==
  {o \in [res : Reservations, ws : WinSizes, r0 : 0..(2 * 50), rc : 0..5] :
     /\ o.r0 <= o.res * o.ws + 2
     /\ o.rc <= o.res \div 10
     /\ CompensationDue(o.res, o.ws, o.r0)}

\* the clamp of the spec, with the quotient truncated like the code's int
Clamp(v, lo, hi) == IF v < lo THEN lo ELSE IF v > hi THEN hi ELSE v
SpecCompensation(res, ws, r0, rc) ==
  Clamp(rc + TruncDiv(res * ws - r0, ws), 0, res \div 10)

VARIABLE w

Init == w \in Outcomes
Next == UNCHANGED w
Spec == Init /\ [][Next]_w

\* An R client served at or above its reservation in a window gets no more
\* compensation than the spec's clamp allows: the r_compensation update of
\* do_next_request, on a std::atomic_uint, equals the clamp.
CompensationMatchesSpec ==
  Compensation(w.res, w.ws, w.r0, w.rc) = SpecCompensation(w.res, w.ws, w.r0, w.rc)
=============================================================================
