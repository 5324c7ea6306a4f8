--------------------------- MODULE MCDmClockServer ---------------------------
(***************************************************************************)
(* Model values for DmClockServer.  With Scale = 2 a time unit is half a   *)
(* second: a rate of 1 request/s advances a tag by 2 units, 2 requests/s   *)
(* by 1 unit.  A window of WinSize = 2 s is 4 units.                       *)
(***************************************************************************)
EXTENDS DmClockServer

\* an R client: reservation 1/s, weight 1, no limit
R1 == [type |-> "R", res |-> 1, wgt |-> 1, lim |-> 0]
\* an R client holding only a reservation (scenario 1 of the spec)
R0 == [type |-> "R", res |-> 2, wgt |-> 0, lim |-> 2]
\* a B client: weight 1, limit 2/s
B1 == [type |-> "B", res |-> 0, wgt |-> 1, lim |-> 2]
\* a B client: weight 2, limit 1/s
B2 == [type |-> "B", res |-> 0, wgt |-> 2, lim |-> 1]
\* an A client: weight 1, limit 1/s
A1 == [type |-> "A", res |-> 0, wgt |-> 1, lim |-> 1]
\* an O client: weight 1, no limit
O1 == [type |-> "O", res |-> 0, wgt |-> 1, lim |-> 0]

\* client 1 is switched between R and B, client 2 between B and A
MCInfoChoicesCore == [c \in {1, 2} |-> IF c = 1 THEN {R1, B1} ELSE {B2, A1}]
MCClients == {1, 2}
MCInfoChoicesFixed2 == [c \in {1, 2} |-> IF c = 1 THEN {R1, B1} ELSE {B2}]
MCInfoChoicesO == [c \in {1, 2} |-> IF c = 1 THEN {B1, O1} ELSE {B2}]
\* client 1 is R, client 2 is B with either of two weights
MCInfoChoicesMaint == [c \in {1, 2} |-> IF c = 1 THEN {R1} ELSE {B1, B2}]

\* remove_by_client subtracts the weight on every call, and
\* update_client_infos swaps weights that a later update_client_info
\* accounts as differences, so total_wgt drifts without end; the search
\* stops one weight past the range the two clients can justify
MinTotalWgt == -1
MaxTotalWgt == 5
WeightBound == totalWgt \in MinTotalWgt..MaxTotalWgt
=============================================================================
