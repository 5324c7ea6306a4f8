------------------------- MODULE MCPushPriorityQueue -------------------------
(***************************************************************************)
(* Model values for PushPriorityQueue: two clients and the ClientInfos     *)
(* client_info_f may return for them.  Rates are in requests per second   *)
(* with Scale 2, so a tag advances by 1 or 2 time units.                   *)
(***************************************************************************)
EXTENDS PushPriorityQueue

\* an R client: reservation 1/s, weight 1, no limit
PR1 == [type |-> "R", res |-> 1, wgt |-> 1, lim |-> 0]
\* a B client: weight 1, limit 2/s
PB1 == [type |-> "B", res |-> 0, wgt |-> 1, lim |-> 2]
\* a B client: weight 2, limit 1/s
PB2 == [type |-> "B", res |-> 0, wgt |-> 2, lim |-> 1]
\* an A client: weight 1, limit 1/s
PA1 == [type |-> "A", res |-> 0, wgt |-> 1, lim |-> 1]

MCPushClients == {1, 2}
\* client 1 is R or B, client 2 is B
MCPushInfoRB == [c \in {1, 2} |-> IF c = 1 THEN {PR1, PB1} ELSE {PB2}]
\* client 1 is B, client 2 is A
MCPushInfoBA == [c \in {1, 2} |-> IF c = 1 THEN {PB1} ELSE {PA1}]
=============================================================================
