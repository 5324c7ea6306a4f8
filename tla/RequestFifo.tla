----------------------------- MODULE RequestFifo -----------------------------
(***************************************************************************)
(* What the scheduler promises a caller about the requests of each client, *)
(* whatever the tags and classes: they are returned in the order they were *)
(* added (FIFO within a client, spec section 5), each one at most once,    *)
(* and they leave a queue only by being returned or, when the caller makes *)
(* such calls (CallerCancels), by remove_by_client and                     *)
(* remove_by_req_filter.  Across clients any order is allowed.  out is     *)
(* what the last pull returned: a request, or NoReq for None and Future.   *)
(***************************************************************************)
EXTENDS Sequences, SequencesExt

CONSTANTS
  Clients,       \* client ids
  Ids,           \* request ids
  CallerCancels  \* whether the caller calls remove_by_client/remove_by_req_filter

VARIABLES
  queues,   \* queues[c]: the ids of c's requests not yet returned, in order
  out       \* the last request returned, or NoReq

fifoVars == <<queues, out>>

NoReq == [client |-> 0, id |-> 0]

\* every id is added once
Added == UNION {ToSet(queues[c]) : c \in Clients}

Init ==
  /\ queues = [c \in Clients |-> <<>>]
  /\ out = NoReq

Add(c, i) ==
  /\ i \notin Added
  /\ queues' = [queues EXCEPT ![c] = Append(@, i)]
  /\ UNCHANGED out

\* the front request of one client is returned
Serve(c) ==
  /\ queues[c] # <<>>
  /\ out' = [client |-> c, id |-> Head(queues[c])]
  /\ queues' = [queues EXCEPT ![c] = Tail(@)]

\* a pull that returns nothing
Wait ==
  /\ out' = NoReq
  /\ UNCHANGED queues

\* remove_by_client: all of c's requests are dropped
Cancel(c) ==
  /\ queues' = [queues EXCEPT ![c] = <<>>]
  /\ UNCHANGED out

\* remove_by_req_filter: the requests in F are dropped
CancelSome(F) ==
  /\ queues' = [c \in Clients |-> SelectSeq(queues[c], LAMBDA i : i \notin F)]
  /\ UNCHANGED out

Next ==
  \/ \E c \in Clients, i \in Ids : Add(c, i)
  \/ \E c \in Clients : Serve(c)
  \/ Wait
  \/ CallerCancels /\ \E c \in Clients : Cancel(c)
  \/ CallerCancels /\ \E F \in SUBSET Added : CancelSome(F)

Spec == Init /\ [][Next]_fifoVars
=============================================================================
