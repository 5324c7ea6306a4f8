---------------------------- MODULE DmClockServer ----------------------------
(***************************************************************************)
(* The class-partitioned dmClock scheduler of src/src/dmclock_server.h:    *)
(* PriorityQueueBase driven through the pull facade PullPriorityQueue.     *)
(*                                                                         *)
(* Every public call takes data_mtx for its whole body, so each one is a   *)
(* single atomic action here: AddRequest (do_add_request), PullRequest     *)
(* (do_next_request with its window maintenance, then                      *)
(* pop_process_request), DoClean (the janitor do_clean) and the caller     *)
(* advancing the clock (Tick).  The m_win try-lock is only taken while     *)
(* data_mtx is held, so it always succeeds.  client_info_f is the caller's *)
(* function: each call returns any of InfoChoices[c].                      *)
(*                                                                         *)
(* Time is an integer count of 1/Scale seconds.  Rates are integers in     *)
(* requests per second, so a tag increment 1/rate is Scale \div rate time  *)
(* units.  +infinity (max_tag, TimeMax) is the sentinel MaxTag and         *)
(* -infinity (min_tag) is -MaxTag.                                         *)
(*                                                                         *)
(* The seven heaps are abstracted to their member sets: a heap's top is    *)
(* any member that no other member precedes under the heap's               *)
(* ClientCompare, which is what the heap property guarantees; which of     *)
(* several equal members is on top depends on the heap's history, so it   *)
(* is a nondeterministic choice.                                           *)
(***************************************************************************)
EXTENDS Integers, Sequences, FiniteSets, SequencesExt, RCompensation

CONSTANTS
  Clients,             \* client ids 1..N; client_map iterates in this order
  InfoChoices,         \* [Clients -> SUBSET ClientInfo]: what client_info_f may return
  Scale,               \* time units per second
  SystemCapacity,      \* system_capacity, requests per second
  WinSize,             \* win_size, seconds
  AllowLimitBreak,     \* allow_limit_break
  AnticipationTimeout, \* anticipation_timeout, time units
  IdleAge,             \* idle_age, time units
  EraseAge,            \* erase_age, time units
  CheckTime,           \* check_time: period of the janitor, time units
  DistValues,          \* the values a caller passes as ReqParams rho and delta
  MaxTag,              \* +infinity; larger than every finite tag
  MaxTime,             \* bound on the clock
  MaxTick,             \* bound on tick, i.e. on the number of add_request calls
  CallerOps            \* the maintenance calls the caller makes: a subset of
                       \* {"remove", "filter", "update", "updates"}

Types == {"R", "B", "A", "O"}

\* ClientInfo: rates in requests per second and the client class.
ClientInfo == [type : Types, res : Nat, wgt : Nat, lim : Nat]

ASSUME Clients \subseteq Nat \ {0}
ASSUME \A c \in Clients : InfoChoices[c] # {} /\ InfoChoices[c] \subseteq ClientInfo
ASSUME \A c \in Clients : \A i \in InfoChoices[c] :
         \A rate \in {i.res, i.wgt, i.lim} : rate # 0 => Scale % rate = 0
ASSUME WinSize \in Nat \ {0} /\ Scale \in Nat \ {0}
ASSUME CallerOps \subseteq {"remove", "filter", "update", "updates"}
ASSUME CheckTime > 0 /\ IdleAge > CheckTime /\ EraseAge >= IdleAge

VARIABLES
  now,       \* the time passed to every call
  tick,      \* tick: incremented by every add_request
  winStart,  \* win_start
  totalWgt,  \* total_wgt
  active,    \* the keys of client_map
  cl,        \* cl[c]: the ClientRec of c (meaningful when c \in active)
  marks,     \* clean_mark_points: <<time, tick>> pairs of the janitor
  lastClean, \* when the janitor last ran
  result     \* what the last pull_request returned

vars == <<now, tick, winStart, totalWgt, active, cl, marks, lastClean, result>>

WinUnits == WinSize * Scale
MinTag == -MaxTag
NoClient == 0

MaxOf(a, b) == IF a >= b THEN a ELSE b
MinOf(a, b) == IF a <= b THEN a ELSE b

(***************************************************************************)
(* Tag arithmetic: RequestTag and its tag_calc.                            *)
(***************************************************************************)

\* the multiplicative inverses kept by ClientInfo, in time units
Inv(rate) == IF rate = 0 THEN 0 ELSE Scale \div rate

\* +/-infinity absorb any finite addition, as doubles do
AddTag(t, d) == IF t \in {MaxTag, MinTag} THEN t ELSE t + d

ZeroTag == [r |-> 0, p |-> 0, l |-> 0, ready |-> FALSE, arrival |-> 0]

TagCalc(time, prev, increment, dist, extremeIsHigh) ==
  IF increment = 0 THEN (IF extremeIsHigh THEN MaxTag ELSE MinTag)
  ELSE MaxOf(time, AddTag(prev, IF dist # 0 THEN increment * dist ELSE increment))

\* RequestTag(prev_tag, client, delta, rho, time, cost, anticipation_timeout)
NewTag(prev, info, delta, rho, time) ==
  LET maxTime == IF time - AnticipationTimeout < prev.arrival
                 THEN time - AnticipationTimeout ELSE time
  IN [r |-> TagCalc(maxTime, prev.r, Inv(info.res), rho, TRUE),
      p |-> TagCalc(maxTime, prev.p, Inv(info.wgt), delta, TRUE),
      l |-> TagCalc(maxTime, prev.l, Inv(info.lim), delta, FALSE),
      ready |-> FALSE,
      arrival |-> time]

\* ClientRec::update_req_tag: infinite fields are not copied (assign_unpinned_tag)
Unpinned(old, new) == IF new \in {MaxTag, MinTag} THEN old ELSE new
UpdateReqTag(prev, tag) ==
  [prev EXCEPT !.r = Unpinned(@, tag.r), !.l = Unpinned(@, tag.l),
               !.p = Unpinned(@, tag.p), !.arrival = tag.arrival]

(***************************************************************************)
(* Client records, heap membership and resources.                          *)
(***************************************************************************)

HeapIds == {"resv", "rlimit", "deltar", "limit", "burst", "best", "bestlimit"}

\* the heaps a client of each class is pushed into
HeapsOf(type) ==
  CASE type = "R" -> {"resv", "rlimit", "deltar"}
    [] type = "B" -> {"limit", "burst"}
    [] OTHER      -> {"best", "bestlimit"}

\* resource = system_capacity * weight * win_size / total_wgt, as a fraction
\* n/d; d = 0 is the division by zero of doubles (+inf, -inf or NaN), and a
\* resource never assigned since the ClientRec was built is undefined.
Undefined == [def |-> FALSE, n |-> 0, d |-> 0]
Share(w, total) == [def |-> TRUE, n |-> SystemCapacity * w * WinSize, d |-> total]

\* ClientRec(client, info, current_tick)
NewRec(info, t) ==
  [info |-> info, comp |-> info, heaps |-> HeapsOf(info.type),
   q |-> <<>>, hd |-> ZeroTag, prev |-> ZeroTag, pdelta |-> 0,
   idle |-> TRUE, ltick |-> t, rho |-> 1, delta |-> 1,
   res |-> Undefined, r0 |-> 0, drc |-> 0, bc |-> 0, rcomp |-> 0]

Blank == NewRec([type |-> "O", res |-> 0, wgt |-> 0, lim |-> 0], 0)

\* update_client_res: the loop of add_total_wgt_and_update_client_res
UpdateClientRes(cs, A, total) ==
  [c \in Clients |-> IF c \in A THEN [cs[c] EXCEPT !.res = Share(cs[c].info.wgt, total)]
                                ELSE cs[c]]

\* client_info_wrapper: R clients compute tags from their compensated info
WrapperInfo(x) == IF x.info.type = "R" THEN x.comp ELSE x.info

\* k < std::max(resource - sub, 0.0) for a counter k >= 0; reading an
\* undefined resource yields whatever the garbage compares to (g).
BelowBudget(k, v, sub, g) ==
  IF ~v.def THEN g
  ELSE LET n == v.n - sub * v.d
       IN CASE v.d = 0 -> n > 0
            [] v.d > 0 -> k * v.d < n
            [] OTHER   -> k * v.d > n

(***************************************************************************)
(* ClientCompare and the tops of the heaps.                                *)
(***************************************************************************)

ReadyOpt(h) ==
  CASE h = "resv"                            -> "ignore"
    [] h \in {"rlimit", "limit", "bestlimit"} -> "lowers"
    [] OTHER                                 -> "raises"

Key(x, h) ==
  CASE h = "resv"                            -> x.hd.r
    [] h \in {"rlimit", "limit", "bestlimit"} -> x.hd.l
    [] OTHER                                 -> AddTag(x.hd.p, x.pdelta)

\* ClientCompare::operator(): a must precede b in heap h
Precedes(cs, h, a, b) ==
  LET x == cs[a]  y == cs[b]
  IN IF x.q # <<>> /\ y.q # <<>>
     THEN IF ReadyOpt(h) = "ignore" \/ x.hd.ready = y.hd.ready
          THEN Key(x, h) < Key(y, h)
          ELSE IF ReadyOpt(h) = "raises" THEN x.hd.ready ELSE y.hd.ready
     ELSE x.q # <<>> /\ y.q = <<>>

Members(cs, A, h) == {c \in A : h \in cs[c].heaps}

\* the members that may be on top of heap h, or NoClient when h is empty
TopChoices(cs, A, h) ==
  LET M == Members(cs, A, h)
  IN IF M = {} THEN {NoClient}
     ELSE {c \in M : \A d \in M : ~Precedes(cs, h, d, c)}

HasReq(cs, c) == c # NoClient /\ cs[c].q # <<>>

(***************************************************************************)
(* Window maintenance at the top of do_next_request.                       *)
(***************************************************************************)

\* mutant: the client is not erased from the heaps of its old class
MoveToAnotherHeapKeepOld(cs, A, c, ni) ==
  [cs EXCEPT ![c].heaps = @ \cup HeapsOf(ni.type)]

\* move_to_another_heap: leave the old class's heaps, inherit the tags of
\* the top of the new class's reservation or proportion heap, join the new
\* class's heaps.  Among equal tops CHOOSE stands for the heap's tie-break.
MoveToAnotherHeap(cs, A, c, ni) ==
  LET cs1 == [cs EXCEPT ![c].heaps = {}]
      dest == CASE ni.type = "R" -> "resv" [] ni.type = "B" -> "burst" [] OTHER -> "best"
      top == CHOOSE t \in TopChoices(cs1, A, dest) : TRUE
      x == cs1[c]
      x1 == IF top = NoClient THEN x
            ELSE [x EXCEPT !.prev = cs1[top].prev,
                           !.hd = IF x.q # <<>> /\ HasReq(cs1, top) THEN cs1[top].hd ELSE @]
  IN [cs1 EXCEPT ![c] = [x1 EXCEPT !.heaps = HeapsOf(ni.type)]]

\* mutant: the total weight is not adjusted when the weight changes
RefetchInfoKeepTotal(acc, c, ni) ==
  LET changed == ni # acc.cs[c].info
      cs1 == IF changed /\ ni.type # acc.cs[c].info.type
             THEN MoveToAnotherHeap(acc.cs, acc.A, c, ni) ELSE acc.cs
      cs2 == IF changed THEN [cs1 EXCEPT ![c].info = ni] ELSE cs1
  IN [acc EXCEPT !.cs = cs2]

\* mutant: the resources are not recomputed when the weight changes
RefetchInfoKeepRes(acc, c, ni) ==
  LET changed == ni # acc.cs[c].info
      cs1 == IF changed /\ ni.type # acc.cs[c].info.type
             THEN MoveToAnotherHeap(acc.cs, acc.A, c, ni) ELSE acc.cs
      cs2 == IF changed THEN [cs1 EXCEPT ![c].info = ni] ELSE cs1
  IN [acc EXCEPT !.cs = cs2,
                 !.total = @ + (IF changed THEN ni.wgt - acc.cs[c].info.wgt ELSE 0)]

\* re-fetch of c's ClientInfo at a window roll-over, ni being what
\* client_info_f returns: migrate on a class change, adopt the new info,
\* and on a weight change adjust total_wgt and every resource
RefetchInfo(acc, c, ni) ==
  LET x == acc.cs[c]
      changed == ni # x.info
      cs1 == IF changed /\ ni.type # x.info.type
             THEN MoveToAnotherHeap(acc.cs, acc.A, c, ni) ELSE acc.cs
      cs2 == IF changed THEN [cs1 EXCEPT ![c].info = ni] ELSE cs1
      wd == IF changed THEN ni.wgt - x.info.wgt ELSE 0
      total == acc.total + wd
  IN [acc EXCEPT !.cs = IF wd # 0 THEN UpdateClientRes(cs2, acc.A, total) ELSE cs2,
                 !.total = total]

\* the compensation of an R client and the reset of the window's counters
CompensateAndReset(y) ==
  LET rc == Compensation(y.info.res, WinSize, y.r0, y.rcomp)
      y1 == IF y.info.type = "R" /\ CompensationDue(y.info.res, WinSize, y.r0)
            THEN [y EXCEPT !.rcomp = rc,
                           !.comp = [type |-> "R", res |-> y.info.res + rc,
                                     wgt |-> y.info.wgt, lim |-> y.info.lim]]
            ELSE y
  IN [y1 EXCEPT !.r0 = 0, !.drc = 0, !.bc = 0]

\* the loop body over client_map when the window rolls over
RollClient(acc, c, ni) ==
  LET a1 == RefetchInfo(acc, c, ni)
  IN [a1 EXCEPT !.cs[c] = CompensateAndReset(@)]

RollWindow(cs, total, infos) ==
  FoldLeft(LAMBDA acc, c : RollClient(acc, c, infos[c]),
           [cs |-> cs, total |-> total, A |-> active], SetToSortSeq(active, <))

\* the possible results of calling client_info_f for every client
InfoVectors == {f \in [Clients -> UNION {InfoChoices[c] : c \in Clients}] :
                  \A c \in Clients : f[c] \in InfoChoices[c]}

(***************************************************************************)
(* Dispatch: the limit walks, pop_process_request and the next-call time.  *)
(***************************************************************************)

\* the while loop over a limit heap: every member whose front request has
\* reached its limit tag becomes ready
Walk(cs, lh) ==
  [c \in Clients |->
     IF c \in Members(cs, active, lh) /\ cs[c].q # <<>>
        /\ ~cs[c].hd.ready /\ cs[c].hd.l <= now
     THEN [cs[c] EXCEPT !.hd.ready = TRUE] ELSE cs[c]]

\* reduce_reservation_tags: front request and prev_tag, by the compensated rate
ReduceReservationTags(x) ==
  LET d == Inv(WrapperInfo(x).res)
  IN [x EXCEPT !.hd.r = IF x.q # <<>> THEN AddTag(@, -d) ELSE @,
               !.prev.r = AddTag(@, -d)]

\* mutant: the next request becomes the front with its placeholder tag
PopProcessRequestPlaceholder(cs, c, isDelta) ==
  LET x == cs[c]
      rest == Tail(x.q)
      x1 == IF rest # <<>>
            THEN [x EXCEPT !.q = rest, !.hd = [ZeroTag EXCEPT !.arrival = Head(rest).arr],
                           !.ltick = tick]
            ELSE [x EXCEPT !.q = rest, !.hd = ZeroTag]
      x2 == IF isDelta /\ WrapperInfo(x1).type = "R" THEN ReduceReservationTags(x1) ELSE x1
  IN [cs EXCEPT ![c] = x2]

\* pop_process_request on the top c, with the deferred tag calculation
PopProcessRequest(cs, c, isDelta) ==
  LET x == cs[c]
      rest == Tail(x.q)
      nh == NewTag(x.hd, WrapperInfo(x), x.delta, x.rho, Head(rest).arr)
      x1 == IF rest # <<>>
            THEN [x EXCEPT !.q = rest, !.hd = nh, !.prev = UpdateReqTag(@, nh),
                           !.ltick = tick]
            ELSE [x EXCEPT !.q = rest, !.hd = ZeroTag]
      x2 == IF isDelta /\ WrapperInfo(x1).type = "R" THEN ReduceReservationTags(x1) ELSE x1
  IN [cs EXCEPT ![c] = x2]

NoneResult == [type |-> "none", when |-> 0, client |-> NoClient, id |-> 0, heap |-> "none"]

\* mutant: the reservation counter is decremented
BumpDown(cs, c, ctr) ==
  IF ctr = "r0" THEN [cs EXCEPT ![c].r0 = @ - 1] ELSE cs

\* the counter a rung of the ladder increments before returning
Bump(cs, c, ctr) ==
  CASE ctr = "r0"  -> [cs EXCEPT ![c].r0 = @ + 1]
    [] ctr = "drc" -> [cs EXCEPT ![c].drc = @ + 1]
    [] ctr = "bc"  -> [cs EXCEPT ![c].bc = @ + 1]
    [] OTHER       -> cs

\* mutant: the request is returned but not popped
DispatchNoPop(cs, c, h, ctr) ==
  [cs |-> Bump(cs, c, ctr),
   res |-> [type |-> "returning", when |-> 0, client |-> c,
            id |-> Head(cs[c].q).id, heap |-> h]]

\* return NextReq(heap) from rung ctr and let pull_request pop that heap's top
Dispatch(cs, c, h, ctr) ==
  [cs |-> PopProcessRequest(Bump(cs, c, ctr), c, h = "deltar"),
   res |-> [type |-> "returning", when |-> 0, client |-> c,
            id |-> Head(cs[c].q).id, heap |-> h]]

MinNot0Time(cur, possible) == IF possible = 0 THEN cur ELSE MinOf(cur, possible)

\* the tail of do_next_request when nothing is dispatched
NextCall(cs, tr, trl, tl) ==
  LET n1 == IF HasReq(cs, tr) THEN MinNot0Time(MaxTag, cs[tr].hd.r) ELSE MaxTag
      n2 == IF HasReq(cs, trl) THEN MinNot0Time(n1, cs[trl].hd.l) ELSE n1
      n3 == IF HasReq(cs, tl) THEN MinNot0Time(n2, cs[tl].hd.l) ELSE n2
  IN IF n3 < MaxTag THEN [NoneResult EXCEPT !.type = "future", !.when = n3]
     ELSE NoneResult

\* rule 1: the top of resv_heap has a reservation tag that is due
\* mutant: a reservation tag equal to now is not yet due
ReservationDueStrict(cs, c) == HasReq(cs, c) /\ cs[c].hd.r < now
ReservationDue(cs, c) == HasReq(cs, c) /\ cs[c].hd.r <= now

\* a top that rules 3, 5 and 7 may dispatch: ready and with a finite
\* proportion tag
Eligible(cs, c) == HasReq(cs, c) /\ cs[c].hd.ready /\ cs[c].hd.p < MaxTag

\* a top that the limit break may dispatch
\* mutant: the limit break also waits for the limit tag
BreakableOnlyReady(cs, c) ==
  AllowLimitBreak /\ HasReq(cs, c) /\ cs[c].hd.ready /\ cs[c].hd.p < MaxTag
Breakable(cs, c) == AllowLimitBreak /\ HasReq(cs, c) /\ cs[c].hd.p < MaxTag

\* what a comparison with an undefined resource may yield: anything, once
\* some client's resource is undefined
Garbage(cs) == IF \E c \in active : ~cs[c].res.def THEN BOOLEAN ELSE {FALSE}

\* mutant: the deltar rung is tested before the r_limit walk; g is what a
\* comparison with an undefined resource yields
LadderDeltarFirst(S0, g) ==
  LET S1 == Walk(S0, "limit")
      S2 == Walk(S1, "rlimit")
      S3 == Walk(S2, "bestlimit")
  IN { IF ReservationDue(S0, tr) THEN Dispatch(S0, tr, "resv", "r0")
       ELSE IF tb # NoClient /\ BelowBudget(S1[tb].bc, S1[tb].res, 0, g) /\ Eligible(S1, tb)
         THEN Dispatch(S1, tb, "burst", "bc")
       ELSE IF td # NoClient /\ Eligible(S1, td)
               /\ BelowBudget(S1[td].drc, S1[td].res, S1[td].info.res * WinSize, g)
         THEN Dispatch(S1, td, "deltar", "drc")
       ELSE IF Eligible(S3, te) THEN Dispatch(S3, te, "best", "be")
       ELSE IF Breakable(S3, tb) THEN Dispatch(S3, tb, "burst", "bb")
       ELSE IF Breakable(S3, te) THEN Dispatch(S3, te, "best", "beb")
       ELSE IF Breakable(S3, td) THEN Dispatch(S3, td, "deltar", "drb")
       ELSE IF AllowLimitBreak /\ HasReq(S3, tr) /\ S3[tr].hd.r < MaxTag
         THEN Dispatch(S3, tr, "resv", "r0b")
       ELSE [cs |-> S3, res |-> NextCall(S3, tr, trl, tl)]
     : tr \in TopChoices(S3, active, "resv"), tb \in TopChoices(S3, active, "burst"),
       td \in TopChoices(S3, active, "deltar"), te \in TopChoices(S3, active, "best"),
       trl \in TopChoices(S3, active, "rlimit"), tl \in TopChoices(S3, active, "limit") }

\* the dispatch ladder on the state S0 after window maintenance; g is what a
\* comparison with an undefined resource yields
Ladder(S0, g) ==
  LET S1 == Walk(S0, "limit")
      S2 == Walk(S1, "rlimit")
      S3 == Walk(S2, "bestlimit")
  IN { IF ReservationDue(S0, tr) THEN Dispatch(S0, tr, "resv", "r0")
       ELSE IF tb # NoClient /\ BelowBudget(S1[tb].bc, S1[tb].res, 0, g) /\ Eligible(S1, tb)
         THEN Dispatch(S1, tb, "burst", "bc")
       ELSE IF td # NoClient /\ Eligible(S2, td)
               /\ BelowBudget(S2[td].drc, S2[td].res, S2[td].info.res * WinSize, g)
         THEN Dispatch(S2, td, "deltar", "drc")
       ELSE IF Eligible(S3, te) THEN Dispatch(S3, te, "best", "be")
       ELSE IF Breakable(S3, tb) THEN Dispatch(S3, tb, "burst", "bb")
       ELSE IF Breakable(S3, te) THEN Dispatch(S3, te, "best", "beb")
       ELSE IF Breakable(S3, td) THEN Dispatch(S3, td, "deltar", "drb")
       ELSE IF AllowLimitBreak /\ HasReq(S3, tr) /\ S3[tr].hd.r < MaxTag
         THEN Dispatch(S3, tr, "resv", "r0b")
       ELSE [cs |-> S3, res |-> NextCall(S3, tr, trl, tl)]
     : tr \in TopChoices(S3, active, "resv"), tb \in TopChoices(S3, active, "burst"),
       td \in TopChoices(S3, active, "deltar"), te \in TopChoices(S3, active, "best"),
       trl \in TopChoices(S3, active, "rlimit"), tl \in TopChoices(S3, active, "limit") }

(***************************************************************************)
(* Actions                                                                 *)
(***************************************************************************)

\* do_add_request(c, rho, delta, now) on client_map A, records cs, total_wgt
\* total and tick t: the resulting [cs, A, total, tick].  info is what
\* client_info_f returns if c is new.
Admitted(cs, A, total, t, c, info, rho, delta) ==
  LET t1 == t + 1
      new == c \notin A
      A1 == A \cup {c}
      cs0 == IF new THEN [cs EXCEPT ![c] = NewRec(info, t1)] ELSE cs
      weighted == new /\ info.type # "O"
      total1 == IF weighted THEN total + info.wgt ELSE total
      cs1 == IF weighted THEN UpdateClientRes(cs0, A1, total1) ELSE cs0
      x == cs1[c]
      EffP(y) == AddTag(IF y.q # <<>> THEN y.hd.p ELSE y.prev.p, y.pdelta)
      lowest == {EffP(cs1[d]) : d \in {d \in A1 : ~cs1[d].idle}} \ {MaxTag}
      x1 == IF x.idle
            THEN [x EXCEPT !.idle = FALSE,
                           !.pdelta = IF lowest # {} THEN Min(lowest) - now ELSE @]
            ELSE x
      tag == NewTag(x1.prev, WrapperInfo(x1), delta, rho, now)
      x2 == IF x1.q = <<>>
            THEN [x1 EXCEPT !.hd = tag, !.prev = UpdateReqTag(@, tag), !.ltick = t1]
            ELSE x1
      x3 == [x2 EXCEPT !.q = Append(@, [id |-> t1, arr |-> now]),
                       !.rho = rho, !.delta = delta]
  IN [cs |-> [cs1 EXCEPT ![c] = x3], A |-> A1, total |-> total1, tick |-> t1]

\* PullPriorityQueue::add_request -> do_add_request, at time now
AddRequest(c, info, rho, delta) ==
  /\ tick < MaxTick
  /\ LET s == Admitted(cl, active, totalWgt, tick, c, info, rho, delta)
     IN /\ tick' = s.tick
        /\ active' = s.A
        /\ totalWgt' = s.total
        /\ cl' = s.cs
  /\ UNCHANGED <<now, winStart, marks, lastClean, result>>

\* the possible results of do_next_request(now) followed, for Returning, by
\* pop_process_request on the chosen heap: records [cs, total, win, res]
\* of the new client records, total_wgt, win_start and the NextReq
DoNextRequest ==
  IF \A c \in active : cl[c].heaps \cap {"resv", "burst", "best"} = {}
  THEN {[cs |-> cl, total |-> totalWgt, win |-> winStart, res |-> NoneResult]}
  ELSE LET roll == now - winStart >= WinUnits
           win == IF roll THEN MaxOf(winStart + WinUnits, now) ELSE winStart
       IN UNION {
            LET W == IF roll THEN RollWindow(cl, totalWgt, infos)
                     ELSE [cs |-> cl, total |-> totalWgt, A |-> active]
            IN {[cs |-> o.cs, total |-> W.total, win |-> win, res |-> o.res] :
                  o \in UNION {Ladder(W.cs, g) : g \in Garbage(W.cs)}}
            : infos \in IF roll THEN InfoVectors ELSE {[c \in Clients |-> cl[c].info]} }

\* PullPriorityQueue::pull_request(now) -> do_next_request, pop_process_request
PullRequest ==
  /\ \E o \in DoNextRequest :
       /\ cl' = o.cs /\ totalWgt' = o.total /\ winStart' = o.win /\ result' = o.res
  /\ UNCHANGED <<now, tick, active, marks, lastClean>>

\* do_clean's mark points: the new mark, the ones older than erase_age
\* popped off the front (the last of them gives erase_point) and the last
\* of the remaining ones older than idle_age (idle_point)
CleanMarks == Append(marks, [t |-> now, tick |-> tick])
EraseCount == Cardinality({i \in 1..Len(CleanMarks) : CleanMarks[i].t <= now - EraseAge})
ErasePoint == IF EraseCount > 0 THEN CleanMarks[EraseCount].tick ELSE 0
KeptMarks == SubSeq(CleanMarks, EraseCount + 1, Len(CleanMarks))
IdlePoint ==
  LET k == Cardinality({i \in 1..Len(KeptMarks) : KeptMarks[i].t <= now - IdleAge})
  IN IF k > 0 THEN KeptMarks[k].tick ELSE 0

\* the clients do_clean erases and the ones it marks idle
Erased == {c \in active : ErasePoint > 0 /\ cl[c].ltick <= ErasePoint}
Idled == {c \in active \ Erased : IdlePoint > 0 /\ cl[c].ltick <= IdlePoint}
Cleaned == [c \in Clients |-> IF c \in Erased THEN Blank
                              ELSE IF c \in Idled THEN [cl[c] EXCEPT !.idle = TRUE]
                              ELSE cl[c]]

\* mutant: erasure does not subtract the erased weights
DoCleanKeepTotal ==
  /\ now >= lastClean + CheckTime
  /\ marks' = KeptMarks /\ lastClean' = now
  /\ active' = active \ Erased /\ cl' = Cleaned
  /\ UNCHANGED <<now, tick, winStart, totalWgt, result>>

\* mutant: erasure does not recompute the remaining resources
DoCleanKeepRes ==
  /\ now >= lastClean + CheckTime
  /\ marks' = KeptMarks /\ lastClean' = now
  /\ active' = active \ Erased /\ cl' = Cleaned
  /\ totalWgt' = totalWgt - MapThenSumSet(LAMBDA c : cl[c].info.wgt,
                        {c \in Erased : cl[c].info.type # "O"})
  /\ UNCHANGED <<now, tick, winStart, result>>

\* do_clean, run by the RunEvery job every CheckTime: erased clients leave
\* client_map and the heaps; a non-O client of non-zero weight has its
\* weight subtracted and every resource recomputed
DoClean ==
  /\ now >= lastClean + CheckTime
  /\ LET W == {c \in Erased : cl[c].info.wgt # 0 /\ cl[c].info.type # "O"}
         total == totalWgt - MapThenSumSet(LAMBDA c : cl[c].info.wgt, W)
     IN /\ marks' = KeptMarks
        /\ lastClean' = now
        /\ active' = active \ Erased
        /\ totalWgt' = total
        /\ cl' = IF W # {} THEN UpdateClientRes(Cleaned, active \ Erased, total)
                 ELSE Cleaned
  /\ UNCHANGED <<now, tick, winStart, result>>

\* remove_by_client: the queue is cleared and, unless c is of class O, its
\* weight is subtracted from total_wgt; c stays in client_map
RemoveByClient(c) ==
  /\ c \in active
  /\ LET x == [cl[c] EXCEPT !.q = <<>>, !.hd = ZeroTag]
         total == IF x.info.type # "O" THEN totalWgt - x.info.wgt ELSE totalWgt
     IN /\ totalWgt' = total
        /\ cl' = IF x.info.type # "O"
                 THEN UpdateClientRes([cl EXCEPT ![c] = x], active, total)
                 ELSE [cl EXCEPT ![c] = x]
  /\ UNCHANGED <<now, tick, winStart, active, marks, lastClean, result>>

\* the tag a request left behind the front carries: RequestTag(0, 0, 0, time)
PlaceholderTag(arr) == [ZeroTag EXCEPT !.arrival = arr]

\* remove_by_req_filter: every request the filter accepts (the ids in F) is
\* erased from every queue; a request that becomes the front keeps the
\* placeholder tag it was queued with
RemoveByReqFilter(F) ==
  /\ cl' = [c \in Clients |->
             LET x == cl[c]
                 rest == SelectSeq(x.q, LAMBDA r : r.id \notin F)
             IN IF c \notin active \/ rest = x.q THEN x
                ELSE [x EXCEPT !.q = rest,
                               !.hd = CASE rest = <<>> -> ZeroTag
                                        [] Head(rest) = Head(x.q) -> @
                                        [] OTHER -> PlaceholderTag(Head(rest).arr)]]
  /\ UNCHANGED <<now, tick, winStart, totalWgt, active, marks, lastClean, result>>

\* update_client_info: c's info is replaced by what client_info_f returns;
\* unless the new class is O the weight difference goes into total_wgt
UpdateClientInfo(c, i) ==
  /\ c \in active
  /\ LET total == IF i.type # "O" THEN totalWgt + i.wgt - cl[c].info.wgt ELSE totalWgt
         cs == [cl EXCEPT ![c].info = i]
     IN /\ totalWgt' = total
        /\ cl' = IF i.type # "O" THEN UpdateClientRes(cs, active, total) ELSE cs
  /\ UNCHANGED <<now, tick, winStart, active, marks, lastClean, result>>

\* update_client_infos: every client's info is replaced, nothing else
UpdateClientInfos(infos) ==
  /\ cl' = [c \in Clients |-> IF c \in active THEN [cl[c] EXCEPT !.info = infos[c]]
                                              ELSE cl[c]]
  /\ UNCHANGED <<now, tick, winStart, totalWgt, active, marks, lastClean, result>>

\* the ids of the queued requests
QueuedIds == UNION {{cl[c].q[k].id : k \in DOMAIN cl[c].q} : c \in active}

\* the clock advances
Tick ==
  /\ now < MaxTime
  /\ now' = now + 1
  /\ UNCHANGED <<tick, winStart, totalWgt, active, cl, marks, lastClean, result>>

Init ==
  /\ now = 1
  /\ tick = 0
  /\ winStart = 0
  /\ totalWgt = 0
  /\ active = {}
  /\ cl = [c \in Clients |-> Blank]
  /\ marks = <<>>
  /\ lastClean = 0
  /\ result = NoneResult

Next ==
  \/ \E c \in Clients, rho, delta \in DistValues :
       \E info \in InfoChoices[c] : AddRequest(c, info, rho, delta)
  \/ PullRequest
  \/ DoClean
  \/ Tick
  \/ "remove" \in CallerOps /\ \E c \in Clients : RemoveByClient(c)
  \/ "filter" \in CallerOps /\ \E F \in SUBSET QueuedIds \ {{}} : RemoveByReqFilter(F)
  \/ "update" \in CallerOps /\ \E c \in Clients : \E i \in InfoChoices[c] :
                                  UpdateClientInfo(c, i)
  \/ "updates" \in CallerOps /\ \E infos \in InfoVectors : UpdateClientInfos(infos)

Spec == Init /\ [][Next]_vars

(***************************************************************************)
(* Properties                                                              *)
(***************************************************************************)

TagType == [r : Int, p : Int, l : Int, ready : BOOLEAN, arrival : Int]

TypeOK ==
  /\ now \in 1..MaxTime
  /\ tick \in 0..MaxTick
  /\ winStart \in Int /\ totalWgt \in Int
  /\ active \subseteq Clients
  /\ \A c \in Clients :
       /\ cl[c].info \in ClientInfo /\ cl[c].comp \in ClientInfo
       /\ cl[c].heaps \subseteq HeapIds
       /\ cl[c].hd \in TagType /\ cl[c].prev \in TagType
       /\ cl[c].q \in Seq([id : 1..MaxTick, arr : 0..MaxTime])
       /\ cl[c].idle \in BOOLEAN
       /\ {cl[c].r0, cl[c].drc, cl[c].bc, cl[c].rcomp} \subseteq Nat
  /\ result.type \in {"none", "future", "returning"}

\* (I2) total_wgt is the sum of the weights of the non-O clients in
\* client_map, across creation in do_add_request, weight and class changes
\* at the window roll-over and erasure by do_clean.
TotalWeightConsistent ==
  totalWgt = MapThenSumSet(LAMBDA c : cl[c].info.wgt,
                           {c \in active : cl[c].info.type # "O"})

\* The burst and surplus budgets read by the dispatch ladder: every R and B
\* client's resource is its share system_capacity * weight * win_size /
\* total_wgt of the current total weight, however clients came, changed
\* weight or class, and left.
ResourceIsShare ==
  \A c \in active : cl[c].info.type \in {"R", "B"} =>
     cl[c].res = Share(cl[c].info.wgt, totalWgt)

\* (I3) Every client sits in exactly the heaps of its current class, also
\* after move_to_another_heap at a window roll-over.
HeapsMatchClass == \A c \in active : cl[c].heaps = HeapsOf(cl[c].info.type)

\* Deferred tag calculation: every queued front request carries a tag that
\* RequestTag computed when the request reached the front (in
\* do_add_request or pop_process_request), so its proportion tag is
\* infinite or no earlier than its arrival less anticipation_timeout.
FrontTagsComputed ==
  \A c \in active : cl[c].q # <<>> =>
     \/ cl[c].hd.p = MaxTag
     \/ cl[c].hd.p >= cl[c].hd.arrival - AnticipationTimeout

\* The ClientInfo that client_info_wrapper hands an R client's tag
\* arithmetic is its current info with the reservation raised by
\* r_compensation (section 4.4 of the spec).
CompensatedInfoCurrent ==
  \A c \in active : cl[c].info.type = "R" =>
     cl[c].comp = [cl[c].info EXCEPT !.res = @ + cl[c].rcomp]

\* A non-stuttering pull_request step: only pull_request sets the result or
\* rolls the window, and a pull that does neither changes nothing.
PullStep ==
  /\ UNCHANGED <<now, tick, active, marks, lastClean>>
  /\ (result' # result \/ winStart' # winStart)

\* Deferred tag calculation keeps a client's tags advancing: when a pull
\* that does not roll the window pops a request and another of the same
\* client becomes its front, pop_process_request gives that one a tag
\* computed from the popped tag, so none of its reservation, proportion
\* and limit tags is earlier than the popped request's (reduce_reservation_tags
\* only takes back the increment the new tag added).
FrontTagsAdvance ==
  [][ PullStep /\ winStart' = winStart /\ result'.type = "returning"
      => LET c == result'.client
         IN cl'[c].q # <<>> =>
              /\ cl'[c].hd.r >= cl[c].hd.r
              /\ cl'[c].hd.p >= cl[c].hd.p
              /\ cl'[c].hd.l >= cl[c].hd.l ]_vars

\* Reservations come first: a pull that does not roll the window never
\* dispatches from another heap while an R client's front request has a
\* reservation tag that is due (rule 1 of do_next_request and the
\* resv_heap ordering of ClientCompare).
ReservationsFirst ==
  [][ PullStep /\ winStart' = winStart
      /\ result'.type = "returning" /\ result'.heap # "resv"
      => \A c \in active : ~("resv" \in cl[c].heaps /\ cl[c].q # <<>>
                             /\ cl[c].hd.r <= now) ]_vars

\* With allow_limit_break the scheduler is work-conserving: a pull_request
\* made while some request is queued returns a request (the limit-break
\* rungs of do_next_request leave nothing for next_call).
WorkConserving ==
  [][ PullStep /\ (\E c \in active : cl[c].q # <<>>)
      => result'.type = "returning" ]_vars

\* A Future(t) returned by do_next_request lies after now; the code asserts
\* the same thing as "a ready top of r_limit_heap or limit_heap has an
\* infinite proportion tag" before it computes next_call.
FutureIsAhead ==
  [][ PullStep /\ result'.type = "future" => result'.when > now ]_vars

\* what polling again now yields: some outcome of do_next_request that
\* returns the last result and changes no client record, total_wgt or
\* win_start (ties between heap tops are broken the same way again)
RepollSame ==
  [cs |-> cl, total |-> totalWgt, win |-> winStart, res |-> result] \in DoNextRequest

\* Section 8 of the spec: the pull facade is idempotent on None and Future.
\* After a pull_request that returns None or Future(t), whatever its window
\* roll-over and limit walks changed, polling again at the same time
\* returns the same variant and changes nothing.
PollIdempotent ==
  [][ PullRequest /\ result'.type \in {"none", "future"} => RepollSame' ]_vars

\* The refinement mapping to RequestFifo: the queue of ids of every client
\* in client_map, and the request the last pull returned.
Fifo == INSTANCE RequestFifo
          WITH Ids <- 1..MaxTick,
               CallerCancels <- CallerOps \cap {"remove", "filter"} # {},
               queues <- [c \in Clients |->
                            IF c \in active
                            THEN [k \in DOMAIN cl[c].q |-> cl[c].q[k].id]
                            ELSE <<>>],
               out <- IF result.type = "returning"
                      THEN [client |-> result.client, id |-> result.id]
                      ELSE [client |-> NoClient, id |-> 0]

\* The scheduler implements the per-client FIFO contract: do_add_request
\* appends, a Returning pull hands out the front request of the client it
\* names and pop_process_request removes exactly that one, and nothing
\* else drops a queued request unless the caller removes it.
FifoRefinement == Fifo!Spec

\* The janitor only erases quiescent clients: do_clean never removes a
\* client from client_map while requests of it are queued (its last_tick
\* is only refreshed when a request reaches an empty queue or is popped).
NoQueuedRequestErased ==
  [][ lastClean' # lastClean => \A c \in active \ active' : cl[c].q = <<>> ]_vars
=============================================================================
