# TLA+ models of the class-partitioned dmClock scheduler

The models cover `src/src/dmclock_server.h`, a dmClock QoS scheduler. Clients are split into four classes:

- **R** has a reservation;
- **B** has a weight and a burst budget;
- **A** and **O** are best effort.

The scheduler keeps seven priority heaps and a sliding accounting window.

## The system

| Part | Code | State | Operations |
|---|---|---|---|
| Tag arithmetic | `ClientInfo`, `RequestTag`, `tag_calc` | rates and their inverses; tags (r, p, l, ready, arrival) | tag construction with anticipation; `update_req_tag` |
| Client record | `ClientRec` | info, prev_tag, FIFO of requests, prop_delta, idle, last_tick, cur_rho/delta, resource, window counters, r_compensation | built on first request; erased by the janitor |
| Heaps | seven `IndIntruHeap`s with `ClientCompare` | `resv`, `rlimit`, `deltar` (R); `limit`, `burst` (B); `best`, `bestlimit` (A/O) | adjust/promote/demote after every change |
| Admission | `do_add_request` | tick, client_map, total_wgt, compensated_client_map | create the client, realign an idle client, tag the request if the queue was empty |
| Dispatch | `do_next_request`, `pop_process_request`, `reduce_reservation_tags` | heaps, counters | window roll-over, then a ladder of rules (below) |
| Window | top of `do_next_request`, `move_to_another_heap` | win_start, total_wgt, resources, compensation | refetch every ClientInfo, migrate between heap sets, recompute resources, compensate R clients, reset counters |
| Janitor | `do_clean`, run by `RunEvery` | clean_mark_points | mark idle, erase old clients |
| Pull facade | `PullPriorityQueue` | — | `add_request`, `pull_request(now)` |
| Push facade | `PushPriorityQueue` | sched_ahead thread, cv, finishing | `add_request`, `request_completed`, `schedule_request`, `submit_request`, `sched_at`, `run_sched_ahead`, the destructor |
| Removal and updates | `remove_by_client`, `remove_by_req_filter`, `update_client_info(s)` | client_map, heaps, total_wgt | caller-driven maintenance |

The dispatch ladder tries these rules in order:

1. a reservation that is due;
2. the `limit` walk, then `burst` within the budget;
3. the `rlimit` walk, then `deltar` within the budget;
4. the `bestlimit` walk, then `best`;
5. with `allow_limit_break`: burst, best, deltar and reservation regardless of limits;
6. otherwise `next_call`, which returns Future(t) or None.

Every public operation holds `data_mtx` for its whole body. The window's `m_win` try-lock is taken only under `data_mtx`, so it always succeeds. Each operation of the pull facade is therefore one atomic step, and the only concurrency is the interleaving of whole calls by callers and the janitor thread.

The push facade adds a thread and callbacks:

- `add_request` runs `do_add_request` and then `schedule_request`, both under `data_mtx`. `request_completed` runs `schedule_request` alone.
- `schedule_request` asks `next_request`. That returns None when the caller's `can_handle_f()` is false, and otherwise the result of `do_next_request`.
  - A Future(t) goes to `sched_at(t)`, which keeps the earlier of t and the pending `sched_ahead_when`.
  - A Returning pops the top and calls the caller's `handle_f` under `data_mtx`.
- Each `schedule_request` dispatches at most one request.
- The `sched_ahead` thread loops under `sched_ahead_mtx` while `finishing` is false. With no wake-up pending it waits on `sched_ahead_cv`, without a timeout or a predicate. Otherwise it waits for the clock to reach `sched_ahead_when`. It then resets the value, releases `sched_ahead_mtx`, tests `finishing` again, takes `data_mtx` and calls `schedule_request`.
- `sched_at` takes `sched_ahead_mtx`. It returns early once `finishing` is set, and it notifies the thread when it sets a wake-up.
- The destructor sets the atomic `finishing`, calls `notify_one` without taking `sched_ahead_mtx`, and joins the thread.

## Modules

- **`DmClockServer`** models the scheduler core with the pull facade and the janitor. Each variable stands for one piece of the code's state:

  | Variable | Code |
  |---|---|
  | `now` | the time argument |
  | `tick` | `tick` |
  | `winStart` | `win_start` |
  | `totalWgt` | `total_wgt` |
  | `active` | the keys of `client_map` |
  | `cl[c]` | the `ClientRec` and its `compensated_client_map` entry |
  | `marks`, `lastClean` | `clean_mark_points` and when `do_clean` last ran |
  | `result` | what `pull_request` returned |

  The actions are:
  - `AddRequest` models `add_request` → `do_add_request`.
  - `PullRequest` models `pull_request` → `do_next_request`, the roll-over loop and `pop_process_request`.
  - `DoClean` models the janitor.
  - `Tick` advances the clock.

  `client_info_f` belongs to the caller, so every call to it returns any member of `InfoChoices[c]`. This happens at creation and at each roll-over.

  The caller-driven maintenance calls are further actions: `RemoveByClient`, `RemoveByReqFilter`, `UpdateClientInfo` and `UpdateClientInfos`. Each is enabled when its name is in the constant `CallerOps`. `remove_by_req_filter`'s filter is modelled as the set of request ids it accepts; the forward and backward visits remove the same requests.

  `Fifo` is the refinement mapping to `RequestFifo`: the id queue of every client in `client_map`, and the request the last pull returned.

- **`RequestFifo`** is the abstract specification of what a caller may rely on. Each client's requests are returned in the order they were added, each at most once. They leave a queue only by being returned, or by `remove_by_client` / `remove_by_req_filter` when the caller makes those calls. Any order across clients is allowed. Both the pull facade (`FifoRefinement`) and the push facade composed with its thread (`PushFifoRefinement`) are checked against it.

- **`PushPriorityQueue`** composes the push facade with `DmClockServer`, which it instantiates as `Core`. It adds six variables:

  | Variable | Code |
  |---|---|
  | `inflight` | requests handed to `handle_f` and not yet completed |
  | `schedWhen` | `sched_ahead_when`, with 0 standing for `TimeZero` |
  | `thPc` | the position of the `sched_ahead` thread in its loop (see below) |
  | `addPc` | an `add_request` holding `data_mtx` between `do_add_request` and `schedule_request` |
  | `donePc` | a finished request whose `request_completed` call is pending |
  | `dtorPc` | the destructor: not started, joining after it has set `finishing` and notified, or returned |

  `can_handle_f` and `handle_f` belong to the caller. The caller is modelled as a server with `Capacity` slots: `can_handle_f()` is `inflight < Capacity`, and `handle_f` takes a slot.

  The actions are:
  - `PushAddRequest` and then `AddSchedule` make up `add_request`. The clock may advance between them and the thread may wake, but no other `data_mtx` call runs.
  - `CallerComplete` is the caller freeing a slot. `RequestCompleted` is the `request_completed` call that follows it.
  - `ThreadLoop`, `ThreadCheck`, `ThreadWake`, `ThreadRun` and `ThreadSchedule` are the steps of `run_sched_ahead`. The thread's positions are:
    - `loop`: the test of `finishing`;
    - `check`: the test of `sched_ahead_when`;
    - `sleep`: the untimed wait;
    - `timed`: the timed wait;
    - `run`: after the reset, with the mutex released;
    - `sched`: past the second test of `finishing`;
    - `done`: returned.

    At `loop` and `check` the thread holds `sched_ahead_mtx`, so a `sched_at` waits until it leaves them. A `notify_one` moves a sleeping thread back to `loop`.
  - `DtorNotify` and `DtorJoin` are the destructor. The owner destroys the queue only when none of its calls is in progress, and makes none afterwards. The constant `Shutdown` enables the destructor.
  - `Clean` is the janitor and `Tick` is the clock.

  `ScheduleRequest` is `schedule_request`, with `submit_request` and `sched_at`.

- **`RCompensation`** holds the per-window compensation arithmetic of an R client. This includes the 32-bit unsigned `r_compensation`.

- **`MCDmClockServer`** and **`MCPushPriorityQueue`** define the model values. **`MCRCompensation`** checks `RCompensation` against the rule the spec states.

### Abstractions

- **Time.** Time is an integer count of 1/`Scale` seconds. A rate of k requests/s advances a tag by `Scale \div k`. +inf and −inf (`max_tag`, `min_tag`) are ±`MaxTag`, and they absorb finite additions as doubles do.
- **Heaps.** Each heap is its member set. A top is any member that no other member precedes under `ClientCompare`. The heap guarantees only this, so ties are a nondeterministic choice. `move_to_another_heap` inherits the tags of one tie-winner, picked by `CHOOSE`; this under-approximates which tied top is used.
- **`resource`.** The value `system_capacity·weight·win_size/total_wgt` is a fraction. A zero denominator stands for the doubles' ±inf or NaN. A resource never assigned is `Undefined`, and comparing against it yields either boolean (`Garbage`).
- **Requests.** A request is its id (the tick that admitted it) and its arrival time. Payload, cost and telemetry are left out, as are the counters that are only written (`*_break_limit_counter`, `be_counter`).

## Runs

| Run | cfg | Expect | What it shows |
|---|---|---|---|
| core | `MCDmClockServer.cfg` | pass | With limit break, client 1 switches R↔B and client 2 switches B↔A at roll-overs. TypeOK, `TotalWeightConsistent`, `ResourceIsShare` and `HeapsMatchClass` hold. So do the action properties `FrontTagsAdvance`, `ReservationsFirst` and `WorkConserving`, and the refinement `FifoRefinement` of `RequestFifo`. `FrontTagsAdvance` says that a pull which pops a request, without rolling the window, gives the client's next front request reservation, proportion and limit tags no earlier than the popped request's. That only holds if `pop_process_request` computes the deferred tag from the popped one. |
| janitor | `MCJanitor.cfg` | pass | There is no limit break. The janitor runs every unit and erases after 1 s. Weight and resource accounting survive erasure and re-creation. Polling is idempotent on None and Future, as section 8 of the spec states (`PollIdempotent`): after such a pull, `do_next_request` at the same time can return the same result and change nothing. The check takes that outcome among the tie-breaks, because the code breaks a tie the same way on an unchanged heap. |
| maintenance | `MCMaintenance.cfg` | pass | `remove_by_client`, `remove_by_req_filter` and `update_client_info(s)` interleave with admission, pulls and a roll-over. `ReservationsFirst`, `WorkConserving` and `FifoRefinement` hold, the last with the caller's cancellations allowed. |
| push_safety | `MCPushSafety.cfg` | pass | There is no limit break, one request is handled at a time, and R/B clients wait on limits. `handle_f` is never called past `can_handle_f` (TypeOK). A queued request always has something that will schedule it again (`NoStrandedRequest`). The thread's wake-ups are exercised here, and so is the destructor at any point of the thread's loop. |
| push_live | `MCPushLive.cfg` | pass | With limit break, every admitted request is eventually handed to `handle_f` (`AllHandled`), under the fairness below. The composed push facade also refines `RequestFifo` (`PushFifoRefinement`), with the thread, `add_request` and `request_completed` interleaving their `schedule_request` calls. The mapping is the core's, and the request the last `schedule_request` handed to `handle_f` stands for `out`. |
| future_no_break | `MCFutureNoBreak.cfg` | violation | Without limit break, an R client with no limit is ready in `rlimit` with its budget spent. `next_call` returns Future(−inf), where the code asserts (line 1823) that this cannot happen. In the push facade, a release build then spins. `sched_at(−inf)` arms a wake-up that is already due, so the thread schedules, gets Future(−inf) again and re-arms, until the window rolls over. |
| comp_stale | `MCCompStale.cfg` | violation | A client that goes B→R keeps a compensated ClientInfo that still has B's rates. |
| janitor_drops | `MCJanitorDrops.cfg` | violation | `do_clean` erases a client with queued requests, because `last_tick` is not refreshed on a non-empty queue. |
| filter_tag | `MCFilterTag.cfg` | violation | `FrontTagsComputed`: every front request carries a tag that `RequestTag` computed, whose proportion tag is no earlier than its arrival. `remove_by_req_filter` erases a front request. The request behind it becomes the front with its placeholder tag `RequestTag(0,0,0,t)`, which was never computed, so it jumps ahead of every client. |
| push_stranded | `MCPushStranded.cfg` | violation | Without limit break, an A client's first request waits on its limit. `next_call` ignores `best_limit_heap`, so `schedule_request` gets None and arms no wake-up. Nothing is in flight, so the request stays queued until some later `add_request`. |
| push_shutdown | `MCPushShutdown.cfg` | violation | The destructor's `join` can hang (`DestructorReturns`). The thread tests `finishing` (line 2596) and finds it false. The destructor then sets `finishing` and notifies, but no thread is waiting, so the notify is lost. The thread then enters its untimed `cv.wait` (line 2598), and nothing will wake it, since `sched_at` returns once `finishing` is set. Only a spurious wake-up, which nothing guarantees, would end the wait. Setting `finishing` under `sched_ahead_mtx` closes the window. |
| compensation | `MCRCompensation.cfg` | violation | For an over-served R client, the unsigned wrap turns the compensation into 0.1·reservation instead of 0. |

Every property of a passing run has a mutant, listed in `PROJECT.json`. Each mutant is a plausible slip in the code that TLC catches:

- a counter decremented;
- a weight change not added to `total_wgt`;
- resources not recomputed;
- old heaps not left;
- `<` for `<=` in rule 1;
- a limit break that waits for the limit;
- the janitor forgetting the weight or the resources;
- `pop_process_request` leaving the next request with its placeholder tag;
- a request returned but not popped;
- a request handed to `handle_f` and left queued;
- the deltar rung tested before the `r_limit` walk;
- `can_handle_f` not consulted;
- `request_completed` not scheduling.

### Divergences found in one step

Four more disagreements are each found within a step or a roll-over of the initial states. They are kept as hazards in `PROJECT.json` rather than as runs. To see each one, set `CallerOps` in `MCMaintenance.cfg` to the call named below and check the property:

| Call | Property violated | What goes wrong |
|---|---|---|
| `remove_by_client` (`{"remove"}`) | `TotalWeightConsistent` | The weight is subtracted, but the client stays in `client_map`. A later erasure subtracts it again. |
| `update_client_info` (`{"update"}`) | `HeapsMatchClass` | A class change does not migrate heaps. The next roll-over compares the refetched info with the already replaced one and never migrates the client. |
| `update_client_infos` (`{"updates"}`) | `TotalWeightConsistent` | New weights are not accounted in `total_wgt`. |
| a roll-over with `InfoChoices <- MCInfoChoicesO` in `MCDmClockServer.cfg` | `TotalWeightConsistent` | A B↔O class change adjusts `total_wgt` by the weight difference only, so it keeps counting an O client's weight or misses a B client's. |

### Bounds

- **Clients, time and requests.** There are two clients. Time runs from 1 to 4 units, one unit is 0.5 s, and the window is 2 s, so a roll-over happens at time 4. There are at most 3 `add_request` calls in the core and push runs, and 2 in the janitor and maintenance runs. So queues of two requests, a deferred tag computed at a pop, and a filter that removes a front request with one queued behind it all occur.
- **Rates.** The rates (1 and 2 requests/s) make tags advance by 1 or 2 units. Reservations, limits and budgets are therefore reached within the time bound.
- **Janitor.** The core, maintenance and push runs keep the janitor quiet (ages of 100 s). The janitor run instead uses `CheckTime` 1, `IdleAge` 2 and `EraseAge` 2.
- **Maintenance.** `remove_by_client` subtracts a weight on every call, and `update_client_infos` followed by `update_client_info` adds differences. Either way `total_wgt` drifts without end. The maintenance run therefore stops the search once `total_wgt` leaves −1..5 (`WeightBound` in `MCDmClockServer`).
- **Push.** `Capacity` is 1, so `can_handle_f()` is false whenever a request is in flight, and dispatch depends on completions and on the thread. The safety run has an R client with no limit and B clients with limits, so Future results arm the thread, including Future(−inf). push_safety also enables the destructor (`Shutdown`), so it runs at every position of the thread and of the callers. push_shutdown admits a single request: the lost notify needs none.
- **Compensation.** `MCRCompensation` enumerates reservations of 10 and 20/s, windows of 1 and 2 s, and every `r0_counter` from the 80% threshold to two past the reservation. Below 10/s, 0.1·reservation truncates to 0.

The push runs say `CHECK_DEADLOCK FALSE`. The clock stops at `MaxTime`, and an idle queue really does wait for calls.

### Fairness

The pull facade has no thread of its own: progress depends on the caller polling, so `DmClockServer` assumes no fairness.

`PushPriorityQueue` assumes weak fairness of the following steps:

- **`AddSchedule`.** A call that holds `data_mtx` finishes it.
- **`CallerComplete` and `RequestCompleted`.** The caller finishes every request it handles and reports it. This is the contract of `handle_f` and `request_completed`.
- **The steps of `run_sched_ahead`.** The `sched_ahead` thread runs whenever it can: it waits only on the condition variable, on the clock and on the two mutexes. An untimed wait ends only by a `notify_one`. Spurious wake-ups are allowed by C++ but never guaranteed, so they are not assumed.
- **`DtorJoin`.** The join returns once the thread has returned.
- **`Tick`.** The clock advances.

The three `data_mtx` steps are written as weak fairness of step predicates on their control variables (`AddScheduleStep`, `RequestCompletedStep`, `ThreadScheduleStep`). Each predicate is satisfied by exactly the steps of its action, and is enabled exactly when that action is, because `next_request` always has an outcome. This keeps TLC from evaluating `ENABLED` through the whole dispatch ladder.

`AllHandled` is checked with limit break. Without it, requests of an R client with no limit can wait for Future(−inf) re-arms or for a roll-over, and the bounded clock cannot show that they are served.

## Not modelled, and why

1. **Shutdown of the janitor.** `~PriorityQueueBase` sets `finishing` and destroys the `RunEvery` job. The model's janitor simply stops being relevant once the queue is gone.
2. **A `handle_f` that re-enters the scheduler.** `handle_f` is called under `data_mtx` (line 2491), so a handler that calls `add_request` or `request_completed` deadlocks. The handler is the caller's code, and the model's `handle_f` only takes a slot, so the deadlock is documented rather than checked.
3. **The read after `client_map.erase` in `do_clean`** (line 1893). This is undefined behaviour. The model reads the erased record's weight as the code intends.
4. **A `ClientInfo` with reservation and weight both 0.** This covers pool_noexist, and also the A client r=0, w=0 of the spec's scenario 3. Such a client's first `add_request` fails the `RequestTag` assert at line 195, because `tag_calc` makes both tags +inf. The failure is one step from the initial state, so it is recorded as a hazard. No `InfoChoices` of the runs contain such an info.
5. **Output only.** Telemetry, logging, the socket and `display_queues` do not change scheduling state.
