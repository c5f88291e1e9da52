--------------------------- MODULE BtOutputPacer ---------------------------
(***************************************************************************)
(* class BtOutputPacer of src/main.cpp: the paced path of rumble and LED   *)
(* reports to a Bluetooth controller.  Any thread may submit a report; one *)
(* flush thread writes what had to wait.                                   *)
(*                                                                         *)
(* Every critical section of mutex_ is one action, except that a write(2)  *)
(* to the controller is made with mutex_ held and may take long, so it has *)
(* a beginning and an end.  Time is counted in ticks; last_write_ is kept  *)
(* as the time that has passed since, which saturates at kMinInterval      *)
(* because the code only ever compares it with kMinInterval.               *)
(***************************************************************************)
EXTENDS Integers

CONSTANTS
  Reports,       \* pairs of a descriptor and a State, as submit() takes them
  NoReport,      \* pending_ = false
  kMinInterval   \* in ticks

ASSUME PacerAssumption ==
  /\ kMinInterval \in Nat \ {0}
  /\ NoReport \notin Reports

VARIABLES
  pending,      \* pending_, pending_fd_ and pending_state_
  since_write,  \* now - last_write_
  stopping,     \* stopping_
  flush,        \* where the flush thread is (below)
  timer,        \* ticks left of its cond_.wait_until
  submitting,   \* a submit() is inside write(2), mutex_ held
  stop_call     \* the one call of stop(): "none", "joining", "returned"

\* History, not program state.
VARIABLES
  wire,         \* the last report written to the controller
  wire_age,     \* ticks since, saturating at kMinInterval
  newest        \* the last report submitted, NoReport once it was discarded

vars == <<pending, since_write, stopping, flush, timer, submitting, stop_call,
          wire, wire_age, newest>>

\* "none" thread_ not started, "running" about to take mutex_ at the loop's
\* head, "parked" in cond_.wait, "timed" in cond_.wait_until, "writing" inside
\* write(2) with mutex_ held, "exited" flush_loop returned.
FlushStates == {"none", "running", "parked", "timed", "writing", "exited"}

mutex_free == ~submitting /\ flush # "writing"

Init ==
  /\ pending = NoReport
  /\ since_write = kMinInterval     \* last_write_{} is the clock's epoch
  /\ stopping = FALSE
  /\ flush = "none"
  /\ timer = 0
  /\ submitting = FALSE
  /\ stop_call = "none"
  /\ wire = NoReport
  /\ wire_age = kMinInterval
  /\ newest = NoReport

-----------------------------------------------------------------------------
due == since_write >= kMinInterval

\* write_locked() and the update of last_write_ just before it.
write_locked(r) ==
  /\ since_write' = 0
  /\ wire' = r
  /\ wire_age' = 0

\* cond_.notify_one(): only the flush thread ever waits on cond_.
notified == IF flush \in {"parked", "timed"} THEN "running" ELSE flush

Mut_flush_started == IF flush = "none" THEN "running" ELSE notified

\* ensure_thread_locked() followed by notify_one().
flush_started == IF flush = "none" /\ ~stopping THEN "running" ELSE notified

Mut_submit_direct(r) ==
  /\ due
  /\ write_locked(r)
  /\ submitting' = TRUE
  /\ UNCHANGED <<pending, flush>>

Mut_submit_direct_unpaced(r) ==
  /\ pending = NoReport
  /\ write_locked(r)
  /\ submitting' = TRUE
  /\ UNCHANGED <<pending, flush>>

submit_direct(r) ==
  /\ pending = NoReport
  /\ due
  /\ write_locked(r)
  /\ submitting' = TRUE
  /\ UNCHANGED <<pending, flush>>

submit_throttled(r) ==
  /\ pending # NoReport \/ ~due
  /\ pending' = r
  /\ flush' = flush_started
  /\ UNCHANGED <<since_write, wire, wire_age, submitting>>

submit(r) ==
  /\ mutex_free
  /\ submit_direct(r) \/ submit_throttled(r)
  /\ newest' = r
  /\ UNCHANGED <<stopping, timer, stop_call>>

submit_returns ==
  /\ submitting
  /\ submitting' = FALSE
  /\ UNCHANGED <<pending, since_write, stopping, flush, timer, stop_call,
                 wire, wire_age, newest>>

discard_pending ==
  /\ mutex_free
  /\ pending' = NoReport
  /\ newest' = NoReport
  /\ UNCHANGED <<since_write, stopping, flush, timer, submitting, stop_call,
                 wire, wire_age>>

Mut_stop ==
  /\ stop_call = "none"
  /\ mutex_free
  /\ pending' = NoReport
  /\ stopping' = TRUE
  /\ flush' = flush
  /\ stop_call' = "joining"
  /\ newest' = NoReport
  /\ UNCHANGED <<since_write, timer, submitting, wire, wire_age>>

\* stop() up to the join; main() calls it once, when it shuts down.
stop ==
  /\ stop_call = "none"
  /\ mutex_free
  /\ pending' = NoReport
  /\ stopping' = TRUE
  /\ flush' = notified
  /\ stop_call' = "joining"
  /\ newest' = NoReport
  /\ UNCHANGED <<since_write, timer, submitting, wire, wire_age>>

stop_returns ==
  /\ stop_call = "joining"
  /\ flush \in {"none", "exited"}
  /\ stop_call' = "returned"
  /\ UNCHANGED <<pending, since_write, stopping, flush, timer, submitting,
                 wire, wire_age, newest>>

-----------------------------------------------------------------------------
\* One turn of flush_loop(), from the loop's head to where mutex_ is released
\* or the write begins.
flush_parks ==
  /\ pending = NoReport
  /\ flush' = "parked"
  /\ UNCHANGED <<pending, since_write, timer, wire, wire_age>>

Mut_flush_waits ==
  /\ pending # NoReport
  /\ ~due
  /\ flush' = "parked"
  /\ timer' = 0
  /\ UNCHANGED <<pending, since_write, wire, wire_age>>

flush_waits ==
  /\ pending # NoReport
  /\ ~due
  /\ flush' = "timed"
  /\ timer' = kMinInterval - since_write
  /\ UNCHANGED <<pending, since_write, wire, wire_age>>

Mut_flush_writes ==
  /\ pending # NoReport
  /\ due
  /\ write_locked(pending)
  /\ flush' = "writing"
  /\ UNCHANGED <<pending, timer>>

flush_writes ==
  /\ pending # NoReport
  /\ due
  /\ pending' = NoReport
  /\ write_locked(pending)
  /\ flush' = "writing"
  /\ UNCHANGED timer

flush_loop ==
  /\ flush = "running"
  /\ mutex_free
  /\ ~stopping
  /\ flush_parks \/ flush_waits \/ flush_writes
  /\ UNCHANGED <<stopping, submitting, stop_call, newest>>

\* The write returns with mutex_ still held; nothing can be pending, so the
\* loop reaches cond_.wait before it lets go of mutex_.
flush_write_returns ==
  /\ flush = "writing"
  /\ flush' = "parked"
  /\ UNCHANGED <<pending, since_write, stopping, timer, submitting, stop_call,
                 wire, wire_age, newest>>

flush_timeout ==
  /\ flush = "timed"
  /\ timer = 0
  /\ flush' = "running"
  /\ UNCHANGED <<pending, since_write, stopping, timer, submitting, stop_call,
                 wire, wire_age, newest>>

\* A condition variable may wake without a notify.
flush_spurious_wake ==
  /\ flush \in {"parked", "timed"}
  /\ flush' = "running"
  /\ UNCHANGED <<pending, since_write, stopping, timer, submitting, stop_call,
                 wire, wire_age, newest>>

flush_exits ==
  /\ flush = "running"
  /\ mutex_free
  /\ stopping
  /\ flush' = "exited"
  /\ UNCHANGED <<pending, since_write, stopping, timer, submitting, stop_call,
                 wire, wire_age, newest>>

-----------------------------------------------------------------------------
Aged(t) == IF t < kMinInterval THEN t + 1 ELSE t

Tick ==
  /\ since_write < kMinInterval \/ timer > 0
  /\ since_write' = Aged(since_write)
  /\ wire_age' = Aged(wire_age)
  /\ timer' = IF timer > 0 THEN timer - 1 ELSE 0
  /\ UNCHANGED <<pending, stopping, flush, submitting, stop_call, wire, newest>>

FlushThread == flush_loop \/ flush_write_returns \/ flush_timeout \/ flush_exits

Next ==
  \/ \E r \in Reports : submit(r)
  \/ submit_returns
  \/ discard_pending
  \/ stop
  \/ stop_returns
  \/ FlushThread
  \/ flush_spurious_wake
  \/ Tick

Spec == Init /\ [][Next]_vars

\* The scheduler runs the flush thread, a write(2) to the controller returns,
\* the clock advances, and a join returns once its thread has ended.  Strong
\* fairness of the loop's head is that of mutex_: a thread that waits for it
\* gets it some time when others keep taking and releasing it.  Nothing is
\* assumed of the threads that submit, discard or stop.
Fairness ==
  /\ WF_vars(FlushThread)
  /\ SF_vars(flush_loop \/ flush_exits)
  /\ WF_vars(submit_returns)
  /\ WF_vars(stop_returns)
  /\ WF_vars(Tick)

FairSpec == Spec /\ Fairness

-----------------------------------------------------------------------------
TypeOK ==
  /\ pending \in Reports \cup {NoReport}
  /\ since_write \in 0..kMinInterval
  /\ stopping \in BOOLEAN
  /\ flush \in FlushStates
  /\ timer \in 0..kMinInterval
  /\ submitting \in BOOLEAN
  /\ stop_call \in {"none", "joining", "returned"}
  /\ wire \in Reports \cup {NoReport}
  /\ wire_age \in 0..kMinInterval
  /\ newest \in Reports \cup {NoReport}

\* "always carrying the newest state": unless it was discarded, the last
\* report anybody submitted is either still held or the last one written; an
\* older report never reaches the controller after a newer one
\* (submit(), flush_loop()).
NewestReportWins ==
  newest # NoReport => \/ pending = newest
                       \/ pending = NoReport /\ wire = newest

\* No lost wakeup: while a report is held, the flush thread exists and is not
\* asleep without a deadline, so the last report of a burst cannot be left
\* behind (submit() and flush_loop()).
HeldReportHasFlusher ==
  pending # NoReport /\ ~stopping => flush \in {"running", "timed"}

\* Once stop() has returned there is no flush thread, and late submits of
\* threads that still run cannot start another one (ensure_thread_locked()).
NoFlusherAfterStop == stop_call = "returned" => flush \in {"none", "exited"}

\* "Bluetooth output is capped at one report per kMinInterval": whatever
\* thread writes, the previous report is at least kMinInterval old.
RateCapped == [][wire_age' < wire_age => wire_age = kMinInterval]_vars

\* A report that was submitted reaches the controller, unless a newer one
\* replaces it or it is discarded with its connection: "otherwise a game that
\* stops sending right after a throttled report would leave the motors running
\* forever".
LastReportIsWritten ==
  \A r \in Reports : (newest = r /\ ~stopping) ~> (wire = r \/ newest # r)

\* stop() returns, whatever the flush thread was doing when it was called.
StopReturns == (stop_call = "joining") ~> (stop_call = "returned")

\* The register with a rate cap that the class comment promises.
Paced == INSTANCE PacedOutput
           WITH held <- pending, age <- wire_age
ImplementsPacedOutput == Paced!Spec
=============================================================================
