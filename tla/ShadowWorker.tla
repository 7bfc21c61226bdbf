---------------------------- MODULE ShadowWorker ----------------------------
(***************************************************************************)
(* The shadow-validation dispatcher (server/src/shadow.rs): request        *)
(* handlers try_send sampled jobs into a bounded channel; one worker task  *)
(* takes them out, checks the cost gates, waits for the rate bucket and    *)
(* for an in-flight permit, and spawns a task that calls Google; the       *)
(* answers close the gates again.  A third task resets the daily counter.  *)
(*                                                                         *)
(* Time is discrete, in periods of the rate bucket (1 / rps_cap seconds),  *)
(* so RpsCap periods are one second.  It is kept as distances to deadlines *)
(* and ages of calls, which makes the state space finite for unbounded     *)
(* runs: a job that has its outcome may be sampled again.                  *)
(***************************************************************************)
EXTENDS Integers, Sequences, FiniteSets

CONSTANTS
    Jobs,           \* sampled requests
    QueueCapacity,  \* cfg.queue_capacity
    InflightCap,    \* cfg.inflight_cap
    DailyCap,       \* cfg.daily_cap
    RpsCap,         \* cfg.rps_cap
    BackoffLen,     \* cfg.backoff_secs, in periods
    DayLen          \* a UTC day, in periods

ASSUME ShadowAssumption ==
    /\ IsFiniteSet(Jobs)
    /\ QueueCapacity \in Nat \ {0} /\ InflightCap \in Nat \ {0}
    /\ DailyCap \in Nat /\ RpsCap \in Nat \ {0}
    /\ BackoffLen \in Nat /\ DayLen \in Nat \ {0}

Outcomes == {"match", "mismatch", "zero_results", "google_error",
             "auth_disabled", "daily_cap_hit", "queue_full", "rate_limited",
             "timeout"}

\* Answers that change nothing but the outcome of the job.
PlainOutcomes == {"match", "mismatch", "zero_results", "google_error", "timeout"}

VARIABLES
    job,          \* where each job is: new, queued, held, inflight or its outcome
    queue,        \* the bounded channel
    pc,           \* where the worker is: recv, tick, permit
    permits,      \* free permits of the in-flight semaphore
    dailyCount,   \* daily_count
    authDisabled, \* auth_disabled
    backoffLeft,  \* periods until backoff_until_unix_ms
    tickIn,       \* periods until the bucket's next tick
    midnightIn,   \* periods until the reset task wakes
    calls,        \* calls[k]: calls made k periods ago, within one second
    late          \* calls made since the gates last closed, while closed

shadowVars ==
    <<job, queue, pc, permits, dailyCount, authDisabled, backoffLeft,
      tickIn, midnightIn, calls, late>>

GateClosed == authDisabled \/ backoffLeft > 0

ShadowInit ==
    /\ job = [j \in Jobs |-> "new"]
    /\ queue = <<>>
    /\ pc = "recv"
    /\ permits = InflightCap
    /\ dailyCount = 0
    /\ authDisabled = FALSE
    /\ backoffLeft = 0
    /\ tickIn = 0               \* the first tick of an interval is immediate
    /\ midnightIn \in 1..DayLen \* the server may start at any time of day
    /\ calls = [k \in 0..(RpsCap - 1) |-> 0]
    /\ late = 0

-----------------------------------------------------------------------------
(* Handlers. *)

\* A request is sampled and the channel has room.
Enqueue(j) ==
    /\ job[j] = "new"
    /\ Len(queue) < QueueCapacity
    /\ queue' = Append(queue, j)
    /\ job' = [job EXCEPT ![j] = "queued"]
    /\ UNCHANGED <<pc, permits, dailyCount, authDisabled, backoffLeft, tickIn,
                   midnightIn, calls, late>>

\* The channel is full: the job is dropped, the handler does not wait.
QueueFull(j) ==
    /\ job[j] = "new"
    /\ Len(queue) = QueueCapacity
    /\ job' = [job EXCEPT ![j] = "queue_full"]
    /\ UNCHANGED <<queue, pc, permits, dailyCount, authDisabled, backoffLeft,
                   tickIn, midnightIn, calls, late>>

\* A further request is sampled.
Resample(j) ==
    /\ job[j] \in Outcomes
    /\ job' = [job EXCEPT ![j] = "new"]
    /\ UNCHANGED <<queue, pc, permits, dailyCount, authDisabled, backoffLeft,
                   tickIn, midnightIn, calls, late>>

-----------------------------------------------------------------------------
(* The worker. *)

\* Mutant of Verdict: the daily cap is compared with > instead of >=.
VerdictOverCap ==
    IF authDisabled THEN "auth_disabled"
    ELSE IF backoffLeft > 0 THEN "rate_limited"
    ELSE IF dailyCount > DailyCap THEN "daily_cap_hit"
    ELSE "held"

\* Mutant of Verdict: the backoff window is not looked at.
VerdictNoBackoff ==
    IF authDisabled THEN "auth_disabled"
    ELSE IF dailyCount >= DailyCap THEN "daily_cap_hit"
    ELSE "held"

\* The gates, in the order the worker checks them.
Verdict ==
    IF authDisabled THEN "auth_disabled"
    ELSE IF backoffLeft > 0 THEN "rate_limited"
    ELSE IF dailyCount >= DailyCap THEN "daily_cap_hit"
    ELSE "held"

\* recv: the job is dropped with an outcome, or held for the rate bucket.
Recv ==
    /\ pc = "recv" /\ queue # <<>>
    /\ queue' = Tail(queue)
    /\ job' = [job EXCEPT ![Head(queue)] = Verdict]
    /\ pc' = IF Verdict = "held" THEN "tick" ELSE "recv"
    /\ UNCHANGED <<permits, dailyCount, authDisabled, backoffLeft, tickIn,
                   midnightIn, calls, late>>

\* Mutant of BucketTick: missed ticks are made up for at once
\* (MissedTickBehavior::Burst).
BucketTickBurst ==
    /\ pc = "tick" /\ tickIn = 0
    /\ pc' = "permit"
    /\ UNCHANGED <<job, queue, permits, dailyCount, authDisabled, backoffLeft,
                   tickIn, midnightIn, calls, late>>

\* bucket.tick(): MissedTickBehavior::Delay puts the next tick a whole period
\* after this one, however late this one is.
BucketTick ==
    /\ pc = "tick" /\ tickIn = 0
    /\ tickIn' = 1
    /\ pc' = "permit"
    /\ UNCHANGED <<job, queue, permits, dailyCount, authDisabled, backoffLeft,
                   midnightIn, calls, late>>

\* A permit is free: the call is counted and its task spawned.  The gates are
\* not looked at again.
Dispatch ==
    /\ pc = "permit" /\ permits > 0
    /\ permits' = permits - 1
    /\ dailyCount' = dailyCount + 1
    /\ job' = [j \in Jobs |-> IF job[j] = "held" THEN "inflight" ELSE job[j]]
    /\ calls' = [calls EXCEPT ![0] = @ + 1]
    /\ late' = IF GateClosed THEN late + 1 ELSE late
    /\ pc' = "recv"
    /\ UNCHANGED <<queue, authDisabled, backoffLeft, tickIn, midnightIn>>

-----------------------------------------------------------------------------
(* Calls to Google. *)

\* The task ends: its outcome is reported and its permit dropped.
Answered(j, outcome) ==
    /\ job[j] = "inflight"
    /\ job' = [job EXCEPT ![j] = outcome]
    /\ permits' = permits + 1

PlainAnswer(j) ==
    /\ \E outcome \in PlainOutcomes : Answered(j, outcome)
    /\ UNCHANGED <<queue, pc, dailyCount, authDisabled, backoffLeft, tickIn,
                   midnightIn, calls, late>>

\* Mutant of OverQueryLimit: the task returns without dropping its permit.
OverQueryLimitKeepsPermit(j) ==
    /\ job[j] = "inflight"
    /\ job' = [job EXCEPT ![j] = "rate_limited"]
    /\ backoffLeft' = BackoffLen
    /\ late' = IF GateClosed THEN late ELSE 0
    /\ UNCHANGED <<queue, pc, permits, dailyCount, authDisabled, tickIn,
                   midnightIn, calls>>

\* OVER_QUERY_LIMIT: dispatch pauses for the backoff window.
OverQueryLimit(j) ==
    /\ Answered(j, "rate_limited")
    /\ backoffLeft' = BackoffLen
    /\ late' = IF GateClosed THEN late ELSE 0
    /\ UNCHANGED <<queue, pc, dailyCount, authDisabled, tickIn, midnightIn, calls>>

\* REQUEST_DENIED: disabled for the life of the process.
RequestDenied(j) ==
    /\ Answered(j, "auth_disabled")
    /\ authDisabled' = TRUE
    /\ late' = IF GateClosed THEN late ELSE 0
    /\ UNCHANGED <<queue, pc, dailyCount, backoffLeft, tickIn, midnightIn, calls>>

Answer(j) == PlainAnswer(j) \/ OverQueryLimit(j) \/ RequestDenied(j)

-----------------------------------------------------------------------------
(* Time. *)

CountDown(n) == IF n > 0 THEN n - 1 ELSE 0

\* A period passes.
Advance ==
    /\ backoffLeft' = CountDown(backoffLeft)
    /\ tickIn' = CountDown(tickIn)
    /\ midnightIn' = CountDown(midnightIn)
    /\ calls' = [k \in 0..(RpsCap - 1) |-> IF k = 0 THEN 0 ELSE calls[k - 1]]
    /\ UNCHANGED <<job, queue, pc, permits, dailyCount, authDisabled, late>>

\* The reset task wakes, clears the counter and sleeps until next midnight.
MidnightReset ==
    /\ midnightIn = 0
    /\ dailyCount' = 0
    /\ midnightIn' = DayLen
    /\ UNCHANGED <<job, queue, pc, permits, authDisabled, backoffLeft, tickIn,
                   calls, late>>

Worker == Recv \/ BucketTick \/ Dispatch

ShadowNext ==
    \/ \E j \in Jobs : Enqueue(j) \/ QueueFull(j) \/ Resample(j)
    \/ Worker
    \/ \E j \in Jobs : Answer(j)
    \/ Advance
    \/ MidnightReset

ShadowSpec == ShadowInit /\ [][ShadowNext]_shadowVars

\* The runtime goes on polling the worker, time passes, and cfg.timeout ends
\* every call.
ShadowFairSpec ==
    /\ ShadowSpec
    /\ WF_shadowVars(Worker)
    /\ WF_shadowVars(Advance)
    /\ \A j \in Jobs : WF_shadowVars(Answer(j))

-----------------------------------------------------------------------------
(* Properties. *)

ShadowTypeOK ==
    /\ job \in [Jobs -> {"new", "queued", "held", "inflight"} \cup Outcomes]
    /\ queue \in Seq(Jobs) /\ Len(queue) <= QueueCapacity
    /\ pc \in {"recv", "tick", "permit"}
    /\ permits \in 0..InflightCap
    /\ dailyCount \in Nat
    /\ authDisabled \in BOOLEAN
    /\ backoffLeft \in 0..BackoffLen
    /\ tickIn \in 0..1
    /\ midnightIn \in 0..DayLen
    /\ calls \in [0..(RpsCap - 1) -> Nat]
    /\ late \in Nat

Inflight == {j \in Jobs : job[j] = "inflight"}

\* Permits and calls under way always add up to inflight_cap: no answer loses
\* a permit, no call runs without one.
PermitsConserved == permits + Cardinality(Inflight) = InflightCap

\* The check of daily_count and the fetch_add are separated by two awaits and
\* race with the reset, yet the calls counted since a reset never exceed
\* daily_cap.
DailyCapHolds == dailyCount <= DailyCap

\* "Each gate fails closed": a job that was already waiting for the bucket or
\* a permit when REQUEST_DENIED or OVER_QUERY_LIMIT came in is still sent, but
\* it is the only one until the gate opens again.
LeakAtMostOne == late <= 1

\* Calls made in the last n periods; RpsCap periods are a second.
CallsWithin[n \in 0..RpsCap] == IF n = 0 THEN 0 ELSE CallsWithin[n - 1] + calls[n - 1]

\* Each call waits for a tick and ticks are a period apart, so a second holds
\* at most one call more than rps_cap: one that got its tick earlier and was
\* kept waiting for a permit.
RpsWithinOne == CallsWithin[RpsCap] <= RpsCap + 1

\* "Always drain": every job that got into the channel gets an outcome, with
\* any gate open or closed.
EveryJobReported ==
    \A j \in Jobs : job[j] = "queued" ~> job[j] \in Outcomes
=============================================================================
