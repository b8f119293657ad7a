----------------------------- MODULE ThreadPool -----------------------------
(***************************************************************************)
(* The process-wide thread pool of the `parallel` feature                  *)
(* (tpt-strata/src/pool.rs).                                               *)
(*                                                                         *)
(* One mpsc channel carries boxed jobs to the workers.  Its sending half   *)
(* sits behind a mutex the callers of `run` take, its receiving half       *)
(* behind a mutex the workers take in turn: a worker blocks in `recv` with *)
(* that mutex held, releases it, and only then executes the job.  Every    *)
(* call of `run` makes a channel of its own on which its jobs report.      *)
(*                                                                         *)
(* Bounds: MaxJobs jobs in one call, MaxCalls[c] calls by caller c.         *)
(***************************************************************************)
EXTENDS Naturals, Sequences, FiniteSets

CONSTANTS Workers,   \* the pool's threads
          Callers,   \* the threads that call `run`
          MaxJobs,   \* bound: jobs in one call
          MaxCalls,  \* bound: calls by each caller
          None       \* no holder of a mutex, no job in hand

ASSUME PoolAssumption == /\ IsFiniteSet(Workers)
                         /\ IsFiniteSet(Callers)
                         /\ MaxJobs \in Nat
                         /\ MaxCalls \in [Callers -> Nat]
                         /\ None \notin Workers \cup Callers
                         /\ None \notin [caller : Callers, call : Nat, idx : Nat]

VARIABLES
  started,   \* whether POOL has been initialised (OnceLock)
  jobsLock,  \* the caller that holds Pool.jobs, or None
  queue,     \* the jobs channel: jobs sent and not received
  rxLock,    \* the worker that holds the receiver's mutex, or None
  wpc,       \* where each worker is in its loop
  held,      \* the job each worker has received and not reported
  cpc,       \* where each caller is in `run`
  call,      \* how many calls each caller has made
  size,      \* jobs.len() of each caller's latest call
  sent,      \* how many of them the caller has sent
  done,      \* the latest call's report channel: messages not received
  received,  \* how many messages the caller has received
  slots,     \* the results received, by job index
  result,    \* what the latest call returned, once it has
  ran        \* history: what became of each job of the latest call

workerVars == <<rxLock, wpc, held>>
callerVars == <<jobsLock, cpc, call, size, sent, received, slots, result>>
vars == <<started, queue, done, ran, workerVars, callerVars>>

\* Mutant: jobs numbered from zero, as `enumerate` does, in slots numbered from one.
JobFromZero(c, k, i) == [caller |-> c, call |-> k, idx |-> i - 1]

Job(c, k, i) == [caller |-> c, call |-> k, idx |-> i]

Jobs == [caller : Callers, call : Nat \ {0}, idx : 1..MaxJobs]

\* What a job sends on its call's channel: its index, and Ok(value) or
\* Err(panic).  The value is the job itself, which stands for what it computes.
Messages == [job : Jobs, ok : BOOLEAN]

Resting == {"idle", "returned", "raised"}

NoRun == [i \in 1..MaxJobs |-> "no"]
NoSlots == [i \in 1..MaxJobs |-> None]

Init == /\ started = FALSE
        /\ jobsLock = None
        /\ queue = <<>>
        /\ rxLock = None
        /\ wpc = [w \in Workers |-> "absent"]
        /\ held = [w \in Workers |-> None]
        /\ cpc = [c \in Callers |-> "idle"]
        /\ call = [c \in Callers |-> 0]
        /\ size = [c \in Callers |-> 0]
        /\ sent = [c \in Callers |-> 0]
        /\ done = [c \in Callers |-> <<>>]
        /\ received = [c \in Callers |-> 0]
        /\ slots = [c \in Callers |-> NoSlots]
        /\ result = [c \in Callers |-> <<>>]
        /\ ran = [c \in Callers |-> NoRun]

-----------------------------------------------------------------------------
\* The caller: `run`.

\* The call begins: its report channel is made, and the first call ever
\* starts the workers.
Begin(c) ==
  /\ cpc[c] \in Resting
  /\ call[c] < MaxCalls[c]
  /\ \E n \in 0..MaxJobs : size' = [size EXCEPT ![c] = n]
  /\ cpc' = [cpc EXCEPT ![c] = "lock"]
  /\ call' = [call EXCEPT ![c] = @ + 1]
  /\ sent' = [sent EXCEPT ![c] = 0]
  /\ done' = [done EXCEPT ![c] = <<>>]
  /\ received' = [received EXCEPT ![c] = 0]
  /\ slots' = [slots EXCEPT ![c] = NoSlots]
  /\ result' = [result EXCEPT ![c] = <<>>]
  /\ ran' = [ran EXCEPT ![c] = NoRun]
  /\ started' = TRUE
  /\ wpc' = IF started THEN wpc ELSE [w \in Workers |-> "lock"]
  /\ UNCHANGED <<jobsLock, queue, rxLock, held>>

LockJobs(c) ==
  /\ cpc[c] = "lock"
  /\ jobsLock = None
  /\ jobsLock' = c
  /\ cpc' = [cpc EXCEPT ![c] = "send"]
  /\ UNCHANGED <<started, queue, done, ran, workerVars,
                 call, size, sent, received, slots, result>>

\* One turn of the sending loop.  The channel is unbounded: send never blocks.
SendJob(c) ==
  /\ cpc[c] = "send"
  /\ sent[c] < size[c]
  /\ queue' = Append(queue, Job(c, call[c], sent[c] + 1))
  /\ sent' = [sent EXCEPT ![c] = @ + 1]
  /\ UNCHANGED <<started, done, ran, workerVars,
                 jobsLock, cpc, call, size, received, slots, result>>

\* The block ends: the guard is dropped, then the caller's own sender.
UnlockJobs(c) ==
  /\ cpc[c] = "send"
  /\ sent[c] = size[c]
  /\ jobsLock' = None
  /\ cpc' = [cpc EXCEPT ![c] = "recv"]
  /\ UNCHANGED <<started, queue, done, ran, workerVars,
                 call, size, sent, received, slots, result>>

\* Mutant: the results are kept in the order in which they arrive.
ReceiveInArrivalOrder(c) ==
  /\ cpc[c] = "recv"
  /\ received[c] < size[c]
  /\ done[c] # <<>>
  /\ Head(done[c]).ok
  /\ slots' = [slots EXCEPT ![c][received[c] + 1] = Head(done[c]).job]
  /\ received' = [received EXCEPT ![c] = @ + 1]
  /\ done' = [done EXCEPT ![c] = Tail(@)]
  /\ UNCHANGED <<started, queue, ran, workerVars,
                 jobsLock, cpc, call, size, sent, result>>

\* One turn of the receiving loop, for a message that carries a value.
ReceiveValue(c) ==
  /\ cpc[c] = "recv"
  /\ received[c] < size[c]
  /\ done[c] # <<>>
  /\ Head(done[c]).ok
  /\ slots' = [slots EXCEPT ![c][Head(done[c]).job.idx] = Head(done[c]).job]
  /\ received' = [received EXCEPT ![c] = @ + 1]
  /\ done' = [done EXCEPT ![c] = Tail(@)]
  /\ UNCHANGED <<started, queue, ran, workerVars,
                 jobsLock, cpc, call, size, sent, result>>

\* The same loop meets a panic: `resume_unwind` leaves `run` at once and drops
\* the report channel, whatever the other jobs are doing.
ReceivePanic(c) ==
  /\ cpc[c] = "recv"
  /\ received[c] < size[c]
  /\ done[c] # <<>>
  /\ ~Head(done[c]).ok
  /\ cpc' = [cpc EXCEPT ![c] = "raised"]
  /\ done' = [done EXCEPT ![c] = <<>>]
  /\ UNCHANGED <<started, queue, ran, workerVars,
                 jobsLock, call, size, sent, received, slots, result>>

\* Every job has reported: the slots are returned in job order.
Return(c) ==
  /\ cpc[c] = "recv"
  /\ received[c] = size[c]
  /\ cpc' = [cpc EXCEPT ![c] = "returned"]
  /\ result' = [result EXCEPT ![c] = [i \in 1..size[c] |-> slots[c][i]]]
  /\ UNCHANGED <<started, queue, done, ran, workerVars,
                 jobsLock, call, size, sent, received, slots>>

-----------------------------------------------------------------------------
\* A worker's loop.

LockReceiver(w) ==
  /\ wpc[w] = "lock"
  /\ rxLock = None
  /\ rxLock' = w
  /\ wpc' = [wpc EXCEPT ![w] = "recv"]
  /\ UNCHANGED <<started, queue, done, ran, held, callerVars>>

\* Mutant: the guard lives on past the job, and nothing else can be received.
TakeJobKeepLock(w) ==
  /\ wpc[w] = "recv"
  /\ queue # <<>>
  /\ held' = [held EXCEPT ![w] = Head(queue)]
  /\ queue' = Tail(queue)
  /\ wpc' = [wpc EXCEPT ![w] = "run"]
  /\ UNCHANGED <<started, done, ran, rxLock, callerVars>>

\* `recv` returns a job, and the guard is dropped with the match arm.
TakeJob(w) ==
  /\ wpc[w] = "recv"
  /\ queue # <<>>
  /\ held' = [held EXCEPT ![w] = Head(queue)]
  /\ queue' = Tail(queue)
  /\ rxLock' = None
  /\ wpc' = [wpc EXCEPT ![w] = "run"]
  /\ UNCHANGED <<started, done, ran, callerVars>>

\* Mutant: the job is not run under catch_unwind, so a panic ends its worker.
ExecuteNoCatch(w) ==
  /\ wpc[w] = "run"
  /\ \E o \in {"ok", "panic"} :
       /\ wpc' = [wpc EXCEPT ![w] = IF o = "ok" THEN "ok" ELSE "absent"]
       /\ held' = IF o = "ok" THEN held ELSE [held EXCEPT ![w] = None]
       /\ ran' = IF held[w].call = call[held[w].caller]
                 THEN [ran EXCEPT ![held[w].caller][held[w].idx] = o]
                 ELSE ran
  /\ UNCHANGED <<started, queue, done, rxLock, callerVars>>

\* The job is executed under catch_unwind: it ends with a value or a panic,
\* and the worker goes on either way.
Execute(w) ==
  /\ wpc[w] = "run"
  /\ \E o \in {"ok", "panic"} :
       /\ wpc' = [wpc EXCEPT ![w] = o]
       /\ ran' = IF held[w].call = call[held[w].caller]
                 THEN [ran EXCEPT ![held[w].caller][held[w].idx] = o]
                 ELSE ran
  /\ UNCHANGED <<started, queue, done, rxLock, held, callerVars>>

\* Mutant: a report channel told apart by its caller alone, not by the call.
OpenForCaller(j) == cpc[j.caller] \in {"lock", "send", "recv"}

\* Whether the report channel of job j still has its receiver: `run` is still
\* in the call that sent j.
Open(j) == call[j.caller] = j.call /\ cpc[j.caller] \in {"lock", "send", "recv"}

\* The job reports; with the receiver gone the send fails and is ignored.
Report(w) ==
  /\ wpc[w] \in {"ok", "panic"}
  /\ done' = IF Open(held[w])
             THEN [done EXCEPT ![held[w].caller] =
                     Append(@, [job |-> held[w], ok |-> wpc[w] = "ok"])]
             ELSE done
  /\ held' = [held EXCEPT ![w] = None]
  /\ wpc' = [wpc EXCEPT ![w] = "lock"]
  /\ UNCHANGED <<started, queue, ran, rxLock, callerVars>>

-----------------------------------------------------------------------------
CallerStep(c) == \/ LockJobs(c)
                 \/ SendJob(c)
                 \/ UnlockJobs(c)
                 \/ ReceiveValue(c)
                 \/ ReceivePanic(c)
                 \/ Return(c)

WorkerStep(w) == \/ LockReceiver(w)
                 \/ TakeJob(w)
                 \/ Execute(w)
                 \/ Report(w)

\* Nothing is left to do: every call allowed by the bound has ended and every
\* job has been executed.  The workers wait in `recv` for the life of the process.
Idle == /\ \A c \in Callers : cpc[c] \in Resting /\ call[c] = MaxCalls[c]
        /\ queue = <<>>
        /\ \A w \in Workers : held[w] = None
        /\ UNCHANGED vars

Next == \/ \E c \in Callers : Begin(c)
        \/ \E c \in Callers : CallerStep(c)
        \/ \E w \in Workers : WorkerStep(w)
        \/ Idle

\* The operating system keeps running every thread that can run, jobs end, and
\* a caller inside `run` goes on.  Nothing forces a caller to make a call.
Fairness == /\ \A c \in Callers : WF_vars(CallerStep(c))
            /\ \A w \in Workers : WF_vars(WorkerStep(w))

Spec == Init /\ [][Next]_vars

FairSpec == Spec /\ Fairness

-----------------------------------------------------------------------------
\* Properties.

\* The types of the variables of the pool, of `run` and of the workers' loops.
TypeOK ==
  /\ started \in BOOLEAN
  /\ jobsLock \in Callers \cup {None}
  /\ queue \in Seq(Jobs)
  /\ rxLock \in Workers \cup {None}
  /\ wpc \in [Workers -> {"absent", "lock", "recv", "run", "ok", "panic"}]
  /\ held \in [Workers -> Jobs \cup {None}]
  /\ cpc \in [Callers -> Resting \cup {"lock", "send", "recv"}]
  /\ call \in [Callers -> Nat]
  /\ size \in [Callers -> 0..MaxJobs]
  /\ sent \in [Callers -> 0..MaxJobs]
  /\ done \in [Callers -> Seq(Messages)]
  /\ received \in [Callers -> 0..MaxJobs]
  /\ slots \in [Callers -> [1..MaxJobs -> Jobs \cup {None}]]
  /\ result \in [Callers -> Seq(Jobs)]
  /\ ran \in [Callers -> [1..MaxJobs -> {"no", "ok", "panic"}]]

\* The `expect("every job reports once")` at the end of `run` cannot fail: when
\* as many messages were received as jobs were sent, every slot is filled, and
\* with the result of that very job of that very call.
EveryJobReportsOnce ==
  \A c \in Callers :
    cpc[c] = "recv" /\ received[c] = size[c] =>
      \A i \in 1..size[c] : slots[c][i] = Job(c, call[c], i)

\* The `expect("pool workers stopped")` in the receiving loop cannot fail: while
\* a message is missing, one is in the channel or some sender of the channel
\* lives on, in a job that is queued or in a worker's hands.
ChannelStaysOpen ==
  \A c \in Callers :
    cpc[c] = "recv" /\ received[c] < size[c] =>
      \/ done[c] # <<>>
      \/ \E i \in 1..size[c] :
           \/ \E p \in 1..Len(queue) : queue[p] = Job(c, call[c], i)
           \/ \E w \in Workers : held[w] = Job(c, call[c], i)

\* The pool implements the abstract promise of `run`.
Map == INSTANCE ParallelMap WITH
         phase <- [c \in Callers |-> IF cpc[c] \in Resting THEN cpc[c]
                                     ELSE "running"]

\* Each call of `run` returns all the results of its own jobs in job order or
\* raises the panic of one of them, and no job is executed twice, whatever the
\* interleaving of workers and callers and whatever earlier calls abandoned.
ImplementsParallelMap == Map!Spec

\* Every call of `run` ends.
CallsEnd == \A c \in Callers : cpc[c] = "lock" ~> cpc[c] \in Resting

\* Every job that was sent is executed, also when its caller has left `run`
\* because another job panicked: the queue empties and the workers come to rest.
AbandonedJobsRun ==
  queue # <<>> ~> queue = <<>> /\ \A w \in Workers : held[w] = None

\* What the comment on `run` says of a panic: it is re-raised "after the others
\* finish", so a call that has raised leaves no job of its own unexecuted.
PanicAfterOthersFinish ==
  \A c \in Callers : cpc[c] = "raised" =>
    \A i \in 1..size[c] : ran[c][i] # "no"
=============================================================================
