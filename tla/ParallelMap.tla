---------------------------- MODULE ParallelMap ----------------------------
(***************************************************************************)
(* What `pool::run` promises its callers, with no queue, no threads and no *)
(* channels: a call hands over a list of jobs, each job is executed at     *)
(* most once, and the call ends either with every job's result in job      *)
(* order or by re-raising the panic of one of its jobs.  The thread pool   *)
(* (module ThreadPool) is shown to implement this module.                  *)
(***************************************************************************)
EXTENDS Naturals, Sequences

CONSTANTS Callers,   \* the threads that call `run`
          MaxJobs    \* the most jobs one call hands over

VARIABLES phase,     \* where each caller's call stands
          call,      \* how many calls each caller has made
          size,      \* the number of jobs of each caller's latest call
          ran,       \* what became of each job of the latest call
          result     \* what the latest call returned, once it has

vars == <<phase, call, size, ran, result>>

\* A job is identified by its caller, the call and its index.  What it
\* computes is left abstract: its result is the job itself.
Job(c, k, i) == [caller |-> c, call |-> k, idx |-> i]

Outcome == {"no", "ok", "panic"}

Resting == {"idle", "returned", "raised"}

Init == /\ phase = [c \in Callers |-> "idle"]
        /\ call = [c \in Callers |-> 0]
        /\ size = [c \in Callers |-> 0]
        /\ ran = [c \in Callers |-> [i \in 1..MaxJobs |-> "no"]]
        /\ result = [c \in Callers |-> <<>>]

\* The caller hands n jobs over.
Begin(c) == /\ phase[c] \in Resting
            /\ \E n \in 0..MaxJobs : size' = [size EXCEPT ![c] = n]
            /\ phase' = [phase EXCEPT ![c] = "running"]
            /\ call' = [call EXCEPT ![c] = @ + 1]
            /\ ran' = [ran EXCEPT ![c] = [i \in 1..MaxJobs |-> "no"]]
            /\ result' = [result EXCEPT ![c] = <<>>]

\* Somebody executes a job that has not been executed.  The call may already
\* have been abandoned by a panic: its jobs are still executed.
RunJob(c, i) == /\ i \in 1..size[c]
                /\ ran[c][i] = "no"
                /\ \E o \in {"ok", "panic"} : ran' = [ran EXCEPT ![c][i] = o]
                /\ UNCHANGED <<phase, call, size, result>>

\* Every job has a result: the call returns them in job order.
Return(c) == /\ phase[c] = "running"
             /\ \A i \in 1..size[c] : ran[c][i] = "ok"
             /\ phase' = [phase EXCEPT ![c] = "returned"]
             /\ result' = [result EXCEPT
                             ![c] = [i \in 1..size[c] |-> Job(c, call[c], i)]]
             /\ UNCHANGED <<call, size, ran>>

\* Some job panicked: the call ends by raising that panic.
Raise(c) == /\ phase[c] = "running"
            /\ \E i \in 1..size[c] : ran[c][i] = "panic"
            /\ phase' = [phase EXCEPT ![c] = "raised"]
            /\ UNCHANGED <<call, size, ran, result>>

Next == \E c \in Callers : \/ Begin(c)
                           \/ \E i \in 1..MaxJobs : RunJob(c, i)
                           \/ Return(c)
                           \/ Raise(c)

Spec == Init /\ [][Next]_vars
=============================================================================
