-------------------------- MODULE ThreadPoolProofs --------------------------
(***************************************************************************)
(* Theorems about the thread pool, for any number of workers, callers,     *)
(* jobs and calls: its types, the two `expect`s of `run` that cannot fail, *)
(* and that it implements ParallelMap.                                     *)
(***************************************************************************)
EXTENDS ThreadPool, FiniteSetTheorems, SequenceTheorems, TLAPS

-----------------------------------------------------------------------------
\* The inductive invariant.  It follows each job of a call from the queue to a
\* worker's hands, to the report channel, to its slot: the job is always in
\* exactly one of these places, and `ran` agrees with the place.

InQueue(j) == \E p \in 1..Len(queue) : queue[p] = j
InHand(j) == \E w \in Workers : held[w] = j
InChannel(c, i) == \E p \in 1..Len(done[c]) : done[c][p].job.idx = i
Filled(c) == {i \in 1..MaxJobs : slots[c][i] # None}

\* Job j has been sent: by an earlier call of its caller, or by the latest.
IsSent(j) == \/ j.call < call[j.caller]
             \/ j.call = call[j.caller] /\ j.idx <= sent[j.caller]

\* Workers have a job in hand exactly between receiving and reporting it.
HandInv ==
  /\ \A w \in Workers : held[w] # None <=> wpc[w] \in {"run", "ok", "panic"}
  /\ ~started => \A w \in Workers : wpc[w] = "absent"

SentInv ==
  \A c \in Callers : /\ sent[c] <= size[c]
                     /\ cpc[c] = "lock" => sent[c] = 0
                     /\ cpc[c] = "recv" => sent[c] = size[c]
                     /\ cpc[c] # "idle" => call[c] > 0

QueueInv ==
  \A p \in 1..Len(queue) :
    /\ IsSent(queue[p])
    /\ \A q \in 1..Len(queue) : queue[p] = queue[q] => p = q

HeldInv ==
  \A w \in Workers : held[w] # None =>
    /\ IsSent(held[w])
    /\ ~InQueue(held[w])
    /\ \A v \in Workers : held[v] = held[w] => v = w

\* A message is from the latest call, from a job that is nowhere else.
DoneInv ==
  \A c \in Callers : \A p \in 1..Len(done[c]) :
    /\ done[c][p].job = Job(c, call[c], done[c][p].job.idx)
    /\ done[c][p].job.idx <= sent[c]
    /\ ~InQueue(done[c][p].job)
    /\ ~InHand(done[c][p].job)
    /\ slots[c][done[c][p].job.idx] = None
    /\ ran[c][done[c][p].job.idx] = IF done[c][p].ok THEN "ok" ELSE "panic"
    /\ \A q \in 1..Len(done[c]) : done[c][q].job = done[c][p].job => q = p

\* A filled slot holds the result of the job of that index of the latest call.
SlotsInv ==
  \A c \in Callers : \A i \in 1..MaxJobs : slots[c][i] # None =>
    /\ slots[c][i] = Job(c, call[c], i)
    /\ i <= sent[c]
    /\ ~InQueue(Job(c, call[c], i))
    /\ ~InHand(Job(c, call[c], i))
    /\ ran[c][i] = "ok"

RanInv ==
  /\ \A p \in 1..Len(queue) :
       queue[p].call = call[queue[p].caller] =>
         ran[queue[p].caller][queue[p].idx] = "no"
  /\ \A w \in Workers :
       held[w] # None /\ held[w].call = call[held[w].caller] =>
         ran[held[w].caller][held[w].idx] =
           IF wpc[w] = "run" THEN "no" ELSE wpc[w]
  /\ \A c \in Callers : \A i \in 1..MaxJobs : i > sent[c] => ran[c][i] = "no"

\* The receiving loop's counter counts the filled slots.
CountInv == \A c \in Callers : received[c] = Cardinality(Filled(c))

\* While `run` waits, each job it has sent is somewhere.
PlaceInv ==
  \A c \in Callers : cpc[c] \in {"send", "recv"} =>
    \A i \in 1..sent[c] : \/ InQueue(Job(c, call[c], i))
                          \/ InHand(Job(c, call[c], i))
                          \/ InChannel(c, i)
                          \/ slots[c][i] # None

IInv == /\ TypeOK
        /\ HandInv
        /\ SentInv
        /\ QueueInv
        /\ HeldInv
        /\ DoneInv
        /\ SlotsInv
        /\ RanInv
        /\ CountInv
        /\ PlaceInv

-----------------------------------------------------------------------------
\* Facts about the sequences that stand for the channels.

LEMMA AppendFacts ==
  ASSUME NEW S, NEW s \in Seq(S), NEW e \in S
  PROVE  /\ Append(s, e) \in Seq(S)
         /\ Len(Append(s, e)) = Len(s) + 1
         /\ \A p \in 1..Len(s) : Append(s, e)[p] = s[p]
         /\ Append(s, e)[Len(s) + 1] = e
  BY AppendProperties

LEMMA TailFacts ==
  ASSUME NEW S, NEW s \in Seq(S), s # <<>>
  PROVE  /\ Head(s) \in S
         /\ Head(s) = s[1]
         /\ Len(s) \in Nat
         /\ Len(s) >= 1
         /\ Tail(s) \in Seq(S)
         /\ Len(Tail(s)) = Len(s) - 1
         /\ \A p \in 1..Len(Tail(s)) : p + 1 \in 1..Len(s) /\ Tail(s)[p] = s[p + 1]
  <1>1. Len(s) \in Nat /\ Len(s) >= 1
    BY EmptySeq, LenProperties
  <1>2. /\ Head(s) \in S /\ Head(s) = s[1] /\ Tail(s) \in Seq(S)
        /\ Len(Tail(s)) = Len(s) - 1
        /\ \A p \in 1..Len(Tail(s)) : Tail(s)[p] = s[p + 1]
    BY HeadTailProperties
  <1> QED
    BY <1>1, <1>2

LEMMA JobInJobs ==
  ASSUME NEW c \in Callers, NEW k \in Nat \ {0}, NEW i \in 1..MaxJobs
  PROVE  Job(c, k, i) \in Jobs
  BY DEF Job, Jobs

-----------------------------------------------------------------------------
LEMMA InitIInv == Init => IInv
  <1> SUFFICES ASSUME Init PROVE IInv
    OBVIOUS
  <1> USE PoolAssumption DEF Init, NoRun, NoSlots, Resting
  <1>1. TypeOK
    <2>1. <<>> \in Seq(Jobs) /\ <<>> \in Seq(Messages)
      BY EmptySeq
    <2>2. /\ queue \in Seq(Jobs)
          /\ done \in [Callers -> Seq(Messages)]
          /\ result \in [Callers -> Seq(Jobs)]
      BY <2>1
    <2>3. /\ slots \in [Callers -> [1..MaxJobs -> Jobs \cup {None}]]
          /\ ran \in [Callers -> [1..MaxJobs -> {"no", "ok", "panic"}]]
      OBVIOUS
    <2>4. /\ wpc \in [Workers -> {"absent", "lock", "recv", "run", "ok", "panic"}]
          /\ held \in [Workers -> Jobs \cup {None}]
          /\ cpc \in [Callers -> Resting \cup {"lock", "send", "recv"}]
      OBVIOUS
    <2>5. /\ call \in [Callers -> Nat]
          /\ size \in [Callers -> 0..MaxJobs]
          /\ sent \in [Callers -> 0..MaxJobs]
          /\ received \in [Callers -> 0..MaxJobs]
      OBVIOUS
    <2>6. /\ started \in BOOLEAN
          /\ jobsLock \in Callers \cup {None}
          /\ rxLock \in Workers \cup {None}
      OBVIOUS
    <2> HIDE DEF Init, Resting
    <2> QED
      BY ONLY <2>2, <2>3, <2>4, <2>5, <2>6 DEF TypeOK
  <1>2. CountInv
    <2>1. \A c \in Callers : Filled(c) = {}
      BY DEF Filled
    <2> QED
      BY <2>1, FS_EmptySet DEF CountInv
  <1>3. HandInv /\ SentInv /\ QueueInv /\ HeldInv
    BY DEF HandInv, SentInv, QueueInv, HeldInv
  <1>4. DoneInv /\ SlotsInv /\ RanInv /\ PlaceInv
    BY DEF DoneInv, SlotsInv, RanInv, PlaceInv
  <1> QED
    BY <1>1, <1>2, <1>3, <1>4 DEF IInv

LEMMA Elements ==
  ASSUME TypeOK
  PROVE  /\ Len(queue) \in Nat
         /\ \A p \in 1..Len(queue) : queue[p] \in Jobs
         /\ \A c \in Callers : Len(done[c]) \in Nat
         /\ \A c \in Callers : \A p \in 1..Len(done[c]) : done[c][p] \in Messages
         /\ \A w \in Workers : held[w] # None => held[w] \in Jobs
  BY ElementOfSeq, LenProperties DEF TypeOK

LEMMA CallerTypes ==
  ASSUME TypeOK
  PROVE  /\ MaxJobs \in Nat
         /\ call \in [Callers -> Nat]
         /\ sent \in [Callers -> Nat]
         /\ size \in [Callers -> Nat]
         /\ received \in [Callers -> Nat]
         /\ \A c \in Callers : sent[c] <= MaxJobs /\ size[c] <= MaxJobs
  BY PoolAssumption DEF TypeOK

LEMMA JobFields ==
  ASSUME NEW j \in Jobs
  PROVE  /\ j.caller \in Callers
         /\ j.call \in Nat
         /\ j.idx \in 1..MaxJobs
         /\ j = Job(j.caller, j.call, j.idx)
  BY DEF Jobs, Job

LEMMA NoneIsNoJob == None \notin Jobs
  BY PoolAssumption DEF Jobs

LEMMA JobEq ==
  ASSUME NEW c, NEW k, NEW i, NEW d, NEW m, NEW n, Job(c, k, i) = Job(d, m, n)
  PROVE  c = d /\ k = m /\ i = n
  BY DEF Job

-----------------------------------------------------------------------------
\* A part of the invariant is preserved by a step that leaves its variables alone.

LEMMA HandFrame ==
  ASSUME HandInv, UNCHANGED <<started, wpc, held>>
  PROVE  HandInv'
  BY DEF HandInv

LEMMA QueueFrame ==
  ASSUME QueueInv, UNCHANGED <<queue, call, sent>>
  PROVE  QueueInv'
  BY DEF QueueInv, IsSent

LEMMA HeldFrame ==
  ASSUME HeldInv, UNCHANGED <<queue, held, call, sent>>
  PROVE  HeldInv'
  BY DEF HeldInv, InQueue, IsSent

LEMMA DoneFrame ==
  ASSUME DoneInv, UNCHANGED <<queue, held, call, sent, done, slots, ran>>
  PROVE  DoneInv'
  <1>1. \A j : InQueue(j)' <=> InQueue(j)
    BY DEF InQueue
  <1>2. \A j : InHand(j)' <=> InHand(j)
    BY DEF InHand
  <1> QED
    BY <1>1, <1>2 DEF DoneInv

LEMMA SlotsFrame ==
  ASSUME SlotsInv, UNCHANGED <<queue, held, call, sent, slots, ran>>
  PROVE  SlotsInv'
  BY DEF SlotsInv, InQueue, InHand

LEMMA RanFrame ==
  ASSUME RanInv, UNCHANGED <<queue, held, wpc, call, sent, ran>>
  PROVE  RanInv'
  BY DEF RanInv

LEMMA CountFrame ==
  ASSUME CountInv, UNCHANGED <<received, slots>>
  PROVE  CountInv'
  BY DEF CountInv, Filled

LEMMA PlaceFrame ==
  ASSUME PlaceInv, UNCHANGED <<cpc, queue, held, call, sent, done, slots>>
  PROVE  PlaceInv'
  BY DEF PlaceInv, InQueue, InHand, InChannel

-----------------------------------------------------------------------------
\* Where a job is found after the queue or a worker's hands change.

LEMMA AppendInQueue ==
  ASSUME queue \in Seq(Jobs), NEW e \in Jobs, queue' = Append(queue, e)
  PROVE  \A j : InQueue(j)' <=> InQueue(j) \/ j = e
  <1>1. /\ Len(queue) \in Nat
        /\ Len(queue') = Len(queue) + 1
        /\ \A p \in 1..Len(queue) : queue'[p] = queue[p]
        /\ queue'[Len(queue) + 1] = e
    BY AppendFacts, LenProperties
  <1> QED
    BY <1>1 DEF InQueue

LEMMA TailInQueue ==
  ASSUME queue \in Seq(Jobs), queue # <<>>, queue' = Tail(queue), QueueInv,
         NEW h, h = Head(queue)
  PROVE  /\ \A j : j # h => (InQueue(j)' <=> InQueue(j))
         /\ InQueue(h)
         /\ ~InQueue(h)'
  <1>1. /\ h = queue[1]
        /\ Len(queue) \in Nat /\ Len(queue) >= 1
        /\ Len(queue') = Len(queue) - 1
        /\ \A p \in 1..Len(queue') : p + 1 \in 1..Len(queue) /\ queue'[p] = queue[p + 1]
    BY TailFacts
  <1>2. \A p \in 1..Len(queue) : p # 1 => p - 1 \in 1..Len(queue') /\ queue'[p - 1] = queue[p]
    <2> SUFFICES ASSUME NEW p \in 1..Len(queue), p # 1
                 PROVE  p - 1 \in 1..Len(queue') /\ queue'[p - 1] = queue[p]
      OBVIOUS
    <2>1. p - 1 \in 1..Len(queue') /\ (p - 1) + 1 = p
      BY <1>1
    <2> QED
      BY <1>1, <2>1
  <1>3. InQueue(h)
    BY <1>1 DEF InQueue
  <1>4. ~InQueue(h)'
    <2> SUFFICES ASSUME NEW p \in 1..Len(queue'), queue'[p] = queue[1]
                 PROVE  FALSE
      BY <1>1 DEF InQueue
    <2>1. 1 \in 1..Len(queue) /\ p + 1 \in 1..Len(queue) /\ queue[p + 1] = queue[1]
      BY <1>1
    <2>2. p + 1 = 1
      BY <2>1 DEF QueueInv
    <2> QED
      BY <2>2
  <1>5. ASSUME NEW j, j # h PROVE InQueue(j)' <=> InQueue(j)
    BY <1>1, <1>2, <1>5 DEF InQueue
  <1> QED
    BY <1>3, <1>4, <1>5

\* When the receiving loop ends, the filled slots are as many as the jobs.
LEMMA AllFilled ==
  ASSUME IInv, NEW c \in Callers, cpc[c] = "recv", received[c] = size[c]
  PROVE  \A i \in 1..size[c] : slots[c][i] = Job(c, call[c], i) /\ ran[c][i] = "ok"
  <1>1. size[c] \in 0..MaxJobs /\ sent[c] = size[c] /\ MaxJobs \in Nat
    BY PoolAssumption DEF IInv, TypeOK, SentInv
  <1>2. Filled(c) \subseteq 1..size[c]
    BY <1>1 DEF IInv, SlotsInv, Filled
  <1>3. IsFiniteSet(1..size[c]) /\ Cardinality(1..size[c]) = size[c]
    BY <1>1, FS_Interval
  <1>4. Cardinality(Filled(c)) = size[c]
    BY DEF IInv, CountInv
  <1>5. Filled(c) = 1..size[c]
    BY <1>2, <1>3, <1>4, FS_Subset
  <1> QED
    BY <1>1, <1>5 DEF IInv, SlotsInv, Filled

-----------------------------------------------------------------------------
\* Each step of a caller preserves the invariant.

LEMMA BeginIInv ==
  ASSUME IInv, NEW c \in Callers, Begin(c)
  PROVE  IInv'
  <1> USE DEF Begin
  <1>1. TypeOK'
    <2>1. <<>> \in Seq(Jobs) /\ <<>> \in Seq(Messages)
      BY EmptySeq
    <2>2. wpc' \in [Workers -> {"absent", "lock", "recv", "run", "ok", "panic"}]
      BY DEF IInv, TypeOK
    <2>3. /\ slots' \in [Callers -> [1..MaxJobs -> Jobs \cup {None}]]
          /\ ran' \in [Callers -> [1..MaxJobs -> {"no", "ok", "panic"}]]
      BY DEF IInv, TypeOK, NoSlots, NoRun
    <2>4. sent' \in [Callers -> 0..MaxJobs] /\ received' \in [Callers -> 0..MaxJobs]
      BY PoolAssumption DEF IInv, TypeOK
    <2>5. done' \in [Callers -> Seq(Messages)] /\ result' \in [Callers -> Seq(Jobs)]
      BY <2>1 DEF IInv, TypeOK
    <2>6. cpc' \in [Callers -> Resting \cup {"lock", "send", "recv"}]
      BY DEF IInv, TypeOK
    <2>8. call' \in [Callers -> Nat]
      BY ONLY CallerTypes, IInv, Begin(c) DEF IInv, Begin
    <2>9. size' \in [Callers -> 0..MaxJobs]
      BY ONLY IInv, Begin(c) DEF IInv, TypeOK, Begin
    <2>7. /\ started' \in BOOLEAN
          /\ jobsLock' \in Callers \cup {None}
          /\ rxLock' \in Workers \cup {None}
          /\ queue' \in Seq(Jobs)
          /\ held' \in [Workers -> Jobs \cup {None}]
      BY DEF IInv, TypeOK
    <2> QED
      BY ONLY <2>2, <2>3, <2>4, <2>5, <2>6, <2>7, <2>8, <2>9 DEF TypeOK
  <1>2. HandInv'
    BY DEF IInv, HandInv, TypeOK
  <1>3. SentInv'
    BY DEF IInv, SentInv, TypeOK, Resting
  <1>4. /\ call' = [call EXCEPT ![c] = call[c] + 1]
        /\ sent' = [sent EXCEPT ![c] = 0]
    OBVIOUS
  <1>5. \A j \in Jobs : IsSent(j) => IsSent(j)'
    BY ONLY <1>4, CallerTypes, JobFields, IInv DEF IInv, IsSent
  <1>6. \A j : (InQueue(j)' <=> InQueue(j)) /\ (InHand(j)' <=> InHand(j))
    BY DEF InQueue, InHand
  <1>7. QueueInv'
    BY <1>5, Elements DEF IInv, QueueInv
  <1>8. HeldInv'
    BY <1>5, <1>6, Elements DEF IInv, HeldInv
  <1>9. \A d \in Callers : d # c =>
          /\ done'[d] = done[d] /\ call'[d] = call[d] /\ sent'[d] = sent[d]
          /\ slots'[d] = slots[d] /\ ran'[d] = ran[d] /\ cpc'[d] = cpc[d]
    BY DEF IInv, TypeOK
  <1>10. done'[c] = <<>> /\ sent'[c] = 0 /\ cpc'[c] = "lock"
    BY DEF IInv, TypeOK
  <1>11. \A i \in 1..MaxJobs : slots'[c][i] = None /\ ran'[c][i] = "no"
    BY DEF IInv, TypeOK, NoSlots, NoRun
  <1>12. DoneInv'
    BY <1>6, <1>9, <1>10 DEF IInv, DoneInv
  <1>13. SlotsInv'
    BY <1>6, <1>9, <1>11 DEF IInv, SlotsInv
  <1>14. RanInv'
    <2>1. \A j \in Jobs : IsSent(j) /\ j.call = call'[j.caller] =>
            j.caller # c /\ j.call = call[j.caller]
      BY ONLY <1>4, CallerTypes, JobFields, IInv DEF IInv, IsSent
    <2>2. \A p \in 1..Len(queue) : queue[p].call = call'[queue[p].caller] =>
            ran'[queue[p].caller][queue[p].idx] = "no"
      BY <2>1, <1>9, Elements, JobFields DEF IInv, QueueInv, RanInv
    <2>3. \A w \in Workers :
            held[w] # None /\ held[w].call = call'[held[w].caller] =>
              /\ ran'[held[w].caller][held[w].idx] =
                   IF wpc[w] = "run" THEN "no" ELSE wpc[w]
              /\ wpc'[w] = wpc[w]
      BY <2>1, <1>9, Elements, JobFields DEF IInv, HeldInv, RanInv, HandInv
    <2> QED
      BY <2>2, <2>3, <1>9, <1>10, <1>11 DEF IInv, RanInv
  <1>15. CountInv'
    <2>1. Filled(c)' = {}
      BY <1>11 DEF Filled
    <2>2. \A d \in Callers : d # c => Filled(d)' = Filled(d) /\ received'[d] = received[d]
      BY <1>9 DEF Filled, IInv, TypeOK
    <2>3. received'[c] = 0
      BY DEF IInv, TypeOK
    <2> QED
      BY <2>1, <2>2, <2>3, FS_EmptySet DEF IInv, CountInv
  <1>16. PlaceInv'
    BY <1>6, <1>9, <1>10 DEF IInv, PlaceInv, InChannel
  <1> QED
    BY <1>1, <1>2, <1>3, <1>7, <1>8, <1>12, <1>13, <1>14, <1>15, <1>16 DEF IInv

LEMMA LockJobsIInv ==
  ASSUME IInv, NEW c \in Callers, LockJobs(c)
  PROVE  IInv'
  <1> USE DEF LockJobs, workerVars
  <1>1. TypeOK'
    BY DEF IInv, TypeOK
  <1>2. HandInv' /\ QueueInv' /\ HeldInv' /\ DoneInv' /\ SlotsInv' /\ RanInv' /\ CountInv'
    BY HandFrame, QueueFrame, HeldFrame, DoneFrame, SlotsFrame, RanFrame, CountFrame DEF IInv
  <1>3. SentInv'
    BY DEF IInv, SentInv, TypeOK
  <1>4. PlaceInv'
    <2>1. sent[c] = 0 /\ \A d \in Callers : d # c => cpc'[d] = cpc[d]
      BY DEF IInv, SentInv, TypeOK
    <2> QED
      BY <2>1 DEF IInv, PlaceInv, InQueue, InHand, InChannel
  <1> QED
    BY <1>1, <1>2, <1>3, <1>4 DEF IInv

LEMMA SendJobIInv ==
  ASSUME IInv, NEW c \in Callers, SendJob(c)
  PROVE  IInv'
  <1> PICK j : j = Job(c, call[c], sent[c] + 1)
    OBVIOUS
  <1>1. /\ sent' = [sent EXCEPT ![c] = sent[c] + 1]
        /\ queue' = Append(queue, j)
        /\ cpc[c] = "send"
        /\ sent[c] < size[c]
        /\ UNCHANGED <<started, done, ran, workerVars,
                       jobsLock, cpc, call, size, received, slots, result>>
    BY DEF SendJob
  <1>2. /\ call[c] \in Nat /\ call[c] > 0
        /\ sent[c] \in Nat /\ sent[c] + 1 \in 1..MaxJobs /\ sent[c] + 1 <= size[c]
    BY ONLY <1>1, IInv, CallerTypes DEF IInv, SentInv
  <1>3. /\ j \in Jobs
        /\ j.caller = c /\ j.call = call[c] /\ j.idx = sent[c] + 1
    BY <1>2, JobInJobs DEF Job
  <1>4. /\ ~IsSent(j)
        /\ IsSent(j)'
        /\ \A i \in Jobs : IsSent(i) => IsSent(i)'
    BY ONLY <1>1, <1>2, <1>3, JobFields, CallerTypes, IInv DEF IsSent, IInv
  <1>6. \A i : InQueue(i)' <=> InQueue(i) \/ i = j
    BY <1>1, <1>3, AppendInQueue DEF IInv, TypeOK
  <1>7. \A i : InHand(i)' <=> InHand(i)
    BY <1>1 DEF InHand, workerVars
  <1>8. /\ Len(queue) \in Nat
        /\ queue' \in Seq(Jobs)
        /\ Len(queue') = Len(queue) + 1
        /\ \A p \in 1..Len(queue) : queue'[p] = queue[p]
        /\ queue'[Len(queue) + 1] = j
    BY <1>1, <1>3, AppendFacts, LenProperties DEF IInv, TypeOK
  <1>9. \A d \in Callers : d # c => sent'[d] = sent[d]
    BY <1>1 DEF IInv, TypeOK
  <1>10. sent'[c] = sent[c] + 1
    BY <1>1 DEF IInv, TypeOK
  <1>11. TypeOK'
    <2>1. sent' \in [Callers -> 0..MaxJobs]
      BY <1>1, <1>2 DEF IInv, TypeOK
    <2> QED
      BY <2>1, <1>1, <1>8 DEF IInv, TypeOK, workerVars
  <1>12. HandInv' /\ CountInv'
    BY <1>1, HandFrame, CountFrame DEF IInv, workerVars
  <1>13. SentInv'
    BY <1>1, <1>2, <1>9, <1>10, CallerTypes DEF IInv, SentInv
  <1>14. QueueInv'
    <2>1. \A p \in 1..Len(queue) :
            queue[p] \in Jobs /\ IsSent(queue[p]) /\ queue[p] # j
      BY <1>4, Elements DEF IInv, QueueInv
    <2>2. \A p \in 1..Len(queue') : p \in 1..Len(queue) \/ p = Len(queue) + 1
      BY <1>8
    <2>3. (\A p \in 1..Len(queue) : IsSent(queue[p]))'
      BY <2>1, <2>2, <1>4, <1>8
    <2>4. \A p, q \in 1..Len(queue') : queue'[p] = queue'[q] => p = q
      BY <2>1, <2>2, <1>8 DEF IInv, QueueInv
    <2> QED
      BY <2>3, <2>4 DEF QueueInv
  <1>15. HeldInv'
    <2>1. \A w \in Workers : held[w] # None => held[w] # j
      BY <1>4 DEF IInv, HeldInv
    <2> QED
      BY <2>1, <1>1, <1>4, <1>6, Elements DEF IInv, HeldInv, workerVars
  <1>16. DoneInv'
    <2>1. \A d \in Callers : \A p \in 1..Len(done[d]) : done[d][p].job # j
      <3> SUFFICES ASSUME NEW d \in Callers, NEW p \in 1..Len(done[d]),
                          done[d][p].job = j
                   PROVE  FALSE
        OBVIOUS
      <3>1. /\ j = Job(d, call[d], j.idx)
            /\ j.idx <= sent[d]
        BY DEF IInv, DoneInv
      <3>2. d = c
        BY <3>1, <1>3 DEF Job
      <3> QED
        BY <3>1, <3>2, <1>2, <1>3
    <2>2. \A d \in Callers : sent[d] <= sent'[d] /\ sent[d] \in Nat /\ sent'[d] \in Nat
      BY <1>2, <1>9, <1>10, CallerTypes DEF IInv
    <2>3. \A d \in Callers : \A p \in 1..Len(done[d]) :
            done[d][p].job.idx <= sent[d] => done[d][p].job.idx <= sent'[d]
      BY <2>2, Elements, JobFields DEF IInv, Messages
    <2> QED
      BY <2>1, <2>3, <1>1, <1>6, <1>7 DEF IInv, DoneInv
  <1>17. SlotsInv'
    <2>1. \A d \in Callers : \A i \in 1..MaxJobs : i <= sent[d] => Job(d, call[d], i) # j
      BY <1>2, <1>3 DEF Job
    <2>2. \A d \in Callers : \A i \in 1..MaxJobs : i <= sent[d] => i <= sent'[d]
      BY <1>1, <1>9, <1>10 DEF IInv, TypeOK
    <2> QED
      BY <2>1, <2>2, <1>1, <1>6, <1>7 DEF IInv, SlotsInv
  <1>18. RanInv'
    <2>1. ran[c][sent[c] + 1] = "no"
      BY <1>2 DEF IInv, RanInv
    <2>2. \A p \in 1..Len(queue') : queue'[p].call = call[queue'[p].caller] =>
            ran[queue'[p].caller][queue'[p].idx] = "no"
      <3> SUFFICES ASSUME NEW p \in 1..Len(queue'),
                          queue'[p].call = call[queue'[p].caller]
                   PROVE  ran[queue'[p].caller][queue'[p].idx] = "no"
        OBVIOUS
      <3>1. CASE p \in 1..Len(queue)
        BY <3>1, <1>8 DEF IInv, RanInv
      <3>2. CASE p = Len(queue) + 1
        BY <3>2, <2>1, <1>3, <1>8
      <3> QED
        BY <3>1, <3>2, <1>8
    <2>3. \A d \in Callers : \A i \in 1..MaxJobs : i > sent'[d] => i > sent[d]
      BY <1>1, <1>9, <1>10 DEF IInv, TypeOK
    <2> QED
      BY <2>2, <2>3, <1>1 DEF IInv, RanInv, workerVars
  <1>19. PlaceInv'
    <2> SUFFICES ASSUME NEW d \in Callers, cpc[d] \in {"send", "recv"},
                        NEW i \in 1..sent'[d]
                 PROVE  \/ InQueue(Job(d, call[d], i))'
                        \/ InHand(Job(d, call[d], i))'
                        \/ InChannel(d, i)'
                        \/ slots[d][i] # None
      BY <1>1 DEF PlaceInv
    <2>1. CASE i \in 1..sent[d]
      BY <2>1, <1>1, <1>6, <1>7 DEF IInv, PlaceInv, InChannel
    <2>2. CASE d = c /\ i = sent[c] + 1
      BY <2>2, <1>1, <1>6
    <2> QED
      BY <2>1, <2>2, <1>2, <1>9, <1>10, CallerTypes DEF IInv
  <1> QED
    BY <1>11, <1>12, <1>13, <1>14, <1>15, <1>16, <1>17, <1>18, <1>19 DEF IInv

LEMMA UnlockJobsIInv ==
  ASSUME IInv, NEW c \in Callers, UnlockJobs(c)
  PROVE  IInv'
  <1> USE DEF UnlockJobs, workerVars
  <1>1. TypeOK'
    BY DEF IInv, TypeOK
  <1>2. HandInv' /\ QueueInv' /\ HeldInv' /\ DoneInv' /\ SlotsInv' /\ RanInv' /\ CountInv'
    BY HandFrame, QueueFrame, HeldFrame, DoneFrame, SlotsFrame, RanFrame, CountFrame DEF IInv
  <1>3. SentInv'
    BY DEF IInv, SentInv, TypeOK
  <1>4. PlaceInv'
    <2>1. \A d \in Callers : cpc'[d] \in {"send", "recv"} => cpc[d] \in {"send", "recv"}
      BY DEF IInv, TypeOK
    <2> QED
      BY <2>1 DEF IInv, PlaceInv, InQueue, InHand, InChannel
  <1> QED
    BY <1>1, <1>2, <1>3, <1>4 DEF IInv

LEMMA ReceiveValueIInv ==
  ASSUME IInv, NEW c \in Callers, ReceiveValue(c)
  PROVE  IInv'
  <1> PICK m : m = Head(done[c])
    OBVIOUS
  <1>1. /\ received[c] < size[c]
        /\ done[c] # <<>>
        /\ m.ok
        /\ slots' = [slots EXCEPT ![c][m.job.idx] = m.job]
        /\ received' = [received EXCEPT ![c] = received[c] + 1]
        /\ done' = [done EXCEPT ![c] = Tail(done[c])]
        /\ UNCHANGED <<started, queue, ran, workerVars,
                       jobsLock, cpc, call, size, sent, result>>
    BY DEF ReceiveValue
  <1>2. /\ m \in Messages
        /\ m = done[c][1]
        /\ Len(done[c]) \in Nat /\ Len(done[c]) >= 1
        /\ Tail(done[c]) \in Seq(Messages)
        /\ Len(Tail(done[c])) = Len(done[c]) - 1
        /\ \A p \in 1..Len(Tail(done[c])) :
             p + 1 \in 1..Len(done[c]) /\ Tail(done[c])[p] = done[c][p + 1]
    BY <1>1, TailFacts DEF IInv, TypeOK
  <1> PICK i : i = m.job.idx
    OBVIOUS
  <1>3. m.job \in Jobs /\ i \in 1..MaxJobs
    BY <1>2, JobFields DEF Messages
  <1>4. /\ m.job = Job(c, call[c], i)
        /\ i <= sent[c]
        /\ ~InQueue(m.job)
        /\ ~InHand(m.job)
        /\ slots[c][i] = None
        /\ ran[c][i] = "ok"
        /\ \A q \in 1..Len(done[c]) : done[c][q].job = m.job => q = 1
    BY <1>1, <1>2 DEF IInv, DoneInv
  <1>5. /\ \A d \in Callers : d # c => done'[d] = done[d] /\ slots'[d] = slots[d]
                                       /\ received'[d] = received[d]
        /\ done'[c] = Tail(done[c])
        /\ received'[c] = received[c] + 1
        /\ slots'[c][i] = m.job
        /\ \A n \in 1..MaxJobs : n # i => slots'[c][n] = slots[c][n]
    BY <1>1, <1>3 DEF IInv, TypeOK
  <1>6. \A j : (InQueue(j)' <=> InQueue(j)) /\ (InHand(j)' <=> InHand(j))
    BY <1>1 DEF InQueue, InHand, workerVars
  <1>7. TypeOK'
    <2>1. received[c] + 1 \in 0..MaxJobs
      BY <1>1, CallerTypes DEF IInv
    <2>2. received' \in [Callers -> 0..MaxJobs]
      BY <2>1, <1>1 DEF IInv, TypeOK
    <2>3. slots' \in [Callers -> [1..MaxJobs -> Jobs \cup {None}]]
      BY <1>1, <1>3 DEF IInv, TypeOK
    <2>4. done' \in [Callers -> Seq(Messages)]
      BY <1>1, <1>2 DEF IInv, TypeOK
    <2> QED
      BY <2>2, <2>3, <2>4, <1>1 DEF IInv, TypeOK, workerVars
  <1>8. HandInv' /\ QueueInv' /\ HeldInv' /\ RanInv'
    BY <1>1, HandFrame, QueueFrame, HeldFrame, RanFrame DEF IInv, workerVars
  <1>9. SentInv'
    BY <1>1 DEF IInv, SentInv
  <1>10. DoneInv'
    <2> SUFFICES ASSUME NEW d \in Callers, NEW p \in 1..Len(done'[d])
                 PROVE  (/\ done[d][p].job = Job(d, call[d], done[d][p].job.idx)
                         /\ done[d][p].job.idx <= sent[d]
                         /\ ~InQueue(done[d][p].job)
                         /\ ~InHand(done[d][p].job)
                         /\ slots[d][done[d][p].job.idx] = None
                         /\ ran[d][done[d][p].job.idx] =
                              IF done[d][p].ok THEN "ok" ELSE "panic"
                         /\ \A q \in 1..Len(done[d]) :
                              done[d][q].job = done[d][p].job => q = p)'
      BY DEF DoneInv
    <2>1. CASE d # c
      BY <2>1, <1>1, <1>5, <1>6 DEF IInv, DoneInv
    <2>2. CASE d = c
      <3>1. /\ p + 1 \in 1..Len(done[c])
            /\ done'[c][p] = done[c][p + 1]
            /\ done[c][p + 1].job # m.job
        BY <2>2, <1>2, <1>4, <1>5
      <3>2. done[c][p + 1].job.idx \in 1..MaxJobs
        BY <3>1, Elements, JobFields DEF IInv, Messages
      <3>3. done[c][p + 1].job.idx # i
        BY <3>1, <1>4 DEF IInv, DoneInv
      <3>4. \A q \in 1..Len(done'[c]) : done'[c][q].job = done'[c][p].job => q = p
        <4> SUFFICES ASSUME NEW q \in 1..Len(done'[c]), done'[c][q].job = done'[c][p].job
                     PROVE  q = p
          OBVIOUS
        <4>1. q + 1 \in 1..Len(done[c]) /\ done[c][q + 1].job = done[c][p + 1].job
          BY <3>1, <1>2, <1>5
        <4>2. q + 1 = p + 1
          BY <4>1, <3>1 DEF IInv, DoneInv
        <4> QED
          BY <4>2, <2>2, <1>2, <1>5
      <3> QED
        BY <2>2, <3>1, <3>2, <3>3, <3>4, <1>1, <1>5, <1>6 DEF IInv, DoneInv
    <2> QED
      BY <2>1, <2>2
  <1>11. SlotsInv'
    BY <1>1, <1>3, <1>4, <1>5, <1>6 DEF IInv, SlotsInv
  <1>12. CountInv'
    <2>1. Filled(c)' = Filled(c) \cup {i}
      BY <1>3, <1>5, NoneIsNoJob DEF Filled
    <2>2. i \notin Filled(c)
      BY <1>4 DEF Filled
    <2>3. IsFiniteSet(Filled(c))
      <3>1. IsFiniteSet(1..MaxJobs) /\ Filled(c) \subseteq 1..MaxJobs
        BY PoolAssumption, FS_Interval DEF Filled
      <3> QED
        BY <3>1, FS_Subset
    <2>4. Cardinality(Filled(c)') = Cardinality(Filled(c)) + 1
      BY <2>1, <2>2, <2>3, FS_AddElement
    <2>5. \A d \in Callers : d # c => Filled(d)' = Filled(d)
      BY <1>5 DEF Filled
    <2> QED
      BY <2>4, <2>5, <1>5 DEF IInv, CountInv
  <1>13. PlaceInv'
    <2> SUFFICES ASSUME NEW d \in Callers, cpc[d] \in {"send", "recv"},
                        NEW n \in 1..sent[d]
                 PROVE  (\/ InQueue(Job(d, call[d], n))
                         \/ InHand(Job(d, call[d], n))
                         \/ InChannel(d, n)
                         \/ slots[d][n] # None)'
      BY <1>1 DEF PlaceInv
    <2>1. n \in 1..MaxJobs
      BY CallerTypes DEF IInv
    <2>2. \/ InQueue(Job(d, call[d], n)) \/ InHand(Job(d, call[d], n))
          \/ InChannel(d, n) \/ slots[d][n] # None
      BY DEF IInv, PlaceInv
    <2>3. CASE InQueue(Job(d, call[d], n)) \/ InHand(Job(d, call[d], n))
      BY <2>3, <1>1, <1>6
    <2>4. CASE slots[d][n] # None
      BY <2>1, <2>4, <1>3, <1>4, <1>5
    <2>5. CASE d # c /\ InChannel(d, n)
      BY <2>5, <1>5 DEF InChannel
    <2>6. CASE d = c /\ InChannel(d, n) /\ n # i
      <3>1. PICK p \in 1..Len(done[c]) : done[c][p].job.idx = n
        BY <2>6 DEF InChannel
      <3>2. p # 1
        BY <3>1, <2>6, <1>2
      <3>3. p - 1 \in 1..Len(done'[c]) /\ (p - 1) + 1 = p
        BY <3>2, <1>2, <1>5
      <3>4. done'[c][p - 1].job.idx = n
        BY <3>1, <3>3, <1>2, <1>5
      <3> QED
        BY <3>3, <3>4, <2>6 DEF InChannel
    <2>7. CASE d = c /\ n = i
      BY <2>7, <1>3, <1>5, NoneIsNoJob
    <2> QED
      BY <2>2, <2>3, <2>4, <2>5, <2>6, <2>7
  <1> QED
    BY <1>7, <1>8, <1>9, <1>10, <1>11, <1>12, <1>13 DEF IInv

LEMMA ReceivePanicIInv ==
  ASSUME IInv, NEW c \in Callers, ReceivePanic(c)
  PROVE  IInv'
  <1>1. /\ cpc[c] = "recv"
        /\ cpc' = [cpc EXCEPT ![c] = "raised"]
        /\ done' = [done EXCEPT ![c] = <<>>]
        /\ UNCHANGED <<started, queue, ran, workerVars,
                       jobsLock, call, size, sent, received, slots, result>>
    BY DEF ReceivePanic
  <1>2. /\ \A d \in Callers : d # c => done'[d] = done[d] /\ cpc'[d] = cpc[d]
        /\ done'[c] = <<>> /\ cpc'[c] = "raised"
    BY <1>1 DEF IInv, TypeOK
  <1>3. \A j : (InQueue(j)' <=> InQueue(j)) /\ (InHand(j)' <=> InHand(j))
    BY <1>1 DEF InQueue, InHand, workerVars
  <1>4. TypeOK'
    <2>1. done' \in [Callers -> Seq(Messages)]
      BY <1>1, EmptySeq DEF IInv, TypeOK
    <2>2. cpc' \in [Callers -> Resting \cup {"lock", "send", "recv"}]
      BY <1>1 DEF IInv, TypeOK, Resting
    <2> QED
      BY <2>1, <2>2, <1>1 DEF IInv, TypeOK, workerVars
  <1>5. HandInv' /\ QueueInv' /\ HeldInv' /\ SlotsInv' /\ RanInv' /\ CountInv'
    BY <1>1, HandFrame, QueueFrame, HeldFrame, SlotsFrame, RanFrame, CountFrame
       DEF IInv, workerVars
  <1>6. SentInv'
    BY <1>1, <1>2 DEF IInv, SentInv
  <1>7. DoneInv'
    BY <1>1, <1>2, <1>3 DEF IInv, DoneInv
  <1>8. PlaceInv'
    BY <1>1, <1>2, <1>3 DEF IInv, PlaceInv, InChannel
  <1> QED
    BY <1>4, <1>5, <1>6, <1>7, <1>8 DEF IInv

LEMMA ReturnIInv ==
  ASSUME IInv, NEW c \in Callers, Return(c)
  PROVE  IInv'
  <1>1. /\ cpc[c] = "recv"
        /\ received[c] = size[c]
        /\ cpc' = [cpc EXCEPT ![c] = "returned"]
        /\ result' = [result EXCEPT ![c] = [i \in 1..size[c] |-> slots[c][i]]]
        /\ UNCHANGED <<started, queue, done, ran, workerVars,
                       jobsLock, call, size, sent, received, slots>>
    BY DEF Return
  <1>2. TypeOK'
    <2> /\ size[c] \in Nat /\ size[c] <= MaxJobs /\ MaxJobs \in Nat
        /\ call[c] \in Nat /\ call[c] > 0
      BY <1>1, CallerTypes DEF IInv, SentInv
    <2>1. \A i \in 1..size[c] : i \in 1..MaxJobs
      OBVIOUS
    <2>6. call[c] \in Nat \ {0}
      OBVIOUS
    <2>7. \A i \in 1..size[c] : slots[c][i] = Job(c, call[c], i)
      BY <1>1, AllFilled
    <2>2. \A i \in 1..size[c] : slots[c][i] \in Jobs
      BY <2>1, <2>6, <2>7, JobInJobs
    <2>3. [i \in 1..size[c] |-> slots[c][i]] \in Seq(Jobs)
      BY <2>2, IsASeq
    <2>4. cpc' \in [Callers -> Resting \cup {"lock", "send", "recv"}]
      BY <1>1 DEF IInv, TypeOK, Resting
    <2>5. result' \in [Callers -> Seq(Jobs)]
      BY <2>3, <1>1 DEF IInv, TypeOK
    <2> QED
      BY <2>4, <2>5, <1>1 DEF IInv, TypeOK, workerVars
  <1>3. HandInv' /\ QueueInv' /\ HeldInv' /\ DoneInv' /\ SlotsInv' /\ RanInv' /\ CountInv'
    BY <1>1, HandFrame, QueueFrame, HeldFrame, DoneFrame, SlotsFrame, RanFrame, CountFrame
       DEF IInv, workerVars
  <1>4. \A d \in Callers : cpc'[d] = IF d = c THEN "returned" ELSE cpc[d]
    BY <1>1 DEF IInv, TypeOK
  <1>5. SentInv'
    BY <1>1, <1>4 DEF IInv, SentInv
  <1>6. PlaceInv'
    BY <1>1, <1>4 DEF IInv, PlaceInv, InQueue, InHand, InChannel, workerVars
  <1> QED
    BY <1>2, <1>3, <1>5, <1>6 DEF IInv

-----------------------------------------------------------------------------
\* Each step of a worker preserves the invariant.

LEMMA LockReceiverIInv ==
  ASSUME IInv, NEW w \in Workers, LockReceiver(w)
  PROVE  IInv'
  <1>1. /\ wpc[w] = "lock"
        /\ rxLock' = w
        /\ wpc' = [wpc EXCEPT ![w] = "recv"]
        /\ UNCHANGED <<started, queue, done, ran, held, callerVars>>
    BY DEF LockReceiver
  <1>2. held[w] = None /\ \A v \in Workers : wpc'[v] = IF v = w THEN "recv" ELSE wpc[v]
    BY <1>1 DEF IInv, HandInv, TypeOK
  <1>3. TypeOK'
    BY <1>1 DEF IInv, TypeOK, callerVars
  <1>4. QueueInv' /\ HeldInv' /\ DoneInv' /\ SlotsInv' /\ CountInv' /\ PlaceInv'
    BY <1>1, QueueFrame, HeldFrame, DoneFrame, SlotsFrame, CountFrame, PlaceFrame
       DEF IInv, callerVars
  <1>5. SentInv'
    BY <1>1 DEF IInv, SentInv, callerVars
  <1>6. HandInv'
    BY <1>1, <1>2 DEF IInv, HandInv, callerVars
  <1>7. RanInv'
    BY <1>1, <1>2 DEF IInv, RanInv, callerVars
  <1> QED
    BY <1>3, <1>4, <1>5, <1>6, <1>7 DEF IInv

LEMMA TakeJobIInv ==
  ASSUME IInv, NEW w \in Workers, TakeJob(w)
  PROVE  IInv'
  <1> PICK h : h = Head(queue)
    OBVIOUS
  <1>1. /\ wpc[w] = "recv"
        /\ queue # <<>>
        /\ held' = [held EXCEPT ![w] = h]
        /\ queue' = Tail(queue)
        /\ rxLock' = None
        /\ wpc' = [wpc EXCEPT ![w] = "run"]
        /\ UNCHANGED <<started, done, ran, callerVars>>
    BY DEF TakeJob
  <1>2. /\ \A j : j # h => (InQueue(j)' <=> InQueue(j))
        /\ InQueue(h)
        /\ ~InQueue(h)'
    BY <1>1, TailInQueue DEF IInv, TypeOK
  <1>3. /\ h \in Jobs
        /\ h = queue[1]
        /\ Len(queue) \in Nat /\ Len(queue) >= 1
        /\ queue' \in Seq(Jobs)
        /\ Len(queue') = Len(queue) - 1
        /\ \A p \in 1..Len(queue') : p + 1 \in 1..Len(queue) /\ queue'[p] = queue[p + 1]
    BY <1>1, TailFacts DEF IInv, TypeOK
  <1>4. /\ held[w] = None
        /\ \A v \in Workers : held'[v] = IF v = w THEN h ELSE held[v]
        /\ \A v \in Workers : wpc'[v] = IF v = w THEN "run" ELSE wpc[v]
    BY <1>1 DEF IInv, HandInv, TypeOK
  <1>5. \A j : j # None => (InHand(j)' <=> InHand(j) \/ j = h)
    BY <1>4 DEF InHand
  <1>6. IsSent(h) /\ \A i : IsSent(i) => IsSent(i)'
    BY <1>1, <1>3 DEF IInv, QueueInv, IsSent, callerVars
  <1>7. TypeOK'
    BY <1>1, <1>3 DEF IInv, TypeOK, callerVars
  <1>8. HandInv'
    BY <1>1, <1>3, <1>4, NoneIsNoJob DEF IInv, HandInv
  <1>9. SentInv' /\ CountInv'
    BY <1>1, CountFrame DEF IInv, SentInv, callerVars
  <1>10. QueueInv'
    <2>1. (\A p \in 1..Len(queue) : IsSent(queue[p]))'
      BY <1>3, <1>6 DEF IInv, QueueInv
    <2>2. \A p, q \in 1..Len(queue') : queue'[p] = queue'[q] => p = q
      <3> SUFFICES ASSUME NEW p \in 1..Len(queue'), NEW q \in 1..Len(queue'),
                          queue'[p] = queue'[q]
                   PROVE  p = q
        OBVIOUS
      <3>1. p + 1 = q + 1
        BY <1>3 DEF IInv, QueueInv
      <3> QED
        BY <3>1, <1>3
    <2> QED
      BY <2>1, <2>2 DEF QueueInv
  <1>11. HeldInv'
    <2> SUFFICES ASSUME NEW v \in Workers, held'[v] # None
                 PROVE  (/\ IsSent(held[v])
                         /\ ~InQueue(held[v])
                         /\ \A u \in Workers : held[u] = held[v] => u = v)'
      BY DEF HeldInv
    <2>1. \A u \in Workers : held[u] # h
      BY <1>2, <1>3, NoneIsNoJob DEF IInv, HeldInv
    <2>2. CASE v = w
      BY <2>1, <2>2, <1>2, <1>4, <1>6
    <2>3. CASE v # w
      BY <2>1, <2>3, <1>2, <1>4, <1>6 DEF IInv, HeldInv
    <2> QED
      BY <2>2, <2>3
  <1>12. DoneInv'
    <2>1. \A c \in Callers : \A p \in 1..Len(done[c]) :
            /\ done[c][p].job # h
            /\ done[c][p].job # None
      BY <1>2, Elements, NoneIsNoJob DEF IInv, DoneInv, Messages
    <2>2. \A c \in Callers : \A p \in 1..Len(done[c]) :
            ~InQueue(done[c][p].job)' /\ ~InHand(done[c][p].job)'
      <3> SUFFICES ASSUME NEW c \in Callers, NEW p \in 1..Len(done[c])
                   PROVE  ~InQueue(done[c][p].job)' /\ ~InHand(done[c][p].job)'
        OBVIOUS
      <3> PICK j : j = done[c][p].job
        OBVIOUS
      <3>1. j # h /\ j # None /\ ~InQueue(j) /\ ~InHand(j)
        BY <2>1 DEF IInv, DoneInv
      <3>2. ~InQueue(j)' /\ ~InHand(j)'
        BY <3>1, <1>2, <1>5
      <3> QED
        BY <3>2, <1>1
    <2> QED
      BY <2>2, <1>1 DEF IInv, DoneInv, callerVars
  <1>13. SlotsInv'
    <2>1. \A c \in Callers : \A i \in 1..MaxJobs : slots[c][i] # None =>
            Job(c, call[c], i) # h /\ Job(c, call[c], i) # None
      BY <1>2 DEF IInv, SlotsInv
    <2> QED
      BY <2>1, <1>1, <1>2, <1>5 DEF IInv, SlotsInv, callerVars
  <1>14. RanInv'
    <2>1. \A p \in 1..Len(queue') : queue'[p].call = call[queue'[p].caller] =>
            ran[queue'[p].caller][queue'[p].idx] = "no"
      BY <1>3 DEF IInv, RanInv
    <2>2. h.call = call[h.caller] => ran[h.caller][h.idx] = "no"
      BY <1>3 DEF IInv, RanInv
    <2> QED
      BY <2>1, <2>2, <1>1, <1>4 DEF IInv, RanInv, callerVars
  <1>15. PlaceInv'
    <2> SUFFICES ASSUME NEW c \in Callers, cpc[c] \in {"send", "recv"},
                        NEW i \in 1..sent[c]
                 PROVE  (\/ InQueue(Job(c, call[c], i))
                         \/ InHand(Job(c, call[c], i))
                         \/ InChannel(c, i)
                         \/ slots[c][i] # None)'
      BY <1>1 DEF PlaceInv, callerVars
    <2>1. Job(c, call[c], i) # None
      <3>1. /\ i \in 1..MaxJobs
            /\ call[c] \in Nat /\ call[c] > 0
        BY CallerTypes DEF IInv, SentInv
      <3> QED
        BY <3>1, JobInJobs, NoneIsNoJob
    <2>2. \/ InQueue(Job(c, call[c], i)) \/ InHand(Job(c, call[c], i))
          \/ InChannel(c, i) \/ slots[c][i] # None
      BY DEF IInv, PlaceInv
    <2>3. InChannel(c, i)' <=> InChannel(c, i)
      BY <1>1 DEF InChannel
    <2> QED
      BY <2>1, <2>2, <2>3, <1>1, <1>2, <1>5 DEF callerVars
  <1> QED
    BY <1>7, <1>8, <1>9, <1>10, <1>11, <1>12, <1>13, <1>14, <1>15 DEF IInv

LEMMA ExecuteIInv ==
  ASSUME IInv, NEW w \in Workers, Execute(w)
  PROVE  IInv'
  <1> PICK o \in {"ok", "panic"} :
        /\ wpc' = [wpc EXCEPT ![w] = o]
        /\ ran' = IF held[w].call = call[held[w].caller]
                  THEN [ran EXCEPT ![held[w].caller][held[w].idx] = o]
                  ELSE ran
    BY DEF Execute
  <1>1. /\ wpc[w] = "run"
        /\ UNCHANGED <<started, queue, done, rxLock, held, callerVars>>
    BY DEF Execute
  <1>2. held[w] \in Jobs /\ held[w] # None
    BY <1>1, Elements DEF IInv, HandInv
  <1>3. /\ held[w].caller \in Callers
        /\ held[w].idx \in 1..MaxJobs
        /\ held[w] = Job(held[w].caller, held[w].call, held[w].idx)
    BY <1>2, JobFields
  <1>4. \A v \in Workers : wpc'[v] = IF v = w THEN o ELSE wpc[v]
    BY DEF IInv, TypeOK
  <1>5. ASSUME NEW c \in Callers, NEW i \in 1..MaxJobs
        PROVE  ran'[c][i] = IF held[w] = Job(c, call[c], i) THEN o ELSE ran[c][i]
    <2> PICK j : j = held[w]
      OBVIOUS
    <2>1. ran \in [Callers -> [1..MaxJobs -> {"no", "ok", "panic"}]]
      BY DEF IInv, TypeOK
    <2>2. CASE j = Job(c, call[c], i)
      <3>1. j.caller = c /\ j.call = call[c] /\ j.idx = i
        BY <2>2 DEF Job
      <3>2. ran' = [ran EXCEPT ![c][i] = o]
        BY <3>1
      <3> QED
        BY <2>1, <2>2, <3>2
    <2>3. CASE j # Job(c, call[c], i)
      <3>1. j.caller # c \/ j.idx # i \/ j.call # call[j.caller]
        BY <2>3, <1>3
      <3> QED
        BY <2>1, <2>3, <3>1, <1>3
    <2> QED
      BY <2>2, <2>3
  <1>6. \A j : (InQueue(j)' <=> InQueue(j)) /\ (InHand(j)' <=> InHand(j))
    BY <1>1 DEF InQueue, InHand
  <1>7. TypeOK'
    <2>1. ran' \in [Callers -> [1..MaxJobs -> {"no", "ok", "panic"}]]
      BY <1>3 DEF IInv, TypeOK
    <2> QED
      BY <2>1, <1>1 DEF IInv, TypeOK, callerVars
  <1>8. HandInv'
    BY <1>1, <1>2, <1>4 DEF IInv, HandInv
  <1>9. QueueInv' /\ HeldInv' /\ CountInv'
    BY <1>1, QueueFrame, HeldFrame, CountFrame DEF IInv, callerVars
  <1>10. SentInv'
    BY <1>1 DEF IInv, SentInv, callerVars
  <1>11. DoneInv'
    <2>1. \A c \in Callers : \A p \in 1..Len(done[c]) :
            ran'[c][done[c][p].job.idx] = ran[c][done[c][p].job.idx]
      <3> SUFFICES ASSUME NEW c \in Callers, NEW p \in 1..Len(done[c])
                   PROVE  ran'[c][done[c][p].job.idx] = ran[c][done[c][p].job.idx]
        OBVIOUS
      <3>1. done[c][p].job \in Jobs
        BY Elements DEF IInv, Messages
      <3>2. held[w] # Job(c, call[c], done[c][p].job.idx)
        BY DEF IInv, DoneInv, InHand
      <3> QED
        BY <3>1, <3>2, <1>5, JobFields
    <2> QED
      BY <2>1, <1>1, <1>6 DEF IInv, DoneInv, callerVars
  <1>12. SlotsInv'
    BY <1>1, <1>5, <1>6 DEF IInv, SlotsInv, InHand, callerVars
  <1>13. RanInv'
    <2>1. \A p \in 1..Len(queue) : queue[p].call = call[queue[p].caller] =>
            ran'[queue[p].caller][queue[p].idx] = "no"
      <3> SUFFICES ASSUME NEW p \in 1..Len(queue), queue[p].call = call[queue[p].caller]
                   PROVE  ran'[queue[p].caller][queue[p].idx] = "no"
        OBVIOUS
      <3>1. queue[p] \in Jobs /\ queue[p] # held[w]
        BY <1>2, Elements DEF IInv, HeldInv, InQueue
      <3>2. held[w] # Job(queue[p].caller, call[queue[p].caller], queue[p].idx)
        BY <3>1, JobFields
      <3> QED
        BY <3>1, <3>2, <1>5, JobFields DEF IInv, RanInv
    <2>2. \A v \in Workers : held[v] # None /\ held[v].call = call[held[v].caller] =>
            ran'[held[v].caller][held[v].idx] = IF wpc'[v] = "run" THEN "no" ELSE wpc'[v]
      <3> SUFFICES ASSUME NEW v \in Workers, held[v] # None,
                          held[v].call = call[held[v].caller]
                   PROVE  ran'[held[v].caller][held[v].idx] =
                            IF wpc'[v] = "run" THEN "no" ELSE wpc'[v]
        OBVIOUS
      <3>1. held[v] \in Jobs /\ held[v] = Job(held[v].caller, call[held[v].caller], held[v].idx)
        BY Elements, JobFields DEF IInv
      <3>2. CASE v = w
        BY <3>1, <3>2, <1>3, <1>4, <1>5
      <3>3. CASE v # w
        <4>1. held[w] # held[v]
          BY <3>3 DEF IInv, HeldInv
        <4> QED
          BY <3>1, <3>3, <4>1, <1>4, <1>5, JobFields DEF IInv, RanInv
      <3> QED
        BY <3>2, <3>3
    <2>3. \A c \in Callers : \A i \in 1..MaxJobs : i > sent[c] => ran'[c][i] = "no"
      <3> SUFFICES ASSUME NEW c \in Callers, NEW i \in 1..MaxJobs, i > sent[c]
                   PROVE  ran'[c][i] = "no"
        OBVIOUS
      <3>1. held[w] # Job(c, call[c], i)
        BY <1>2, CallerTypes DEF IInv, HeldInv, IsSent, Job
      <3> QED
        BY <3>1, <1>5 DEF IInv, RanInv
    <2> QED
      BY <2>1, <2>2, <2>3, <1>1 DEF RanInv, callerVars
  <1>14. PlaceInv'
    BY <1>1, PlaceFrame DEF IInv, callerVars
  <1> QED
    BY <1>7, <1>8, <1>9, <1>10, <1>11, <1>12, <1>13, <1>14 DEF IInv

LEMMA ReportIInv ==
  ASSUME IInv, NEW w \in Workers, Report(w)
  PROVE  IInv'
  <1> PICK h : h = held[w]
    OBVIOUS
  <1> DEFINE m == [job |-> h, ok |-> wpc[w] = "ok"]
  <1>1. /\ wpc[w] \in {"ok", "panic"}
        /\ done' = IF Open(h) THEN [done EXCEPT ![h.caller] = Append(done[h.caller], m)]
                   ELSE done
        /\ held' = [held EXCEPT ![w] = None]
        /\ wpc' = [wpc EXCEPT ![w] = "lock"]
        /\ UNCHANGED <<started, queue, ran, rxLock, callerVars>>
    BY DEF Report
  <1>2. /\ h # None /\ h \in Jobs
        /\ h.caller \in Callers /\ h.idx \in 1..MaxJobs
        /\ h = Job(h.caller, h.call, h.idx)
    BY <1>1, Elements, JobFields DEF IInv, HandInv
  <1>3. /\ \A v \in Workers : held'[v] = IF v = w THEN None ELSE held[v]
        /\ \A v \in Workers : wpc'[v] = IF v = w THEN "lock" ELSE wpc[v]
    BY <1>1 DEF IInv, TypeOK
  <1>4. /\ IsSent(h) /\ ~InQueue(h) /\ InHand(h)
        /\ \A v \in Workers : held[v] = h => v = w
    BY <1>2 DEF IInv, HeldInv, InHand
  <1>5. \A j : InQueue(j)' <=> InQueue(j)
    BY <1>1 DEF InQueue
  <1>6. \A j : j # None => (InHand(j)' <=> InHand(j) /\ j # h)
    BY <1>2, <1>3, <1>4 DEF InHand
  <1>7. m \in Messages /\ m.job = h /\ (m.ok <=> wpc[w] = "ok")
    BY <1>2 DEF Messages
  <1>8. ASSUME NEW c \in Callers
        PROVE  /\ Len(done[c]) \in Nat /\ done'[c] \in Seq(Messages)
               /\ \/ done'[c] = done[c]
                  \/ /\ c = h.caller /\ Open(h)
                     /\ Len(done'[c]) = Len(done[c]) + 1
                     /\ \A p \in 1..Len(done[c]) : done'[c][p] = done[c][p]
                     /\ done'[c][Len(done[c]) + 1] = m
    <2>1. done[c] \in Seq(Messages)
      BY DEF IInv, TypeOK
    <2>2. CASE Open(h) /\ c = h.caller
      <3>1. done'[c] = Append(done[c], m)
        BY <2>2, <1>1 DEF IInv, TypeOK
      <3> HIDE DEF m
      <3> QED
        BY <2>1, <2>2, <3>1, <1>7, AppendFacts, LenProperties
    <2>3. CASE ~(Open(h) /\ c = h.caller)
      <3>1. done'[c] = done[c]
        BY <2>3, <1>1 DEF IInv, TypeOK
      <3> QED
        BY <2>1, <3>1, LenProperties
    <2> QED
      BY <2>2, <2>3
  <1>9. Open(h) => h = Job(h.caller, call[h.caller], h.idx)
    BY <1>2 DEF Open
  <1> HIDE DEF m
  <1>10. TypeOK'
    <2>1. done' \in [Callers -> Seq(Messages)]
      BY <1>1, <1>8 DEF IInv, TypeOK
    <2> QED
      BY <2>1, <1>1 DEF IInv, TypeOK, callerVars
  <1>11. HandInv'
    BY <1>1, <1>2, <1>3 DEF IInv, HandInv
  <1>12. SentInv' /\ QueueInv' /\ CountInv'
    BY <1>1, QueueFrame, CountFrame DEF IInv, SentInv, callerVars
  <1>13. HeldInv'
    BY <1>1, <1>3 DEF IInv, HeldInv, InQueue, IsSent, callerVars
  <1>14. DoneInv'
    <2>1. ASSUME NEW c \in Callers, NEW p \in 1..Len(done[c])
          PROVE  /\ done[c][p].job # None
                 /\ done[c][p].job # h
      BY <1>4, Elements, NoneIsNoJob DEF IInv, DoneInv, Messages
    <2> SUFFICES ASSUME NEW c \in Callers, NEW p \in 1..Len(done'[c])
                 PROVE  (/\ done[c][p].job = Job(c, call[c], done[c][p].job.idx)
                         /\ done[c][p].job.idx <= sent[c]
                         /\ ~InQueue(done[c][p].job)
                         /\ ~InHand(done[c][p].job)
                         /\ slots[c][done[c][p].job.idx] = None
                         /\ ran[c][done[c][p].job.idx] =
                              IF done[c][p].ok THEN "ok" ELSE "panic"
                         /\ \A q \in 1..Len(done[c]) :
                              done[c][q].job = done[c][p].job => q = p)'
      BY DEF DoneInv
    <2>2. CASE p \in 1..Len(done[c])
      <3> PICK j : j = done[c][p].job
        OBVIOUS
      <3>1. /\ j = Job(c, call[c], j.idx) /\ j.idx <= sent[c]
            /\ ~InQueue(j) /\ ~InHand(j) /\ slots[c][j.idx] = None
            /\ ran[c][j.idx] = IF done[c][p].ok THEN "ok" ELSE "panic"
            /\ \A q \in 1..Len(done[c]) : done[c][q].job = j => q = p
            /\ j # None /\ j # h
        BY <2>1, <2>2 DEF IInv, DoneInv
      <3>2. done'[c][p] = done[c][p]
        BY <2>2, <1>8
      <3>3. ~InQueue(j)' /\ ~InHand(j)'
        BY <3>1, <1>5, <1>6
      <3>4. \A q \in 1..Len(done'[c]) : done'[c][q].job = j => q = p
        <4> SUFFICES ASSUME NEW q \in 1..Len(done'[c]), done'[c][q].job = j
                     PROVE  q = p
          OBVIOUS
        <4>1. \/ q \in 1..Len(done[c]) /\ done'[c][q] = done[c][q]
              \/ done'[c][q] = m
          BY <1>8
        <4> QED
          BY <4>1, <3>1, <1>7
      <3> QED
        BY <3>1, <3>2, <3>3, <3>4, <1>1 DEF callerVars
    <2>3. CASE c = h.caller /\ Open(h) /\ p = Len(done[c]) + 1 /\ done'[c] # done[c]
      <3>1. done'[c][p] = m /\ done'[c][p].job = h /\ h = Job(c, call[c], h.idx)
        BY <2>3, <1>7, <1>8, <1>9
      <3>2. h.idx <= sent[c] /\ ~InQueue(h)' /\ ~InHand(h)'
        BY <2>3, <1>2, <1>4, <1>5, <1>6, CallerTypes, JobFields DEF IInv, IsSent, Open
      <3>3. slots[c][h.idx] = None
        BY <3>1, <1>2, <1>4 DEF IInv, SlotsInv
      <3>4. ran[c][h.idx] = wpc[w]
        BY <2>3, <1>1, <1>2 DEF IInv, RanInv, Open
      <3>5. ran[c][h.idx] = IF m.ok THEN "ok" ELSE "panic"
        BY <3>4, <1>1, <1>7
      <3>6. \A q \in 1..Len(done'[c]) : done'[c][q].job = h => q = p
        BY <2>1, <2>3, <1>8
      <3> QED
        BY <3>1, <3>2, <3>3, <3>5, <3>6, <1>1 DEF callerVars
    <2> QED
      BY <2>2, <2>3, <1>8
  <1>15. SlotsInv'
    <2>1. \A c \in Callers : \A i \in 1..MaxJobs : slots[c][i] # None =>
            Job(c, call[c], i) # None
      BY NoneIsNoJob DEF IInv, SlotsInv, TypeOK
    <2> QED
      BY <2>1, <1>1, <1>5, <1>6 DEF IInv, SlotsInv, callerVars
  <1>16. RanInv'
    BY <1>1, <1>3 DEF IInv, RanInv, callerVars
  <1>17. PlaceInv'
    <2> SUFFICES ASSUME NEW c \in Callers, cpc[c] \in {"send", "recv"},
                        NEW i \in 1..sent[c]
                 PROVE  (\/ InQueue(Job(c, call[c], i))
                         \/ InHand(Job(c, call[c], i))
                         \/ InChannel(c, i)
                         \/ slots[c][i] # None)'
      BY <1>1 DEF PlaceInv, callerVars
    <2> PICK j : j = Job(c, call[c], i)
      OBVIOUS
    <2>1. j # None
      <3>1. /\ i \in 1..MaxJobs
            /\ call[c] \in Nat /\ call[c] > 0
        BY CallerTypes DEF IInv, SentInv
      <3> QED
        BY <3>1, JobInJobs, NoneIsNoJob
    <2>2. InQueue(j) \/ InHand(j) \/ InChannel(c, i) \/ slots[c][i] # None
      BY DEF IInv, PlaceInv
    <2>3. InChannel(c, i) => InChannel(c, i)'
      BY <1>8 DEF InChannel
    <2>4. j = h => InChannel(c, i)'
      <3> SUFFICES ASSUME j = h PROVE InChannel(c, i)'
        OBVIOUS
      <3>1. h.caller = c /\ h.call = call[c] /\ h.idx = i
        BY DEF Job
      <3>2. Open(h)
        BY <3>1 DEF Open
      <3>3. done'[c] = Append(done[c], m) /\ done[c] \in Seq(Messages)
        BY <3>1, <3>2, <1>1 DEF IInv, TypeOK
      <3>4. /\ Len(done'[c]) = Len(done[c]) + 1 /\ Len(done[c]) \in Nat
            /\ done'[c][Len(done[c]) + 1] = m
        BY <3>3, <1>7, AppendFacts, LenProperties
      <3> QED
        BY <3>1, <3>4, <1>7 DEF InChannel
    <2>5. j = Job(c, call[c], i)'
      BY <1>1 DEF callerVars, Job
    <2>6. InQueue(j)' \/ InHand(j)' \/ InChannel(c, i)' \/ (slots[c][i] # None)'
      BY <2>1, <2>2, <2>3, <2>4, <1>1, <1>5, <1>6 DEF callerVars
    <2> QED
      BY <2>5, <2>6 DEF InQueue, InHand
  <1> QED
    BY <1>10, <1>11, <1>12, <1>13, <1>14, <1>15, <1>16, <1>17 DEF IInv

-----------------------------------------------------------------------------
LEMMA NextIInv == IInv /\ [Next]_vars => IInv'
  <1> SUFFICES ASSUME IInv, [Next]_vars PROVE IInv'
    OBVIOUS
  <1>1. ASSUME NEW c \in Callers, Begin(c) PROVE IInv'
    BY <1>1, BeginIInv
  <1>2. ASSUME NEW c \in Callers, CallerStep(c) PROVE IInv'
    BY <1>2, LockJobsIInv, SendJobIInv, UnlockJobsIInv, ReceiveValueIInv,
       ReceivePanicIInv, ReturnIInv DEF CallerStep
  <1>3. ASSUME NEW w \in Workers, WorkerStep(w) PROVE IInv'
    BY <1>3, LockReceiverIInv, TakeJobIInv, ExecuteIInv, ReportIInv DEF WorkerStep
  <1>4. CASE UNCHANGED vars
    <2>1. UNCHANGED <<started, queue, done, ran, rxLock, wpc, held, jobsLock, cpc,
                      call, size, sent, received, slots, result>>
      BY <1>4 DEF vars, workerVars, callerVars
    <2>2. TypeOK' /\ SentInv'
      BY <2>1 DEF IInv, TypeOK, SentInv
    <2> QED
      BY <2>1, <2>2, HandFrame, QueueFrame, HeldFrame, DoneFrame, SlotsFrame,
         RanFrame, CountFrame, PlaceFrame DEF IInv
  <1>5. CASE Idle
    BY <1>4, <1>5 DEF Idle
  <1> QED
    BY <1>1, <1>2, <1>3, <1>4, <1>5 DEF Next

LEMMA SpecIInv == Spec => []IInv
  BY InitIInv, NextIInv, PTL DEF Spec

-----------------------------------------------------------------------------
\* The variables of the pool, of `run` and of the workers keep their types.
THEOREM PoolTypeOK == Spec => []TypeOK
  <1>1. IInv => TypeOK
    BY DEF IInv
  <1> QED
    BY <1>1, SpecIInv, PTL

\* `expect("every job reports once")` cannot fail, for any number of workers,
\* callers, jobs and calls: when `run` has received as many messages as it sent
\* jobs, each slot holds the result of the job of that index of that call.
THEOREM JobsReportOnce == Spec => []EveryJobReportsOnce
  <1>1. IInv => EveryJobReportsOnce
    BY AllFilled DEF EveryJobReportsOnce
  <1> QED
    BY <1>1, SpecIInv, PTL

\* `expect("pool workers stopped")` cannot fail: while `run` waits for a message,
\* one is in its channel or the job that will send it is queued or in hand.
THEOREM ChannelNeverCloses == Spec => []ChannelStaysOpen
  <1>1. IInv => ChannelStaysOpen
    <2> SUFFICES ASSUME IInv, NEW c \in Callers, cpc[c] = "recv",
                        received[c] < size[c], done[c] = <<>>
                 PROVE  \E i \in 1..size[c] : \/ InQueue(Job(c, call[c], i))
                                              \/ InHand(Job(c, call[c], i))
      BY DEF ChannelStaysOpen, InQueue, InHand
    <2>1. /\ size[c] \in Nat /\ sent[c] = size[c] /\ size[c] <= MaxJobs /\ MaxJobs \in Nat
      BY CallerTypes DEF IInv, SentInv
    <2>2. Filled(c) # 1..size[c]
      <3>1. Cardinality(1..size[c]) = size[c]
        BY <2>1, FS_Interval
      <3>2. Cardinality(Filled(c)) = received[c] /\ received[c] \in Nat
        BY CallerTypes DEF IInv, CountInv
      <3> QED
        BY <2>1, <3>1, <3>2
    <2>3. Filled(c) \subseteq 1..size[c]
      BY <2>1 DEF IInv, SlotsInv, Filled
    <2>4. PICK i \in 1..size[c] : slots[c][i] = None
      BY <2>1, <2>2, <2>3 DEF Filled
    <2>5. ~InChannel(c, i)
      BY EmptySeq DEF InChannel
    <2> QED
      BY <2>1, <2>4, <2>5 DEF IInv, PlaceInv
  <1> QED
    BY <1>1, SpecIInv, PTL

\* The pool implements the promise of `run`: a call returns the results of its own
\* jobs in job order or raises the panic of one of them, and executes no job twice.
THEOREM PoolImplementsMap == Spec => ImplementsParallelMap
  <1> DEFINE phase == [c \in Callers |-> IF cpc[c] \in Resting THEN cpc[c]
                                         ELSE "running"]
  <1>1. Init => Map!Init
    BY DEF Init, Map!Init, NoRun, Resting
  <1>2. IInv /\ [Next]_vars => [Map!Next]_Map!vars
    <2> SUFFICES ASSUME IInv, [Next]_vars PROVE [Map!Next]_Map!vars
      OBVIOUS
    <2>0. /\ cpc \in [Callers -> Resting \cup {"lock", "send", "recv"}]
          /\ Map!Resting = Resting
      BY DEF IInv, TypeOK, Map!Resting, Resting
    <2>1. ASSUME NEW c \in Callers, Begin(c) PROVE Map!Begin(c)
      <3>1. /\ cpc[c] \in Resting
            /\ cpc' = [cpc EXCEPT ![c] = "lock"]
            /\ \E n \in 0..MaxJobs : size' = [size EXCEPT ![c] = n]
            /\ call' = [call EXCEPT ![c] = call[c] + 1]
            /\ result' = [result EXCEPT ![c] = <<>>]
            /\ ran' = [ran EXCEPT ![c] = NoRun]
        BY <2>1 DEF Begin
      <3>2. phase' = [phase EXCEPT ![c] = "running"]
        BY <3>1, <2>0 DEF Resting
      <3> QED
        BY <3>1, <3>2, <2>0 DEF Map!Begin, NoRun
    <2>2. ASSUME NEW c \in Callers,
                 LockJobs(c) \/ SendJob(c) \/ UnlockJobs(c) \/ ReceiveValue(c)
          PROVE  UNCHANGED Map!vars
      <3>1. UNCHANGED <<call, size, ran, result>>
        BY <2>2 DEF LockJobs, SendJob, UnlockJobs, ReceiveValue
      <3>2. phase' = phase
        BY <2>2, <2>0 DEF LockJobs, SendJob, UnlockJobs, ReceiveValue, Resting
      <3> QED
        BY <3>1, <3>2 DEF Map!vars
    <2>3. ASSUME NEW c \in Callers, ReceivePanic(c) PROVE Map!Raise(c)
      <3>1. /\ cpc[c] = "recv" /\ done[c] # <<>> /\ ~Head(done[c]).ok
            /\ cpc' = [cpc EXCEPT ![c] = "raised"]
            /\ UNCHANGED <<call, size, ran, result>>
        BY <2>3 DEF ReceivePanic
      <3>2. /\ Head(done[c]) = done[c][1] /\ 1 \in 1..Len(done[c])
            /\ done[c][1] \in Messages
        BY <3>1, TailFacts DEF IInv, TypeOK
      <3> PICK i : i = done[c][1].job.idx
        OBVIOUS
      <3>3. i \in 1..MaxJobs /\ i <= sent[c] /\ ran[c][i] = "panic"
        BY <3>1, <3>2, JobFields DEF IInv, DoneInv, Messages
      <3>4. i \in 1..size[c]
        BY <3>3, CallerTypes DEF IInv, SentInv
      <3>5. phase' = [phase EXCEPT ![c] = "raised"] /\ phase[c] = "running"
        BY <3>1, <2>0 DEF Resting
      <3> QED
        BY <3>1, <3>3, <3>4, <3>5 DEF Map!Raise
    <2>4. ASSUME NEW c \in Callers, Return(c) PROVE Map!Return(c)
      <3>1. /\ cpc[c] = "recv" /\ received[c] = size[c]
            /\ cpc' = [cpc EXCEPT ![c] = "returned"]
            /\ result' = [result EXCEPT ![c] = [i \in 1..size[c] |-> slots[c][i]]]
            /\ UNCHANGED <<call, size, ran>>
        BY <2>4 DEF Return
      <3>2. \A i \in 1..size[c] : slots[c][i] = Map!Job(c, call[c], i) /\ ran[c][i] = "ok"
        BY <3>1, AllFilled DEF Job, Map!Job
      <3>3. phase' = [phase EXCEPT ![c] = "returned"] /\ phase[c] = "running"
        BY <3>1, <2>0 DEF Resting
      <3>4. [i \in 1..size[c] |-> slots[c][i]] =
              [i \in 1..size[c] |-> Map!Job(c, call[c], i)]
        BY <3>2
      <3> QED
        BY <3>1, <3>2, <3>3, <3>4 DEF Map!Return
    <2>5. ASSUME NEW w \in Workers, LockReceiver(w) \/ TakeJob(w) \/ Report(w)
          PROVE  UNCHANGED Map!vars
      BY <2>5 DEF LockReceiver, TakeJob, Report, callerVars, Map!vars
    <2>6. ASSUME NEW w \in Workers, Execute(w) PROVE [Map!Next]_Map!vars
      <3> PICK o \in {"ok", "panic"} :
            ran' = IF held[w].call = call[held[w].caller]
                   THEN [ran EXCEPT ![held[w].caller][held[w].idx] = o]
                   ELSE ran
        BY <2>6 DEF Execute
      <3>1. wpc[w] = "run" /\ UNCHANGED <<cpc, call, size, result>>
        BY <2>6 DEF Execute, callerVars
      <3> PICK h : h = held[w]
        OBVIOUS
      <3>2. h \in Jobs /\ h # None /\ h.caller \in Callers /\ h.idx \in 1..MaxJobs
        BY <3>1, Elements, JobFields DEF IInv, HandInv
      <3>3. CASE h.call # call[h.caller]
        BY <3>1, <3>3 DEF Map!vars
      <3>4. CASE h.call = call[h.caller]
        <4>1. ran[h.caller][h.idx] = "no"
          BY <3>1, <3>2, <3>4 DEF IInv, RanInv
        <4>2. h.idx \in 1..size[h.caller]
          BY <3>2, <3>4, CallerTypes DEF IInv, HeldInv, IsSent, SentInv
        <4>3. Map!RunJob(h.caller, h.idx)
          BY <3>1, <3>2, <3>4, <4>1, <4>2 DEF Map!RunJob
        <4> QED
          BY <3>2, <4>3 DEF Map!Next
      <3> QED
        BY <3>3, <3>4
    <2>7. CASE UNCHANGED vars \/ Idle
      BY <2>7 DEF Idle, vars, callerVars, Map!vars
    <2> QED
      BY <2>1, <2>2, <2>3, <2>4, <2>5, <2>6, <2>7
         DEF Next, CallerStep, WorkerStep, Map!Next
  <1> QED
    BY <1>1, <1>2, SpecIInv, PTL DEF Spec, ImplementsParallelMap, Map!Spec

=============================================================================
