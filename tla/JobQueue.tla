------------------------------ MODULE JobQueue ------------------------------
(***************************************************************************)
(* QueuesService over BullMQ.  A job lives in Redis: it waits (delay and   *)
(* backoff are only time), is active while a worker runs its handler, and  *)
(* is gone once it completed.  A handler that throws uses up one attempt.  *)
(* After the last one BullMQ moves the job to its failed jobs, which no    *)
(* code reads, and then tells the 'failed' listener, which copies it to    *)
(* the dead-letter queue: an add of its own that nobody awaits.  Until     *)
(* Redis has answered it the copy is only in the memory of the process     *)
(* (letters).  If the process dies the copy is lost; so it is if the add   *)
(* is rejected, because nothing handles the rejection, and an unhandled    *)
(* rejection ends the process.                                             *)
(*                                                                         *)
(* A job that was active when the process died is found stalled and waits  *)
(* again with its attempts intact (BullMQ does so once per job: modules    *)
(* bound crashes by one).  Adding to a queue waits while Redis is away.    *)
(*                                                                         *)
(* Modules that have workers extend this one.  Ids of jobs that are gone   *)
(* are used again, so Jobs bounds the jobs that exist at the same time.    *)
(***************************************************************************)
EXTENDS Naturals

CONSTANTS Jobs,     \* ids of the jobs that exist at the same time
          NoJob,    \* the job of a process that runs none
          NoData    \* the data of an id that is free

ASSUME QueueAssumption == NoJob \notin Jobs

VARIABLES jobs,         \* jobs[j]: state, queue, data and attempts left
          letters,      \* dead letters that the process is adding: {[queue, data]}
          deadLetters   \* the jobs of the dead-letter queue, which has no worker

queueVars == <<jobs, letters, deadLetters>>

-----------------------------------------------------------------------------
QueueNames == {"payment", "retry", "delivery", "notification"}

FreeJob == [state |-> "free", queue |-> "none", data |-> NoData, left |-> 0]

JobRecords(Data) ==
    [state : {"free", "waiting", "active"},
     queue : QueueNames \cup {"none"},
     data : Data \cup {NoData},
     left : Nat]

DeadLetterRecords(Data) == [queue : QueueNames \cup {"none"}, data : Data \cup {NoData}]

QueueTypeOK(Data) ==
    /\ jobs \in [Jobs -> JobRecords(Data)]
    /\ letters \subseteq DeadLetterRecords(Data)
    /\ deadLetters \subseteq DeadLetterRecords(Data)

QueueInit ==
    /\ jobs = [j \in Jobs |-> FreeJob]
    /\ letters = {} /\ deadLetters = {}

\* The jobs of a queue that a worker has not taken.
Waiting(q) == {j \in Jobs : jobs[j].state = "waiting" /\ jobs[j].queue = q}

-----------------------------------------------------------------------------
\* QueuesService.add(queue, name, data, { attempts }).
AddJob(j, q, data, attempts) ==
    /\ jobs[j].state = "free"
    /\ jobs' = [jobs EXCEPT ![j] = [state |-> "waiting", queue |-> q,
                                    data |-> data, left |-> attempts]]
    /\ UNCHANGED <<letters, deadLetters>>

\* Mutant: the job is not locked and a second worker takes it too.
TakeJobUnlocked(j, q) == j \in Waiting(q) /\ UNCHANGED queueVars

\* A worker of queue q takes the job and calls the processor.
TakeJob(j, q) ==
    /\ j \in Waiting(q)
    /\ jobs' = [jobs EXCEPT ![j].state = "active"]
    /\ UNCHANGED <<letters, deadLetters>>

\* The processor returned.
CompleteJob(j) ==
    /\ jobs' = [jobs EXCEPT ![j] = FreeJob]
    /\ UNCHANGED <<letters, deadLetters>>

\* Mutant: the attempts are not used up.
RetryJobForEver(j) ==
    /\ jobs' = [jobs EXCEPT ![j].state = "waiting"]
    /\ UNCHANGED <<letters, deadLetters>>

\* The processor threw with attempts left: the job waits for its backoff.
RetryJob(j) ==
    /\ jobs[j].left > 1
    /\ jobs' = [jobs EXCEPT ![j].state = "waiting", ![j].left = @ - 1]
    /\ UNCHANGED <<letters, deadLetters>>

\* Mutant: nobody listens for 'failed'.
DeadLetterJobUnheard(j) ==
    /\ jobs[j].left <= 1
    /\ jobs' = [jobs EXCEPT ![j] = FreeJob]
    /\ UNCHANGED <<letters, deadLetters>>

\* The processor threw in the last attempt: the job has failed for good, and
\* the listener begins to add its dead letter.
DeadLetterJob(j) ==
    /\ jobs[j].left <= 1
    /\ jobs' = [jobs EXCEPT ![j] = FreeJob]
    /\ letters' = letters \cup {[queue |-> jobs[j].queue, data |-> jobs[j].data]}
    /\ UNCHANGED deadLetters

\* Redis has taken the dead letter.
PostLetter(letter) ==
    /\ letter \in letters
    /\ letters' = letters \ {letter}
    /\ deadLetters' = deadLetters \cup {letter}
    /\ UNCHANGED jobs

FailJob(j) == RetryJob(j) \/ DeadLetterJob(j)

\* The process died: what it was running is found stalled and waits again, and
\* the dead letters it had not got to Redis are lost.
RedeliverActiveJobs ==
    /\ jobs' = [j \in Jobs |-> IF jobs[j].state = "active"
                               THEN [jobs[j] EXCEPT !.state = "waiting"]
                               ELSE jobs[j]]
    /\ letters' = {}
    /\ UNCHANGED deadLetters
=============================================================================
