---------------------------- MODULE WorkerDaemon ----------------------------
(***************************************************************************)
(* The worker process of cmd/worker/main.go around JobWorker: it connects,    *)
(* opens one worker per job type one after the other, waits for a signal,     *)
(* closes the workers in the same order, waiting for each while the later     *)
(* ones still take jobs, and disconnects.  It can be killed at any point, for  *)
(* example when the grace period of a stop is over, and is started again.     *)
(***************************************************************************)
EXTENDS JobWorker

CONSTANTS NumWorkers,      \* number of job types
          Serves, Kind     \* the worker of each slot, and of each job

ASSUME WiringOK == /\ NumWorkers \in Nat \ {0}
                   /\ Serves \in [Slots -> 1..NumWorkers]
                   /\ Kind \in [Jobs -> 1..NumWorkers]

Worker == 1..NumWorkers

VARIABLES phase,       \* what main is doing
          sub,         \* Manager.workers: the subscription of each job type
          connected    \* the client, shared by all workers, is open

dvars == <<vars, phase, sub, connected>>

Unsubscribed == [w \in Worker |-> "none"]
Busy(w) == \E s \in Slots : Serves[s] = w /\ slot[s].stage \in {"running", "sending"}

DInit == Init /\ phase = "starting" /\ sub = Unsubscribed /\ connected = TRUE

-----------------------------------------------------------------------------
(* main and the Manager                                                     *)

\* startWorker, called by RegisterWorkers for one job type after the other.
OpenWorker(w) == /\ phase = "starting" /\ sub[w] = "none"
                 /\ \A v \in 1..(w - 1) : sub[v] = "open"
                 /\ sub' = [sub EXCEPT ![w] = "open"]
                 /\ UNCHANGED <<vars, phase, connected>>

\* Mutant of Ready: main waits as soon as one worker is open.
ReadyEarly == /\ phase = "starting" /\ \E w \in Worker : sub[w] = "open"
              /\ phase' = "running" /\ UNCHANGED <<vars, sub, connected>>

\* RegisterWorkers has returned; signal.Notify takes effect only now.
Ready == /\ phase = "starting" /\ \A w \in Worker : sub[w] = "open"
         /\ phase' = "running" /\ UNCHANGED <<vars, sub, connected>>

\* The first signal starts the shutdown; later ones are never read.
Signal == /\ phase = "running" /\ phase' = "closing"
          /\ UNCHANGED <<vars, sub, connected>>

\* Manager.Close, in the order of registration: sub.Worker.Close()
CloseWorker(w) == /\ phase = "closing" /\ sub[w] = "open"
                  /\ \A v \in 1..(w - 1) : sub[v] = "closed"
                  /\ sub' = [sub EXCEPT ![w] = "closing"]
                  /\ UNCHANGED <<vars, phase, connected>>

\* Mutant of Emptied: the queue outlives its worker.
EmptiedNot(w) == slot

\* Jobs in the queue of a closed worker are dropped, still locked in the broker.
Emptied(w) == [s \in Slots |-> IF Serves[s] = w /\ slot[s].stage = "queued" THEN FreeSlot ELSE slot[s]]

\* Mutants of AwaitClose: it is not called; it waits for the jobs of all workers.
AwaitCloseNot(w) == /\ sub[w] = "closing" /\ sub' = [sub EXCEPT ![w] = "closed"]
                    /\ slot' = Emptied(w) /\ UNCHANGED <<job, phase, connected>>
AwaitCloseAll(w) == /\ sub[w] = "closing" /\ \A s \in Slots : slot[s].stage = "free"
                    /\ sub' = [sub EXCEPT ![w] = "closed"]
                    /\ slot' = Emptied(w) /\ UNCHANGED <<job, phase, connected>>

\* sub.Worker.AwaitClose() returns when the handlers of this worker have.
AwaitClose(w) == /\ sub[w] = "closing" /\ ~Busy(w)
                 /\ sub' = [sub EXCEPT ![w] = "closed"]
                 /\ slot' = Emptied(w) /\ UNCHANGED <<job, phase, connected>>

\* The deferred client.Close() when main returns.
Disconnect == /\ phase = "closing" /\ \A w \in Worker : sub[w] = "closed"
              /\ phase' = "leaving" /\ connected' = FALSE /\ UNCHANGED <<vars, sub>>

\* The process is gone, and with it whatever still ran in it.
Gone == /\ phase' = "down" /\ sub' = Unsubscribed /\ connected' = FALSE
        /\ slot' = [s \in Slots |-> FreeSlot] /\ UNCHANGED job

Exit == phase = "leaving" /\ Gone

\* A signal before signal.Notify, SIGKILL after the grace period, a fatal error.
Kill == phase # "down" /\ Gone

\* restart: unless-stopped
Up == /\ phase = "down" /\ phase' = "starting" /\ connected' = TRUE
      /\ UNCHANGED <<vars, sub>>

-----------------------------------------------------------------------------
(* Jobs                                                                     *)

\* A worker is handed jobs of its type while it is subscribed.
Take(j, s) == /\ connected /\ Kind[j] = Serves[s] /\ sub[Serves[s]] = "open"
              /\ Activate(j, s)

\* The answer to a poll still in flight when its worker closes, or dies, is lost:
\* the broker has locked the job for nobody.
TakeInVain(j) == /\ sub[Kind[j]] # "open" /\ job[j].st = "activatable"
                 /\ job' = [job EXCEPT ![j].st = "activated"] /\ UNCHANGED slot

\* Without a connection every command is lost.
Send(s) == (connected /\ Deliver(s)) \/ SendExpired(s) \/ SendLost(s)

Work == \/ \E j \in Jobs, s \in Slots : Take(j, s)
        \/ \E j \in Jobs : TakeInVain(j) \/ LockExpire(j) \/ BackoffElapse(j)
        \/ \E s \in Slots : Start(s) \/ CtxExpire(s) \/ Send(s) \/ \E o \in Outcome : Finish(s, o)

Shutdown == Signal \/ Disconnect \/ Exit \/ \E w \in Worker : CloseWorker(w) \/ AwaitClose(w)

DNext == \/ Work /\ UNCHANGED <<phase, sub, connected>>
         \/ Shutdown \/ Kill \/ Up \/ Ready \/ \E w \in Worker : OpenWorker(w)

DSpec == DInit /\ [][DNext]_dvars

\* main goes on, and as in JobWorker jobs are handed out, handlers return and sends
\* end.  Nobody has to send a signal or to kill the process.
DFairness ==
    /\ WF_dvars(Up) /\ WF_dvars(Ready) /\ WF_dvars(Disconnect) /\ WF_dvars(Exit)
    /\ \A w \in Worker : /\ WF_dvars(OpenWorker(w)) /\ WF_dvars(CloseWorker(w)) /\ WF_dvars(AwaitClose(w))
                         /\ WF_dvars(\E j \in Jobs, s \in Slots : Kind[j] = w /\ Take(j, s) /\ UNCHANGED <<phase, sub, connected>>)
    /\ \A j \in Jobs : /\ WF_dvars(LockExpire(j) /\ UNCHANGED <<phase, sub, connected>>)
                       /\ WF_dvars(BackoffElapse(j) /\ UNCHANGED <<phase, sub, connected>>)
    /\ \A s \in Slots : /\ WF_dvars(Start(s) /\ UNCHANGED <<phase, sub, connected>>)
                        /\ WF_dvars((\E o \in Outcome : Finish(s, o)) /\ UNCHANGED <<phase, sub, connected>>)
                        /\ WF_dvars(Send(s) /\ UNCHANGED <<phase, sub, connected>>)

DFairSpec == DSpec /\ DFairness

-----------------------------------------------------------------------------
(* Properties                                                               *)

\* Main, its subscriptions and its slots fit together: only a shutdown has closing
\* or closed workers, and a worker that is not subscribed holds no job.
DTypeOK ==
    /\ phase \in {"starting", "running", "closing", "leaving", "down"}
    /\ sub \in [Worker -> {"none", "open", "closing", "closed"}]
    /\ connected \in BOOLEAN
    /\ \A s \in Slots : slot[s].stage # "free" => sub[Serves[s]] \in {"open", "closing"}

\* "gracefully closes all worker subscriptions" (handler.go): when the connection
\* is closed, no handler is left that could still want to report its result.
NothingCutOff == ~connected => \A s \in Slots : slot[s].stage \notin {"running", "sending"}

\* An orderly shutdown ends, although the workers that are closed last go on taking
\* jobs while the first ones are waited for.
StopsWhenAsked == (phase = "closing") ~> (phase = "down")

\* Whatever restarts and kills did to the jobs that were queued, running or on their
\* way: once the daemon stays up and reports get through, every job settles.
Interruption == Signal \/ Kill \/ \E s \in Slots : CtxExpire(s) \/ SendLost(s)
RecoversJobs == <>[][~Interruption]_dvars => \A j \in Jobs : <>Settled(j)
=============================================================================
