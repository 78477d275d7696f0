------------------------- MODULE WorkerDaemonProofs -------------------------
(***************************************************************************)
(* Proofs about WorkerDaemon, for any number of job types, jobs and slots     *)
(* and any assignment of slots and jobs to types.  An orderly shutdown cuts    *)
(* no handler off because a worker that is not subscribed holds no job, and    *)
(* the connection is only closed, or lost, when no worker is subscribed.      *)
(***************************************************************************)
EXTENDS WorkerDaemon, JobWorkerProofs

\* The connection outlives the subscriptions.
Ordered == /\ ~connected => phase \in {"leaving", "down"}
           /\ phase \in {"leaving", "down"} => \A w \in Worker : sub[w] \in {"none", "closed"}

DInv == IInv /\ DTypeOK /\ Ordered

LEMMA ServesWorker == \A s \in Slots : Serves[s] \in Worker
BY WiringOK DEF Worker

\* Without a connection there is not even a job left.
LEMMA DInvImplies == DInv => NothingCutOff
BY ServesWorker DEF DInv, DTypeOK, Ordered, NothingCutOff, IInv, TypeOK, SlotType

LEMMA InitDInv == DInit => DInv
<1> SUFFICES ASSUME DInit PROVE DInv
    OBVIOUS
<1>1. IInv
    BY InitIInv DEF DInit
<1>2. DTypeOK /\ Ordered
    BY ServesWorker DEF DInit, Init, FreeSlot, Unsubscribed, DTypeOK, Ordered
<1> QED BY <1>1, <1>2 DEF DInv

-----------------------------------------------------------------------------
(* The jobs                                                                 *)

\* Every step keeps the types of jobs and slots and the accounts of retries: what
\* JobWorker does not know is a job locked for nobody and a queue dropped.
LEMMA StepJobs == DInv /\ [DNext]_dvars => IInv'
<1> SUFFICES ASSUME DInv, [DNext]_dvars PROVE IInv'
    OBVIOUS
<1> USE DEF DInv
<1>1. CASE [Next]_vars
    BY <1>1, StepIInv
<1>2. ASSUME NEW j \in Jobs, TakeInVain(j) PROVE IInv'
    BY <1>2 DEF TakeInVain, IInv, TypeOK, IncidentIffExhausted, JobState
<1>3. ASSUME NEW w \in Worker, AwaitClose(w) PROVE IInv'
    <2>1. /\ job' = job
          /\ slot' = [s \in Slots |-> IF Serves[s] = w /\ slot[s].stage = "queued"
                                      THEN FreeSlot ELSE slot[s]]
        BY <1>3 DEF AwaitClose, Emptied
    <2>2. FreeSlot \in SlotType
        BY RetriesIsPositive DEF FreeSlot, SlotType
    <2>3. slot' \in [Slots -> SlotType]
        BY <2>1, <2>2 DEF IInv, TypeOK
    <2>4. \A s \in Slots : slot'[s] = slot[s] \/ slot'[s] = FreeSlot
        BY <2>1 DEF IInv, TypeOK
    <2> QED BY <2>1, <2>3, <2>4, NoJobIsNoJob DEF IInv, TypeOK, IncidentIffExhausted, FreeSlot
<1>4. CASE Work
    <2>1. ASSUME NEW j \in Jobs, NEW s \in Slots, Take(j, s) PROVE IInv'
        BY <2>1, <1>1 DEF Take, Next
    <2>2. ASSUME NEW j \in Jobs, LockExpire(j) \/ BackoffElapse(j) PROVE IInv'
        BY <2>2, <1>1 DEF Next
    <2>3. ASSUME NEW s \in Slots,
                 Start(s) \/ CtxExpire(s) \/ Send(s) \/ \E o \in Outcome : Finish(s, o)
          PROVE  IInv'
        BY <2>3, <1>1 DEF Send, Next
    <2> QED BY <1>2, <1>4, <2>1, <2>2, <2>3 DEF Work
<1>5. CASE Gone
    BY <1>1, <1>5 DEF Gone, Crash, Next
<1>6. CASE UNCHANGED vars
    BY <1>1, <1>6
<1> QED
    BY <1>3, <1>4, <1>5, <1>6
       DEF DNext, Shutdown, Signal, Disconnect, Exit, CloseWorker, Kill, Up, Ready, OpenWorker, dvars

-----------------------------------------------------------------------------
(* Main, its subscriptions and its slots                                    *)

\* A job comes into a slot only while the worker is open.
LEMMA WorkFits ==
    ASSUME DInv, Work, NEW s \in Slots, slot'[s].stage # "free"
    PROVE  sub[Serves[s]] \in {"open", "closing"}
<1> USE DEF DInv, DTypeOK, IInv, TypeOK
<1>1. CASE slot[s].stage # "free"
    BY <1>1
<1>2. CASE slot[s].stage = "free"
    <2>1. slot'[s] # slot[s]
        BY <1>2
    <2>2. ASSUME NEW j \in Jobs, NEW t \in Slots, Take(j, t) PROVE sub[Serves[s]] = "open"
        BY <2>1, <2>2 DEF Take, Activate
    <2>3. ASSUME NEW j \in Jobs, TakeInVain(j) \/ LockExpire(j) \/ BackoffElapse(j) PROVE FALSE
        BY <2>1, <2>3 DEF TakeInVain, LockExpire, BackoffElapse
    <2>4. ASSUME NEW t \in Slots, Start(t) \/ CtxExpire(t) \/ \E o \in Outcome : Finish(t, o)
          PROVE  FALSE
        BY <1>2, <2>1, <2>4 DEF Start, CtxExpire, Finish
    <2>5. ASSUME NEW t \in Slots, Send(t) PROVE FALSE
        <3>1. slot' = [slot EXCEPT ![t] = FreeSlot]
            BY <2>5 DEF Send, Deliver, SendExpired, SendLost, Release
        <3> QED BY <2>1, <3>1 DEF FreeSlot
    <2> QED BY <2>2, <2>3, <2>4, <2>5 DEF Work
<1> QED BY <1>1, <1>2

\* A worker that has been waited for holds no job: its handlers have returned and
\* its queue is dropped.
LEMMA ClosedIsEmpty ==
    ASSUME DInv, NEW w \in Worker, AwaitClose(w), NEW s \in Slots
    PROVE  /\ Serves[s] = w => slot'[s].stage = "free"
           /\ Serves[s] # w => slot'[s] = slot[s]
<1>1. slot' = [t \in Slots |-> IF Serves[t] = w /\ slot[t].stage = "queued"
                               THEN FreeSlot ELSE slot[t]]
    BY DEF AwaitClose, Emptied
<1>2. Serves[s] = w => slot[s].stage \in {"free", "queued"}
    BY DEF AwaitClose, Busy, DInv, IInv, TypeOK, SlotType
<1> QED BY <1>1, <1>2 DEF FreeSlot

LEMMA StepDaemon == DInv /\ [DNext]_dvars => DTypeOK' /\ Ordered'
<1> SUFFICES ASSUME DInv, [DNext]_dvars PROVE DTypeOK' /\ Ordered'
    OBVIOUS
<1> USE ServesWorker DEF DInv, DTypeOK, Ordered
<1>1. CASE Work /\ UNCHANGED <<phase, sub, connected>>
    BY <1>1, WorkFits
<1>2. ASSUME NEW w \in Worker, OpenWorker(w) \/ CloseWorker(w) PROVE DTypeOK' /\ Ordered'
    BY <1>2 DEF OpenWorker, CloseWorker, vars
<1>3. ASSUME NEW w \in Worker, AwaitClose(w) PROVE DTypeOK' /\ Ordered'
    <2>1. sub' = [sub EXCEPT ![w] = "closed"] /\ UNCHANGED <<phase, connected>>
        BY <1>3 DEF AwaitClose
    <2>2. \A s \in Slots : slot'[s].stage # "free" => Serves[s] # w /\ slot'[s] = slot[s]
        BY <1>3, ClosedIsEmpty
    <2> QED BY <2>1, <2>2
<1>4. CASE Disconnect
    BY <1>4 DEF Disconnect, vars
<1>5. CASE Exit \/ Kill
    <2>1. phase' = "down" /\ sub' = Unsubscribed /\ connected' = FALSE
        BY <1>5 DEF Exit, Kill, Gone
    <2>2. \A s \in Slots : slot'[s].stage = "free"
        BY <1>5 DEF Exit, Kill, Gone, FreeSlot
    <2>3. Unsubscribed \in [Worker -> {"none"}]
        BY DEF Unsubscribed
    <2> QED BY <2>1, <2>2, <2>3
<1>6. CASE Signal \/ Ready \/ Up
    BY <1>6 DEF Signal, Ready, Up, vars
<1>7. CASE UNCHANGED dvars
    BY <1>7 DEF dvars, vars
<1> QED BY <1>1, <1>2, <1>3, <1>4, <1>5, <1>6, <1>7 DEF DNext, Shutdown

LEMMA StepDInv == DInv /\ [DNext]_dvars => DInv'
BY StepJobs, StepDaemon DEF DInv

-----------------------------------------------------------------------------

\* Through any number of starts, shutdowns and kills, subscriptions and slots fit
\* together: no worker that is closed, or not yet opened, holds a job.
THEOREM DaemonTypes == DSpec => []DTypeOK
<1>1. DInv => DTypeOK
    BY DEF DInv
<1> QED BY <1>1, InitDInv, StepDInv, PTL DEF DSpec

\* Manager.Close and the deferred client.Close leave no handler behind that could
\* still want to report its result.
THEOREM GracefulClose == DSpec => []NothingCutOff
BY InitDInv, StepDInv, DInvImplies, PTL DEF DSpec

=============================================================================
