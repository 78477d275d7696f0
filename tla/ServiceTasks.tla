---------------------------- MODULE ServiceTasks ----------------------------
(***************************************************************************)
(* How a process instance (in the broker, external) and the workers advance  *)
(* it together, one service task at a time.  A handler works on the           *)
(* variables as they were when its job was handed out, and its whole result   *)
(* is merged into the variables as they are when the job completes.  The      *)
(* delivery of results is the subject of JobWorker; what is left of it here   *)
(* is that an execution may count for nothing and be repeated (Redo, Retry),  *)
(* that it may lose its lock and compete with another one, or come long after *)
(* the process moved on (Overrun), and that a job may run out of retries.     *)
(***************************************************************************)
EXTENDS TaskHandlers

CONSTANT MaxCharges     \* bound on the captured charges that are told apart

ASSUME MaxChargesIsPositive == MaxCharges \in Nat \ {0}

VARIABLES var,       \* variables of the instance
          active,    \* tasks that hold a token
          runs,      \* executions of handlers, each with the variables it was given
          stuck,     \* tasks with an incident: <<task, cause>>
          ended,     \* end events reached
          ledger     \* the payment gateway: charges captured, and the last amount

taskVars == <<var, active, runs, stuck, ended, ledger>>

Begin(vars, task) == /\ var = vars /\ active = {task} /\ runs = {} /\ stuck = {}
                     /\ ended = {} /\ ledger = [charges |-> 0, amount |-> 0, declined |-> FALSE]

IsStuck(t) == \E s \in stuck : s[1] = t

\* An execution that lost the lock of its job keeps running: the job may be handed
\* out again.  Bound: at most one such execution of a task at a time.
Held(t) == \E r \in runs : r.task = t /\ r.locked
Late(t) == \E r \in runs : r.task = t /\ ~r.locked

Drop(r) == runs' = runs \ {r}

\* The job of execution r is settled: whoever else works on it has lost the lock.
Settle(r) == runs' = {IF q.task = r.task THEN [q EXCEPT !.locked = FALSE] ELSE q : q \in runs \ {r}}

\* Mutant of Activate: a job with an incident is handed out again.
ActivateAnyway(t) == /\ t \in active /\ ~Held(t)
                     /\ runs' = runs \cup {[task |-> t, given |-> var, locked |-> TRUE]}
                     /\ UNCHANGED <<var, active, stuck, ended, ledger>>

\* The job of task t is handed to a worker.
Activate(t) == /\ t \in active /\ ~Held(t) /\ ~IsStuck(t)
               /\ runs' = runs \cup {[task |-> t, given |-> var, locked |-> TRUE]}
               /\ UNCHANGED <<var, active, stuck, ended, ledger>>

\* The lock of the job expires while its handler runs.
Overrun(r) == /\ r.locked /\ ~Late(r.task)
              /\ runs' = (runs \ {r}) \cup {[r EXCEPT !.locked = FALSE]}
              /\ UNCHANGED <<var, active, stuck, ended, ledger>>

\* What running a handler does outside the process: the payment gateway is asked.
SideEffect(type, v) ==
    LET answer == Charge(v.order.customer, ChargeAmount(v)) IN
    ledger' = IF type # "process-payment" THEN ledger
              ELSE CASE answer = "captured" ->
                           [ledger EXCEPT !.charges = IF @ < MaxCharges THEN @ + 1 ELSE @,
                                          !.amount = ChargeAmount(v)]
                     [] answer = "declined" -> [ledger EXCEPT !.declined = TRUE]
                     [] OTHER -> ledger

\* The attempt fails before the handler has done anything (circuit open,
\* variables unreadable, worker gone), or the lock expires in the queue.
Retry(r) == Drop(r) /\ UNCHANGED <<var, active, stuck, ended, ledger>>

\* The handler runs, but its result counts for nothing: it does not reach the
\* broker, or the job is settled, perhaps long since, by another execution.
Redo(r, type) == /\ SideEffect(type, r.given) /\ Drop(r)
                 /\ UNCHANGED <<var, active, stuck, ended>>

\* The broker accepts a command for the job of task t, whoever sends it.
Open(t) == t \in active /\ ~IsStuck(t)

\* The retries of the job are used up.
GiveUp(r) == /\ Open(r.task) /\ Settle(r) /\ stuck' = stuck \cup {<<r.task, "retries">>}
             /\ UNCHANGED <<var, active, ended, ledger>>

\* The handler succeeds and its job completes; the caller moves the token.
Succeed(r, type) ==
    LET result == Handle(type, r.given) IN
    /\ Open(r.task) /\ result.end = "ok"
    /\ var' = Merge(var, result.set)
    /\ SideEffect(type, r.given) /\ Settle(r) /\ UNCHANGED stuck

\* The handler raises a BPMN error; the caller moves the token if it is caught.
Throw(r, type, code) ==
    LET result == Handle(type, r.given) IN
    /\ Open(r.task) /\ result.end = "business" /\ result.code = code
    /\ SideEffect(type, r.given) /\ Settle(r) /\ UNCHANGED var

\* No boundary event of the task catches the error: an incident.
Uncaught(r, type, caught) ==
    LET result == Handle(type, r.given) IN
    /\ Open(r.task) /\ result.end = "business" /\ result.code \notin caught
    /\ SideEffect(type, r.given) /\ Settle(r)
    /\ stuck' = stuck \cup {<<r.task, "unhandled error">>}
    /\ UNCHANGED <<var, active, ended>>

\* Tokens leave a task for other tasks or for end events.
Move(from, tasks, ends) == /\ active' = (active \ {from}) \cup tasks
                           /\ ended' = ended \cup ends

\* The reviewer's decision, as the server and the starter submit it.
Decision(task, approved) ==
    /\ task \in active
    /\ var' = [var EXCEPT !.orderApproved = approved, !.managerApproved = approved]
    /\ UNCHANGED <<runs, stuck, ledger>>

\* What becomes of execution r, apart from the outcomes that move a token.
Attempt(r, type, caught) == \/ Overrun(r) \/ Retry(r) \/ Redo(r, type) \/ GiveUp(r)
                            \/ Uncaught(r, type, caught)

\* Every execution is of a service task and was given variables of this instance;
\* a lock is held by one execution of an open job, an incident excludes it.
RunsOK(service) ==
    /\ \A r \in runs : r.task \in service /\ DOMAIN r.given = DOMAIN var
    /\ \A r \in runs : r.locked => Open(r.task)
    /\ \A r, q \in runs : r.task = q.task /\ r.locked = q.locked => r = q
=============================================================================
