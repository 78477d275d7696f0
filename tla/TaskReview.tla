----------------------------- MODULE TaskReview -----------------------------
(***************************************************************************)
(* How people decide user tasks: requests of the web UI, which the server     *)
(* (cmd/server) sends to Tasklist and, if that fails, to the broker itself,   *)
(* and the reviewer command of cmd/starter.  Several requests and the command *)
(* run at the same time and may concern the same task.  The broker and        *)
(* Tasklist are external: a decision is accepted while the task is not        *)
(* decided, locked or not; an answer may be lost and an effect come late.     *)
(***************************************************************************)
CONSTANTS Tasks, Requests, NoTask

ASSUME NoTaskIsNoTask == NoTask \notin Tasks

VARIABLES task,      \* broker: each task and, once decided, the decision
          session,   \* the server's cookie is one that Tasklist accepts
          req,       \* what each web request is doing
          cli        \* the reviewer command: tasks it has fetched, its decision

vars == <<task, session, req, cli>>

Idle == [stage |-> "idle", task |-> NoTask, approved |-> FALSE, live |-> FALSE,
         out |-> FALSE, applied |-> FALSE]

Init == /\ task = [t \in Tasks |-> [st |-> "open", approved |-> FALSE]]
        /\ session = FALSE
        /\ req = [r \in Requests |-> Idle]
        /\ cli = [todo |-> {}, approved |-> FALSE]

-----------------------------------------------------------------------------
(* Broker                                                                   *)

Decided(t) == task[t].st = "decided"

\* CompleteJob with the variables of a decision.
Decide(t, approved) == /\ ~Decided(t)
                       /\ task' = [task EXCEPT ![t] = [st |-> "decided", approved |-> approved]]

\* ActivateJobs hands out the open tasks and locks them.
Open == {t \in Tasks : task[t].st = "open"}
LockOpen == task' = [t \in Tasks |-> IF t \in Open THEN [task[t] EXCEPT !.st = "locked"] ELSE task[t]]

LockExpire(t) == /\ task[t].st = "locked"
                 /\ task' = [task EXCEPT ![t].st = "open"]
                 /\ UNCHANGED <<session, req, cli>>

-----------------------------------------------------------------------------
(* Web server                                                               *)

\* GET /api/health logs in; so does a search that is answered 401 or 403.
Authenticate == session' = TRUE /\ UNCHANGED <<task, req, cli>>

\* No other call renews the session when it has expired.
SessionExpire == session /\ session' = FALSE /\ UNCHANGED <<task, req, cli>>

\* A search that Tasklist does not answer reads the tasks by activating them;
\* the tasks the query filters out are locked like the others.
SearchFallback == LockOpen /\ UNCHANGED <<session, req, cli>>

\* POST /api/tasks/{id}/complete, for any task the UI has ever shown.
Submit(r, t, approved) ==
    /\ req[r].stage = "idle"
    /\ req' = [req EXCEPT ![r] = [stage |-> "tasklist", task |-> t, approved |-> approved,
                                  live |-> TRUE, out |-> FALSE, applied |-> FALSE]]
    /\ UNCHANGED <<task, session, cli>>

\* The context of the request ends; assigning the task may have used it up.
CtxExpire(r) == /\ req[r].stage \in {"tasklist", "fallback"} /\ req[r].live
                /\ req' = [req EXCEPT ![r].live = FALSE]
                /\ UNCHANGED <<task, session, cli>>

\* The decision of r takes effect.
Takes(r) == Decide(req[r].task, req[r].approved) /\ UNCHANGED <<session, cli>>

\* CompleteTask succeeds, ...
CompleteDone(r) == /\ req[r].stage = "tasklist" /\ session /\ req[r].live /\ Takes(r)
                   /\ req' = [req EXCEPT ![r].stage = "success", ![r].applied = TRUE]

\* ... or fails without an answer, and may take effect all the same, ...
CompleteUnanswered(r) == /\ req[r].stage = "tasklist" /\ session /\ req[r].live
                         /\ req' = [req EXCEPT ![r].stage = "fallback", ![r].out = TRUE]
                         /\ UNCHANGED <<task, session, cli>>

Goes(r, stage) == req' = [req EXCEPT ![r].stage = stage] /\ UNCHANGED <<task, session, cli>>

\* Mutant of CompleteRefused: the broker is not asked when Tasklist refuses.
CompleteGivesUp(r) == req[r].stage = "tasklist" /\ Goes(r, "failure")

\* ... or is refused: no session, a task that cannot be assigned, no connection.
CompleteRefused(r) == req[r].stage = "tasklist" /\ Goes(r, "fallback")

\* A call nobody waits for any more takes effect, if the task is still open.
TakesLate(r) == /\ req[r].out /\ ~req[r].applied /\ Takes(r)
                /\ req' = [req EXCEPT ![r].out = FALSE, ![r].applied = TRUE]

\* CompleteJob sent to the broker directly succeeds, is not answered, ...
FallbackDone(r) == /\ req[r].stage = "fallback" /\ req[r].live /\ Takes(r)
                   /\ req' = [req EXCEPT ![r].stage = "success", ![r].applied = TRUE]
FallbackUnanswered(r) == /\ req[r].stage = "fallback" /\ req[r].live
                         /\ req' = [req EXCEPT ![r].stage = "failure", ![r].out = TRUE]
                         /\ UNCHANGED <<task, session, cli>>

\* Mutant of FallbackRejected: a task that is already decided counts as completed.
RejectedIsDone(r) == req[r].stage = "fallback" /\ Decided(req[r].task) /\ Goes(r, "success")

\* ... is rejected because there is no such job any more, ...
FallbackRejected(r) == req[r].stage = "fallback" /\ Decided(req[r].task) /\ Goes(r, "failure")

\* ... or is never sent: the broker is not reached, or the context has ended.
FallbackFailed(r) == req[r].stage = "fallback" /\ Goes(r, "failure")

\* Mutant of Answered: the next request starts with the task of the last one.
AnsweredKeepsTask(r) == /\ req[r].stage \in {"success", "failure"}
                        /\ req' = [req EXCEPT ![r].stage = "idle"] /\ UNCHANGED <<task, session, cli>>

\* The operator has read the answer.
Answered(r) == /\ req[r].stage \in {"success", "failure"}
               /\ req' = [req EXCEPT ![r] = Idle] /\ UNCHANGED <<task, session, cli>>

-----------------------------------------------------------------------------
(* Starter command                                                          *)

\* -list-tasks activates the tasks only to read them.
CliList == LockOpen /\ UNCHANGED <<session, req, cli>>

\* -approve or -reject fetches the open tasks and keeps those that match -user.
CliFetch(matching, approved) ==
    /\ cli.todo = {} /\ matching \subseteq Open
    /\ LockOpen
    /\ cli' = [todo |-> matching, approved |-> approved]
    /\ UNCHANGED <<session, req>>

\* One task after the other is decided; an error is logged and the next one tried.
CliDecide(t) == /\ t \in cli.todo
                /\ Decide(t, cli.approved) \/ UNCHANGED task
                /\ cli' = [cli EXCEPT !.todo = @ \ {t}]
                /\ UNCHANGED <<session, req>>

Serve(r) == \/ CompleteDone(r) \/ CompleteUnanswered(r) \/ CompleteRefused(r)
            \/ FallbackDone(r) \/ FallbackUnanswered(r) \/ FallbackRejected(r) \/ FallbackFailed(r)

Next == \/ \E t \in Tasks : LockExpire(t) \/ CliDecide(t)
        \/ Authenticate \/ SessionExpire \/ SearchFallback \/ CliList
        \/ \E r \in Requests : \/ \E t \in Tasks, a \in BOOLEAN : Submit(r, t, a)
                               \/ CtxExpire(r) \/ Serve(r) \/ TakesLate(r) \/ Answered(r)
        \/ \E m \in SUBSET Tasks, a \in BOOLEAN : CliFetch(m, a)

Spec == Init /\ [][Next]_vars

-----------------------------------------------------------------------------
(* Properties                                                               *)

\* Types; a request concerns a task exactly while it is being handled, and the
\* command holds no task that has not been handed out.
TypeOK == /\ task \in [Tasks -> [st : {"open", "locked", "decided"}, approved : BOOLEAN]]
          /\ session \in BOOLEAN
          /\ req \in [Requests -> [stage : {"idle", "tasklist", "fallback", "success", "failure"},
                                   task : Tasks \cup {NoTask}, approved : BOOLEAN,
                                   live : BOOLEAN, out : BOOLEAN, applied : BOOLEAN]]
          /\ \A r \in Requests : req[r].stage = "idle" <=> req[r].task = NoTask
          /\ cli \in [todo : SUBSET Tasks, approved : BOOLEAN]

\* An operator who is told "success" made the decision that the process took:
\* of two operators who decide differently at the same time, through Tasklist,
\* the broker or the command, at most one is told so.
SuccessIsTrue == \A r \in Requests :
    req[r].stage = "success" => /\ req[r].applied /\ Decided(req[r].task)
                                /\ task[req[r].task].approved = req[r].approved

\* "Fallback: complete via Zeebe Job Command if Tasklist complete did not execute"
\* (cmd/server/main.go): the broker is never asked for a decision that Tasklist has
\* already taken, so no operator is told "Failed to complete task via Tasklist and
\* Zeebe engine" because the broker rejects that very decision.
RejectedMeansUntaken == [][\A r \in Requests : FallbackRejected(r) => ~req[r].applied]_vars
=============================================================================
