------------------------------ MODULE TaskFeed ------------------------------
(***************************************************************************)
(* TaskReview with the page the operator sees.  Searches of the page are       *)
(* answered from Tasklist's read model, which lags behind the broker, or by    *)
(* locking tasks; their answers arrive in any order and replace the page.  An  *)
(* operator can only decide what the page shows.                             *)
(***************************************************************************)
EXTENDS TaskReview

CONSTANT Queries          \* searches the page may have in flight at the same time

VARIABLES index,          \* the state in which the read model lists each task
          shown,          \* task cards with buttons
          query,          \* each search: what it asks for, then the cards of its answer
          again           \* a second search after a decision is still to come

feedVars == <<index, shown, query, again>>
fvars == <<vars, feedVars>>

\* The states the form offers.  The read model lists no task as CANCELED: nothing in
\* the repository cancels an instance.
TaskState == {"CREATED", "COMPLETED", "CANCELED"}

\* What the form of the page asks for: a state, and filters that let through the
\* tasks `wanted`; if they drop every task the state makes no difference.
Forms == {f \in [wanted : SUBSET Tasks, state : TaskState] : f.wanted = {} => f.state = "CREATED"}
AllOpen == [wanted |-> Tasks, state |-> "CREATED"]

NotAsked == [stage |-> "idle", form |-> AllOpen, cards |-> {}]

FInit == /\ Init
         /\ index = [t \in Tasks |-> "unknown"] /\ shown = {} /\ again = FALSE
         /\ query = [q \in Queries |-> NotAsked]

\* The read model takes over what has happened in the broker.
IndexSync == /\ index' = [t \in Tasks |-> IF Decided(t) THEN "COMPLETED" ELSE "CREATED"]
             /\ UNCHANGED <<vars, shown, query, again>>

\* executeTaskQuery empties the page and sends a search.
Ask(q, form) == /\ query[q].stage = "idle"
                /\ query' = [query EXCEPT ![q].stage = "asked", ![q].form = form]
                /\ shown' = {}

\* The answer lists those of the tasks that the filters let through.
Found(q, tasks, state) ==
    /\ query[q].stage = "asked"
    /\ query' = [query EXCEPT ![q] = [stage |-> "found", form |-> AllOpen,
                                     cards |-> (tasks \cap @.form.wanted) \X {state}]]
    /\ UNCHANGED <<index, shown, again>>

\* Cards of tasks that are not completed have buttons.
Buttons(cards) == {t \in Tasks : \E s \in TaskState \ {"COMPLETED"} : <<t, s>> \in cards}

\* The operator searches; the timer of a decided task searches once more.
Search(q, form) == Ask(q, form) /\ UNCHANGED <<vars, index, again>>
SearchAgain(q, form) == again /\ Ask(q, form) /\ again' = FALSE /\ UNCHANGED <<vars, index>>

\* Tasklist answers a search, after a new login if the session has expired.
SearchTasks(q) == /\ LET state == query[q].form.state IN Found(q, {t \in Tasks : index[t] = state}, state)
                  /\ session' = TRUE /\ UNCHANGED <<task, req, cli>>

\* It does not, and the server finds the tasks by locking them, those that the
\* filters drop included; the state asked for does not matter.
SearchJobs(q) == Found(q, Open, "CREATED") /\ SearchFallback

\* Neither answers.
SearchFails(q) == Found(q, {}, "CREATED") /\ UNCHANGED vars

\* Mutants of Arrive: the answer stays behind and would be shown again; completed
\* tasks have buttons as well.
ArriveKeeps(q) == /\ query[q].stage = "found"
                  /\ shown' = Buttons(query[q].cards)
                  /\ query' = [query EXCEPT ![q].stage = "idle"]
                  /\ UNCHANGED <<vars, index, again>>
ArriveWithButtons(q) == /\ query[q].stage = "found"
                        /\ shown' = {c[1] : c \in query[q].cards}
                        /\ query' = [query EXCEPT ![q] = NotAsked]
                        /\ UNCHANGED <<vars, index, again>>

\* An answer reaches the page, whatever has been asked or shown since.
Arrive(q) == /\ query[q].stage = "found"
             /\ shown' = Buttons(query[q].cards)
             /\ query' = [query EXCEPT ![q] = NotAsked]
             /\ UNCHANGED <<vars, index, again>>

\* submitDecision: the buttons of the card disappear.
Decision(r, t, approved) == /\ t \in shown /\ Submit(r, t, approved)
                            /\ shown' = shown \ {t} /\ UNCHANGED <<index, query, again>>

\* Its answer starts a search, and a success another one a second later.
DecisionAnswered(r, q, form) == /\ Answered(r) /\ Ask(q, form)
                                /\ again' = (again \/ req[r].stage = "success")
                                /\ UNCHANGED index

\* What goes on apart from this page, another reader's searches included.
Elsewhere == /\ \/ \E t \in Tasks : LockExpire(t) \/ CliDecide(t)
                \/ Authenticate \/ SessionExpire \/ SearchFallback \/ CliList
                \/ \E r \in Requests : CtxExpire(r) \/ Serve(r) \/ TakesLate(r)
                \/ \E m \in SUBSET Tasks, a \in BOOLEAN : CliFetch(m, a)
             /\ UNCHANGED feedVars

Answers(q) == SearchTasks(q) \/ SearchJobs(q) \/ SearchFails(q)

FNext == \/ Elsewhere \/ IndexSync
         \/ \E q \in Queries : Answers(q) \/ Arrive(q)
         \/ \E q \in Queries, f \in Forms :
                Search(q, f) \/ SearchAgain(q, f) \/ \E r \in Requests : DecisionAnswered(r, q, f)
         \/ \E r \in Requests, t \in Tasks, a \in BOOLEAN : Decision(r, t, a)

FSpec == FInit /\ [][FNext]_fvars

\* Locks expire, the read model catches up, every search and request is answered;
\* the operator searches for all of them again and again, and decides a task that keeps turning up.
FFairness ==
    /\ \A t \in Tasks : /\ WF_fvars(LockExpire(t) /\ UNCHANGED feedVars)
                        /\ SF_fvars(\E r \in Requests, a \in BOOLEAN : Decision(r, t, a))
    /\ WF_fvars(IndexSync)
    /\ WF_fvars(\E q \in Queries : Search(q, AllOpen))
    /\ \A q \in Queries : WF_fvars(Answers(q)) /\ WF_fvars(Arrive(q))
    /\ \A r \in Requests : /\ WF_fvars(Serve(r) /\ UNCHANGED feedVars)
                           /\ SF_fvars(\E q \in Queries, f \in Forms : DecisionAnswered(r, q, f))

FFairSpec == FSpec /\ FFairness

-----------------------------------------------------------------------------
(* Properties                                                               *)

\* The page and the searches are about tasks there are, and a search whose answer
\* has been shown holds none.
FTypeOK == /\ index \in [Tasks -> TaskState \cup {"unknown"}] /\ shown \subseteq Tasks /\ again \in BOOLEAN
           /\ query \in [Queries -> [stage : {"idle", "asked", "found"}, form : Forms,
                                    cards : SUBSET (Tasks \X TaskState)]]
           /\ \A q \in Queries : query[q].stage # "found" => query[q].cards = {}

\* Every task is decided in the end although it has to appear on the page first:
\* a search may lock it and find it and its answer be overwritten by an older,
\* empty one; it may be locked by another search of the same page.  It takes that
\* the broker can be reached, requests are not cut off, and from some point on
\* nobody else locks the tasks, and the page asks for all open ones.
Hindered == \/ SearchFallback /\ UNCHANGED query
            \/ CliList \/ \E m \in SUBSET Tasks, a \in BOOLEAN : CliFetch(m, a)
            \/ \E q \in Queries : SearchFails(q) \/ \E f \in Forms : f # AllOpen /\ Ask(q, f)
            \/ \E r \in Requests : CtxExpire(r) \/ FallbackFailed(r) \/ FallbackUnanswered(r)
ShownTasksAreDecided == <>[][~Hindered]_fvars => \A t \in Tasks : <>Decided(t)

\* A stale page does not stay: once a task is decided, whoever decided it, there is
\* a time from which no answer shows it any more.
PageCatchesUp == \A t \in Tasks : <>[](Decided(t) => t \notin shown)
=============================================================================
