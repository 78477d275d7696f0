--------------------------- MODULE TaskFeedProofs ---------------------------
(***************************************************************************)
(* Proofs about TaskReview and about TaskFeed, for any number of tasks, of    *)
(* web requests and of searches.  Types and the truth of a reported success    *)
(* are inductive together: a success is only reported by the step that decides *)
(* the task, and no step changes a task that is decided.  The page does not    *)
(* disturb this: TaskFeed implements TaskReview, so that what is proved of     *)
(* TaskReview holds with the page, and searches and page stay well formed.     *)
(***************************************************************************)
EXTENDS TaskFeed, TLAPS

-----------------------------------------------------------------------------
(* The tasks and the requests that decide them                              *)

IInv == TypeOK /\ SuccessIsTrue

\* Every step leaves decided tasks alone.
LEMMA DecidedStays ==
    ASSUME TypeOK, [Next]_vars, NEW t \in Tasks, Decided(t)
    PROVE  task'[t] = task[t]
<1> USE DEF TypeOK, Decided, Decide
<1>1. CASE UNCHANGED vars
    BY <1>1 DEF vars
<1>2. ASSUME NEW u \in Tasks, LockExpire(u) PROVE task'[t] = task[t]
    BY <1>2 DEF LockExpire
<1>3. ASSUME NEW u \in Tasks, CliDecide(u) PROVE task'[t] = task[t]
    BY <1>3 DEF CliDecide
<1>4. ASSUME LockOpen PROVE task'[t] = task[t]
    BY <1>4 DEF LockOpen, Open
<1>5. ASSUME NEW r \in Requests, NEW u \in Tasks, NEW a \in BOOLEAN, Submit(r, u, a)
      PROVE  task'[t] = task[t]
    BY <1>5 DEF Submit
<1>6. ASSUME NEW r \in Requests, Serve(r) \/ TakesLate(r) PROVE task'[t] = task[t]
    <2>1. UNCHANGED task \/ Decide(req[r].task, req[r].approved)
        BY <1>6 DEF Serve, CompleteDone, CompleteUnanswered, CompleteRefused, FallbackDone,
                    FallbackUnanswered, FallbackRejected, FallbackFailed, TakesLate, Takes, Goes
    <2> QED BY <2>1
<1>7. ASSUME NEW r \in Requests, CtxExpire(r) \/ Answered(r) PROVE task'[t] = task[t]
    BY <1>7 DEF CtxExpire, Answered
<1>8. ASSUME Authenticate \/ SessionExpire PROVE task'[t] = task[t]
    BY <1>8 DEF Authenticate, SessionExpire
<1> QED
    BY <1>1, <1>2, <1>3, <1>4, <1>5, <1>6, <1>7, <1>8
       DEF Next, SearchFallback, CliList, CliFetch

\* The types of what the broker and the web requests hold.
TaskType == [st : {"open", "locked", "decided"}, approved : BOOLEAN]

ReqType == [stage : {"idle", "tasklist", "fallback", "success", "failure"},
            task : Tasks \cup {NoTask}, approved : BOOLEAN,
            live : BOOLEAN, out : BOOLEAN, applied : BOOLEAN]

\* Initially no task is decided and no request is handled.
LEMMA InitIInv == Init => IInv
<1> SUFFICES ASSUME Init PROVE TypeOK /\ SuccessIsTrue
    BY DEF IInv
<1>1. task \in [Tasks -> TaskType]
    BY DEF Init, TaskType
<1>2. \A r \in Requests : req[r] = Idle
    BY DEF Init
<1>3. Idle \in ReqType /\ Idle.stage = "idle" /\ Idle.task = NoTask
    BY DEF Idle, ReqType
<1>4. req \in [Requests -> ReqType]
    BY <1>2, <1>3 DEF Init
<1>5. \A r \in Requests : req[r].stage = "idle" /\ req[r].task = NoTask
    BY <1>2, <1>3
<1>6. cli \in [todo : SUBSET Tasks, approved : BOOLEAN] /\ session \in BOOLEAN
    BY DEF Init
<1> QED
    BY <1>1, <1>4, <1>5, <1>6 DEF TypeOK, TaskType, ReqType, SuccessIsTrue

\* The broker's view of the tasks keeps its type.
LEMMA StepTask == ASSUME TypeOK, [Next]_vars PROVE task' \in [Tasks -> TaskType]
<1>0. task \in [Tasks -> TaskType]
    BY DEF TypeOK, TaskType
<1>1. ASSUME NEW t \in Tasks \cup {NoTask}, NEW a \in BOOLEAN, Decide(t, a)
      PROVE  task' \in [Tasks -> TaskType]
    <2>1. [st |-> "decided", approved |-> a] \in TaskType
        BY DEF TaskType
    <2> QED BY <1>0, <1>1, <2>1 DEF Decide
<1>2. ASSUME NEW t \in Tasks, LockExpire(t) PROVE task' \in [Tasks -> TaskType]
    BY <1>0, <1>2 DEF LockExpire, TaskType
<1>3. ASSUME LockOpen PROVE task' \in [Tasks -> TaskType]
    BY <1>0, <1>3 DEF LockOpen, TaskType
<1>4. ASSUME NEW r \in Requests, Takes(r) PROVE task' \in [Tasks -> TaskType]
    <2>1. req[r].task \in Tasks \cup {NoTask} /\ req[r].approved \in BOOLEAN
        BY DEF TypeOK
    <2> QED BY <1>1, <1>4, <2>1 DEF Takes
<1>5. ASSUME NEW t \in Tasks, CliDecide(t) PROVE task' \in [Tasks -> TaskType]
    <2>1. cli.approved \in BOOLEAN
        BY DEF TypeOK
    <2> QED BY <1>0, <1>1, <1>5, <2>1 DEF CliDecide
<1>6. ASSUME NEW r \in Requests, Serve(r) \/ TakesLate(r) PROVE task' \in [Tasks -> TaskType]
    <2>1. UNCHANGED task \/ Takes(r)
        BY <1>6 DEF Serve, CompleteDone, CompleteUnanswered, CompleteRefused, FallbackDone,
                    FallbackUnanswered, FallbackRejected, FallbackFailed, TakesLate, Goes
    <2> QED BY <1>0, <1>4, <2>1
<1>7. ASSUME UNCHANGED task PROVE task' \in [Tasks -> TaskType]
    BY <1>0, <1>7
<1> QED
    BY <1>2, <1>3, <1>5, <1>6, <1>7
       DEF Next, vars, SearchFallback, CliList, CliFetch, Authenticate, SessionExpire,
           Submit, CtxExpire, Answered

\* What a step does to one request.
Moves(r) ==
    \/ req' = req
    \/ req' = [req EXCEPT ![r].live = FALSE]
    \/ req' = [req EXCEPT ![r] = Idle]
    \/ req[r].stage \in {"tasklist", "fallback"} /\ \E s \in {"fallback", "failure"} :
          \/ req' = [req EXCEPT ![r].stage = s]
          \/ req' = [req EXCEPT ![r].stage = s, ![r].out = TRUE]
    \/ /\ req[r].stage \in {"tasklist", "fallback"} /\ Takes(r)
       /\ req' = [req EXCEPT ![r].stage = "success", ![r].applied = TRUE]
    \/ Takes(r) /\ req' = [req EXCEPT ![r].out = FALSE, ![r].applied = TRUE]
    \/ \E t \in Tasks, a \in BOOLEAN : req' = [req EXCEPT ![r] =
          [stage |-> "tasklist", task |-> t, approved |-> a,
           live |-> TRUE, out |-> FALSE, applied |-> FALSE]]

\* Every step moves at most one request, in one of these ways.
LEMMA OneMoves == [Next]_vars => req' = req \/ \E r \in Requests : Moves(r)
<1>1. ASSUME NEW r \in Requests, Serve(r) PROVE Moves(r)
    BY <1>1 DEF Moves, Serve, CompleteDone, CompleteUnanswered, CompleteRefused, FallbackDone,
                FallbackUnanswered, FallbackRejected, FallbackFailed, Goes
<1>2. ASSUME NEW r \in Requests, CtxExpire(r) \/ TakesLate(r) \/ Answered(r) PROVE Moves(r)
    BY <1>2 DEF Moves, CtxExpire, TakesLate, Answered
<1>3. ASSUME NEW r \in Requests, NEW t \in Tasks, NEW a \in BOOLEAN, Submit(r, t, a)
      PROVE  Moves(r)
    BY <1>3 DEF Moves, Submit
<1> QED
    BY <1>1, <1>2, <1>3 DEF Next, vars, LockExpire, CliDecide, Authenticate, SessionExpire,
                            SearchFallback, CliList, CliFetch

\* The request r is replaced by a well-formed one.
Replaces(r) == \E new \in ReqType : /\ req' = [req EXCEPT ![r] = new]
                                    /\ new.stage = "idle" <=> new.task = NoTask

\* A request keeps its type, and concerns a task exactly while it is handled.
LEMMA StepReq ==
    ASSUME TypeOK, [Next]_vars, NEW q \in Requests
    PROVE  /\ req' \in [Requests -> ReqType]
           /\ req'[q].stage = "idle" <=> req'[q].task = NoTask
<1> USE NoTaskIsNoTask
<1>0. /\ req \in [Requests -> ReqType]
      /\ \A r \in Requests : req[r].stage = "idle" <=> req[r].task = NoTask
    BY DEF TypeOK, ReqType
<1>1. CASE req' = req
    BY <1>0, <1>1
<1>2. ASSUME NEW r \in Requests, NEW new \in ReqType, req' = [req EXCEPT ![r] = new],
             new.stage = "idle" <=> new.task = NoTask
      PROVE  /\ req' \in [Requests -> ReqType]
             /\ req'[q].stage = "idle" <=> req'[q].task = NoTask
    BY <1>0, <1>2
<1>3. ASSUME NEW r \in Requests, Moves(r)
      PROVE  req' = req \/ Replaces(r)
    <2> DEFINE old == req[r]
    <2>0. old \in ReqType /\ (old.stage = "idle" <=> old.task = NoTask)
        BY <1>0
    <2>1. CASE req' = [req EXCEPT ![r].live = FALSE]
        <3> DEFINE new == [old EXCEPT !.live = FALSE]
        <3>1. new \in ReqType /\ new.stage = old.stage /\ new.task = old.task
            BY <2>0 DEF ReqType
        <3>2. req' = [req EXCEPT ![r] = new]
            BY <2>1
        <3> QED BY <2>0, <3>1, <3>2 DEF Replaces
    <2>2. CASE req' = [req EXCEPT ![r] = Idle]
        <3>1. Idle \in ReqType /\ Idle.stage = "idle" /\ Idle.task = NoTask
            BY DEF Idle, ReqType
        <3> QED BY <2>2, <3>1 DEF Replaces
    <2>3. ASSUME NEW s \in {"fallback", "failure"}, req' = [req EXCEPT ![r].stage = s],
                 old.stage \in {"tasklist", "fallback"}
          PROVE  Replaces(r)
        <3> DEFINE new == [old EXCEPT !.stage = s]
        <3>1. new \in ReqType /\ new.stage = s /\ new.task = old.task
            BY <2>0 DEF ReqType
        <3>2. req' = [req EXCEPT ![r] = new]
            BY <2>3
        <3> QED BY <2>0, <2>3, <3>1, <3>2 DEF Replaces
    <2>4. ASSUME NEW s \in {"fallback", "failure"}, old.stage \in {"tasklist", "fallback"},
                 req' = [req EXCEPT ![r].stage = s, ![r].out = TRUE]
          PROVE  Replaces(r)
        <3> DEFINE new == [old EXCEPT !.stage = s, !.out = TRUE]
        <3>1. new \in ReqType /\ new.stage = s /\ new.task = old.task
            BY <2>0 DEF ReqType
        <3>2. req' = [req EXCEPT ![r] = new]
            BY <1>0, <2>4
        <3> QED BY <2>0, <2>4, <3>1, <3>2 DEF Replaces
    <2>5. CASE /\ old.stage \in {"tasklist", "fallback"}
               /\ req' = [req EXCEPT ![r].stage = "success", ![r].applied = TRUE]
        <3> DEFINE new == [old EXCEPT !.stage = "success", !.applied = TRUE]
        <3>1. new \in ReqType /\ new.stage = "success" /\ new.task = old.task
            BY <2>0 DEF ReqType
        <3>2. req' = [req EXCEPT ![r] = new]
            BY <1>0, <2>5
        <3> QED BY <2>0, <2>5, <3>1, <3>2 DEF Replaces
    <2>6. CASE req' = [req EXCEPT ![r].out = FALSE, ![r].applied = TRUE]
        <3> DEFINE new == [old EXCEPT !.out = FALSE, !.applied = TRUE]
        <3>1. new \in ReqType /\ new.stage = old.stage /\ new.task = old.task
            BY <2>0 DEF ReqType
        <3>2. req' = [req EXCEPT ![r] = new]
            BY <1>0, <2>6
        <3> QED BY <2>0, <3>1, <3>2 DEF Replaces
    <2>7. ASSUME NEW t \in Tasks, NEW a \in BOOLEAN,
                 req' = [req EXCEPT ![r] = [stage |-> "tasklist", task |-> t, approved |-> a,
                                            live |-> TRUE, out |-> FALSE, applied |-> FALSE]]
          PROVE  Replaces(r)
        <3> DEFINE new == [stage |-> "tasklist", task |-> t, approved |-> a,
                           live |-> TRUE, out |-> FALSE, applied |-> FALSE]
        <3>1. new \in ReqType /\ new.stage = "tasklist" /\ new.task = t
            BY DEF ReqType
        <3> QED BY <2>7, <3>1 DEF Replaces
    <2> HIDE DEF old
    <2>8. old = req[r]
        BY DEF old
    <2> QED BY ONLY <1>3, <2>1, <2>2, <2>3, <2>4, <2>5, <2>6, <2>7, <2>8 DEF Moves
<1>4. ASSUME NEW r \in Requests, Replaces(r)
      PROVE  /\ req' \in [Requests -> ReqType]
             /\ req'[q].stage = "idle" <=> req'[q].task = NoTask
    BY <1>2, <1>4 DEF Replaces
<1> QED BY <1>1, <1>3, <1>4, OneMoves

\* Every step keeps the types of all the state.
LEMMA StepType == TypeOK /\ [Next]_vars => TypeOK'
<1> SUFFICES ASSUME TypeOK, [Next]_vars PROVE TypeOK'
    OBVIOUS
<1>1. session' \in BOOLEAN /\ cli' \in [todo : SUBSET Tasks, approved : BOOLEAN]
    <2>0. session \in BOOLEAN /\ cli \in [todo : SUBSET Tasks, approved : BOOLEAN]
        BY DEF TypeOK
    <2>1. ASSUME NEW t \in Tasks, CliDecide(t)
          PROVE  cli' \in [todo : SUBSET Tasks, approved : BOOLEAN] /\ session' = session
        BY <2>0, <2>1 DEF CliDecide
    <2>2. ASSUME NEW m \in SUBSET Tasks, NEW a \in BOOLEAN, CliFetch(m, a)
          PROVE  cli' \in [todo : SUBSET Tasks, approved : BOOLEAN] /\ session' = session
        BY <2>2 DEF CliFetch
    <2>3. ASSUME NEW r \in Requests, Serve(r) \/ TakesLate(r) PROVE UNCHANGED <<session, cli>>
        BY <2>3 DEF Serve, CompleteDone, CompleteUnanswered, CompleteRefused, FallbackDone,
                    FallbackUnanswered, FallbackRejected, FallbackFailed, Goes, TakesLate, Takes
    <2>4. CASE Authenticate \/ SessionExpire
        BY <2>0, <2>4 DEF Authenticate, SessionExpire
    <2> QED
        BY <2>0, <2>1, <2>2, <2>3, <2>4
           DEF Next, vars, LockExpire, SearchFallback, CliList, Submit, CtxExpire, Answered
<1>2. task' \in [Tasks -> TaskType]
    BY StepTask
<1>3. /\ Requests # {} => req' \in [Requests -> ReqType]
      /\ \A r \in Requests : req'[r].stage = "idle" <=> req'[r].task = NoTask
    BY StepReq
<1>4. Requests = {} => req' \in [Requests -> ReqType]
    <2>1. req' = req \/ \E r \in Requests : Moves(r)
        BY OneMoves
    <2> QED BY <2>1 DEF TypeOK, ReqType
<1> QED
    BY <1>1, <1>2, <1>3, <1>4 DEF TypeOK, TaskType, ReqType

\* A request reports success in the step that decides its task, or has before.
LEMMA StepSuccess == IInv /\ [Next]_vars => SuccessIsTrue'
<1> SUFFICES ASSUME TypeOK, SuccessIsTrue, [Next]_vars,
                    NEW r \in Requests, req'[r].stage = "success"
             PROVE  /\ req'[r].applied /\ task'[req'[r].task].st = "decided"
                    /\ task'[req'[r].task].approved = req'[r].approved
    BY DEF IInv, SuccessIsTrue, Decided
<1>0. req \in [Requests -> ReqType] /\ task \in [Tasks -> TaskType]
    BY DEF TypeOK, ReqType, TaskType
<1>1. CASE /\ req[r].stage = "success"
           /\ req'[r].task = req[r].task /\ req'[r].approved = req[r].approved
           /\ req[r].applied => req'[r].applied
    <2>1. req[r].task \in Tasks /\ Decided(req[r].task) /\ req[r].applied
          /\ task[req[r].task].approved = req[r].approved
        BY <1>1, NoTaskIsNoTask DEF TypeOK, SuccessIsTrue
    <2>2. task'[req[r].task] = task[req[r].task]
        BY <2>1, DecidedStays
    <2> QED BY <1>1, <2>1, <2>2 DEF Decided
<1>2. CASE /\ req[r].stage \in {"tasklist", "fallback"} /\ Takes(r)
           /\ req' = [req EXCEPT ![r].stage = "success", ![r].applied = TRUE]
    <2>1. req[r].task \in Tasks
        BY <1>2, NoTaskIsNoTask DEF TypeOK
    <2>2. /\ req'[r].task = req[r].task /\ req'[r].approved = req[r].approved
          /\ req'[r].applied = TRUE
        BY <1>0, <1>2 DEF ReqType
    <2>3. task'[req[r].task] = [st |-> "decided", approved |-> req[r].approved]
        BY <1>0, <1>2, <2>1 DEF Takes, Decide
    <2> QED BY <2>2, <2>3
<1>3. CASE req' = req
    BY <1>1, <1>3
<1>4. ASSUME NEW q \in Requests, Moves(q), q # r PROVE req'[r] = req[r]
    BY <1>0, <1>4 DEF Moves
<1>5. CASE Moves(r)
    <2>1. CASE req' = [req EXCEPT ![r].live = FALSE]
        BY <1>0, <1>1, <2>1 DEF ReqType
    <2>2. CASE req' = [req EXCEPT ![r].out = FALSE, ![r].applied = TRUE]
        BY <1>0, <1>1, <2>2 DEF ReqType
    <2>3. CASE req' = [req EXCEPT ![r] = Idle]
        BY <1>0, <2>3 DEF Idle
    <2>4. ASSUME NEW s \in {"fallback", "failure"},
                 \/ req' = [req EXCEPT ![r].stage = s]
                 \/ req' = [req EXCEPT ![r].stage = s, ![r].out = TRUE]
          PROVE  FALSE
        BY <1>0, <2>4 DEF ReqType
    <2>5. ASSUME NEW t \in Tasks, NEW a \in BOOLEAN,
                 req' = [req EXCEPT ![r] = [stage |-> "tasklist", task |-> t, approved |-> a,
                                            live |-> TRUE, out |-> FALSE, applied |-> FALSE]]
          PROVE  FALSE
        BY <1>0, <2>5
    <2> QED BY <1>2, <1>3, <1>5, <2>1, <2>2, <2>3, <2>4, <2>5 DEF Moves
<1>6. ASSUME NEW q \in Requests, Moves(q), q # r
      PROVE  /\ req'[r].applied /\ task'[req'[r].task].st = "decided"
             /\ task'[req'[r].task].approved = req'[r].approved
    BY <1>1, <1>4, <1>6
<1> QED BY <1>3, <1>5, <1>6, OneMoves

\* Requests, tasks and the command keep their types, for any number of them.
THEOREM TypeCorrect == Spec => []TypeOK
<1>1. IInv /\ [Next]_vars => IInv'
    BY StepType, StepSuccess DEF IInv
<1> QED BY InitIInv, <1>1, PTL DEF Spec, IInv

\* However many operators decide a task at the same time, one who is told that
\* the decision succeeded made the decision the process has taken.
THEOREM SuccessCorrect == Spec => []SuccessIsTrue
<1>1. IInv /\ [Next]_vars => IInv'
    BY StepType, StepSuccess DEF IInv
<1> QED BY InitIInv, <1>1, PTL DEF Spec, IInv

-----------------------------------------------------------------------------
(* The page                                                                 *)

\* A search of the page is a login, a search that locks the tasks, or nothing at
\* all; a decision and its answer are those of TaskReview.
LEMMA FeedStep == [FNext]_fvars => [Next]_vars
<1> SUFFICES ASSUME [FNext]_fvars PROVE [Next]_vars
    OBVIOUS
<1>1. CASE Elsewhere
    BY <1>1 DEF Elsewhere, Next
<1>2. CASE IndexSync
    BY <1>2 DEF IndexSync, TaskState
<1>3. ASSUME NEW q \in Queries, NEW f \in Forms, Search(q, f) \/ SearchAgain(q, f)
      PROVE  [Next]_vars
    BY <1>3 DEF Search, SearchAgain
<1>4. ASSUME NEW q \in Queries, Answers(q) PROVE [Next]_vars
    <2>1. CASE SearchTasks(q)
        BY <2>1 DEF SearchTasks, Authenticate, Next
    <2>2. CASE SearchJobs(q)
        BY <2>2 DEF SearchJobs, Next
    <2>3. CASE SearchFails(q)
        BY <2>3 DEF SearchFails
    <2> QED BY <1>4, <2>1, <2>2, <2>3 DEF Answers
<1>5. ASSUME NEW r \in Requests, NEW t \in Tasks, NEW a \in BOOLEAN, Decision(r, t, a)
      PROVE  [Next]_vars
    BY <1>5 DEF Decision, Next
<1>6. ASSUME NEW r \in Requests, NEW q \in Queries, NEW f \in Forms,
             DecisionAnswered(r, q, f)
      PROVE  [Next]_vars
    BY <1>6 DEF DecisionAnswered, Next
<1>7. ASSUME NEW q \in Queries, Arrive(q) PROVE [Next]_vars
    BY <1>7 DEF Arrive
<1>8. CASE UNCHANGED fvars
    BY <1>8 DEF fvars
<1> QED BY <1>1, <1>2, <1>3, <1>4, <1>5, <1>6, <1>7, <1>8 DEF FNext

\* Every behaviour with the page is one of TaskReview.
THEOREM FeedImplementsReview == FSpec => Spec
<1>1. FInit => Init
    BY DEF FInit
<1> QED BY <1>1, FeedStep, PTL DEF FSpec, Spec

LEMMA AllOpenIsForm == AllOpen \in Forms
BY DEF AllOpen, Forms, TaskState

LEMMA InitFTypeOK == FInit => FTypeOK
<1> SUFFICES ASSUME FInit PROVE FTypeOK
    OBVIOUS
<1>1. \A q \in Queries : query[q] = NotAsked
    BY DEF FInit
<1>2. query \in [Queries -> [stage : {"idle", "asked", "found"}, form : Forms,
                           cards : SUBSET (Tasks \X TaskState)]]
    BY AllOpenIsForm DEF FInit, NotAsked
<1> QED BY <1>1, <1>2 DEF FInit, FTypeOK, NotAsked

LEMMA StepFTypeOK == FTypeOK /\ [FNext]_fvars => FTypeOK'
<1> SUFFICES ASSUME FTypeOK, [FNext]_fvars PROVE FTypeOK'
    OBVIOUS
<1> USE DEF FTypeOK, feedVars
<1>1. CASE Elsewhere \/ UNCHANGED fvars
    BY <1>1 DEF Elsewhere, fvars
<1>2. CASE IndexSync
    BY <1>2 DEF IndexSync, TaskState
<1>3. ASSUME NEW q \in Queries, NEW f \in Forms, Ask(q, f), index' = index,
             again' \in BOOLEAN
      PROVE  FTypeOK'
    BY <1>3 DEF Ask
<1>4. ASSUME NEW q \in Queries, NEW tasks \in SUBSET Tasks, NEW state \in TaskState, Found(q, tasks, state)
      PROVE  FTypeOK'
    BY <1>4, AllOpenIsForm DEF Found
<1>5. ASSUME NEW q \in Queries, Answers(q) PROVE FTypeOK'
    <2>1. Open \in SUBSET Tasks /\ "CREATED" \in TaskState /\ query[q].form.state \in TaskState
        BY DEF Open, TaskState, Forms
    <2> QED BY <1>4, <1>5, <2>1 DEF Answers, SearchTasks, SearchJobs, SearchFails
<1>6. ASSUME NEW q \in Queries, Arrive(q) PROVE FTypeOK'
    BY <1>6, AllOpenIsForm DEF Arrive, NotAsked, Buttons
<1>7. ASSUME NEW r \in Requests, NEW t \in Tasks, NEW a \in BOOLEAN, Decision(r, t, a)
      PROVE  FTypeOK'
    BY <1>7 DEF Decision
<1>8. ASSUME NEW q \in Queries, NEW f \in Forms,
             Search(q, f) \/ SearchAgain(q, f) \/ \E r \in Requests : DecisionAnswered(r, q, f)
      PROVE  FTypeOK'
    BY <1>3, <1>8 DEF Search, SearchAgain, DecisionAnswered
<1> QED BY <1>1, <1>2, <1>5, <1>6, <1>7, <1>8 DEF FNext

\* The page shows tasks there are, and no answer is shown twice.
THEOREM FeedTypes == FSpec => []FTypeOK
BY InitFTypeOK, StepFTypeOK, PTL DEF FSpec

\* Also with the page in between, a reported success is the decision of the task.
THEOREM FeedSuccessIsTrue == FSpec => []SuccessIsTrue
BY FeedImplementsReview, SuccessCorrect, PTL
=============================================================================
