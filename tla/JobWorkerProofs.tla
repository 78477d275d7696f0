--------------------------- MODULE JobWorkerProofs ---------------------------
(* Theorems about the worker and the broker for any number of jobs, slots,   *)
(* concurrent handlers and retries, and about the intervals between them for *)
(* any settings.                                                            *)
EXTENDS RetryBudget, FiniteSetTheorems, TLAPS

\* The broker raises an incident exactly when no retries are left.
IncidentIffExhausted == \A j \in Jobs : job[j].st = "incident" <=> job[j].retries = 0

IInv == TypeOK /\ IncidentIffExhausted

LEMMA NoOutcomeIsNone == NoOutcome \notin Outcome
BY DEF NoOutcome, Outcome

\* A retry count computed from a snapshot is again a retry count.
LEMMA NewRetriesType ==
    ASSUME NEW seen \in 0..Retries PROVE NewRetries(seen) \in 0..Retries
BY RetriesIsPositive DEF NewRetries

LEMMA InitIInv == Init => IInv
BY RetriesIsPositive, NoJobIsNoJob
   DEF Init, IInv, TypeOK, IncidentIffExhausted, FreeSlot, SlotType, JobState, NoOutcome, Outcome

\* Executing any command leaves the record of a job well formed, with an
\* incident exactly when the retries are used up.
LEMMA ExecutedType ==
    ASSUME NEW old \in [st : JobState, retries : 0..Retries], old.retries > 0,
           NEW left \in 0..Retries, NEW cmd
    PROVE  /\ Executed(cmd, left, old) \in [st : JobState, retries : 0..Retries]
           /\ Executed(cmd, left, old).st = "incident" <=> Executed(cmd, left, old).retries = 0
BY RetriesIsPositive DEF Executed, JobState

LEMMA StepIInv == IInv /\ [Next]_vars => IInv'
<1> SUFFICES ASSUME IInv, [Next]_vars PROVE IInv'
    OBVIOUS
<1> USE RetriesIsPositive, NoJobIsNoJob, NoOutcomeIsNone
        DEF IInv, TypeOK, IncidentIffExhausted, SlotType
<1>1. ASSUME NEW j \in Jobs, NEW s \in Slots, Activate(j, s)
      PROVE  IInv'
      <2> DEFINE new == [stage |-> "queued", job |-> j, seen |-> job[j].retries,
                         live |-> FALSE, outcome |-> NoOutcome]
      <2>1. slot' = [slot EXCEPT ![s] = new]
            BY <1>1 DEF Activate
      <2>2. job[j].retries \in 1..Retries
            BY <1>1 DEF Activate
      <2>3. new \in SlotType
            BY <2>2
      <2>4. /\ job' \in [Jobs -> [st : JobState, retries : 0..Retries]]
            /\ IncidentIffExhausted'
            BY <1>1 DEF Activate, JobState
      <2>. QED  BY <2>1, <2>2, <2>3, <2>4
<1>2. ASSUME NEW j \in Jobs, LockExpire(j) \/ BackoffElapse(j)
      PROVE  IInv'
      BY <1>2 DEF LockExpire, BackoffElapse, JobState
<1>3. ASSUME NEW s \in Slots, Start(s)
      PROVE  IInv'
      BY <1>3 DEF Start
<1>4. ASSUME NEW s \in Slots, CtxExpire(s)
      PROVE  IInv'
      BY <1>4 DEF CtxExpire
<1>5. ASSUME NEW s \in Slots, NEW o \in Outcome, Finish(s, o)
      PROVE  IInv'
      BY <1>5 DEF Finish
<1>6. ASSUME NEW s \in Slots, Deliver(s)
      PROVE  IInv'
      <2> DEFINE j == slot[s].job
      <2>1. j \in Jobs /\ slot[s].seen \in 0..Retries
            BY <1>6 DEF Deliver
      <2>2. slot' \in [Slots -> SlotType] /\ slot' = [slot EXCEPT ![s] = FreeSlot]
            BY <1>6 DEF Deliver, Release, FreeSlot
      <2>3. CASE Accepts(j)
            <3> DEFINE new == Executed(Command(slot[s].outcome), NewRetries(slot[s].seen), job[j])
            <3>1. job' = [job EXCEPT ![j] = new]
                  BY <1>6, <2>3 DEF Deliver
            <3>2. job[j].retries > 0
                  BY <2>1, <2>3 DEF Accepts
            <3>3. /\ new \in [st : JobState, retries : 0..Retries]
                  /\ new.st = "incident" <=> new.retries = 0
                  BY <2>1, <3>2, NewRetriesType, ExecutedType
            <3> HIDE DEF new, j
            <3>. QED  BY <2>1, <2>2, <3>1, <3>3 DEF FreeSlot
      <2>4. CASE ~Accepts(j)
            BY <1>6, <2>2, <2>4 DEF Deliver, FreeSlot
      <2>. QED  BY <2>3, <2>4
<1>7. ASSUME NEW s \in Slots, SendExpired(s) \/ SendLost(s)
      PROVE  IInv'
      <2>1. slot' = [slot EXCEPT ![s] = FreeSlot] /\ job' = job
            BY <1>7 DEF SendExpired, SendLost, Release
      <2>2. FreeSlot \in SlotType
            BY DEF FreeSlot
      <2>. QED  BY <2>1, <2>2 DEF FreeSlot
<1>8. CASE Crash
      BY <1>8 DEF Crash, FreeSlot
<1>9. CASE UNCHANGED vars
      BY <1>9 DEF vars
<1>. QED  BY <1>1, <1>2, <1>3, <1>4, <1>5, <1>6, <1>7, <1>8, <1>9 DEF Next

-----------------------------------------------------------------------------
(* What the history variables add                                           *)

LEMMA InitHInv == HInit => HInv
<1> SUFFICES ASSUME HInit PROVE HInv
    OBVIOUS
<1> USE RetriesIsPositive DEF HInit, Init
<1>1. HTypeOK
      BY DEF HTypeOK
<1>2. EndJustified /\ RetriesPaidFor
      BY DEF EndJustified, RetriesPaidFor
<1>3. \A s \in Slots : SlotFounded(s)
      BY DEF SlotFounded, FreeSlot
<1>. QED  BY <1>1, <1>2, <1>3 DEF HInv

\* A step in which no handler ends leaves the history unchanged.
LEMMA QuietRecord ==
    ASSUME HTypeOK, Record,
           \A s \in Slots : ~(slot[s].stage = "running" /\ slot'[s].stage = "sending")
    PROVE  returned' = returned /\ failures' = failures
<1>1. \A j \in Jobs : Ending(j) = {}
      BY DEF Ending
<1>2. \A j \in Jobs : returned'[j] = returned[j] /\ failures'[j] = failures[j]
      BY <1>1 DEF Record
<1>. QED  BY <1>2 DEF Record, HTypeOK

\* The history when the handler of slot s ends with outcome o.
LEMMA EndRecord ==
    ASSUME IInv, HTypeOK, Record, NEW s \in Slots, NEW o \in Outcome, Finish(s, o)
    PROVE  /\ slot[s].job \in Jobs
           /\ returned' = [returned EXCEPT ![slot[s].job] = @ \cup {o}]
           /\ failures' = [failures EXCEPT ![slot[s].job] =
                              IF o \in Failed /\ @ < Retries THEN @ + 1 ELSE @]
<1> DEFINE k == slot[s].job
<1>1. k \in Jobs
      BY DEF IInv, TypeOK, SlotType, Finish
<1>2. \A t \in Slots : (slot[t].stage = "running" /\ slot'[t].stage = "sending") <=> t = s
      BY DEF IInv, TypeOK, SlotType, Finish
<1>3. slot'[s].outcome = o
      BY DEF IInv, TypeOK, SlotType, Finish
<1>4. Ending(k) = {s} /\ \A j \in Jobs : j # k => Ending(j) = {}
      BY <1>2 DEF Ending
<1>5. returned'[k] = returned[k] \cup {o} /\ \A j \in Jobs : j # k => returned'[j] = returned[j]
      BY <1>1, <1>3, <1>4 DEF Record
<1>6. /\ failures'[k] = IF o \in Failed /\ failures[k] < Retries
                         THEN failures[k] + 1 ELSE failures[k]
      /\ \A j \in Jobs : j # k => failures'[j] = failures[j]
      BY <1>1, <1>3, <1>4 DEF Record
<1>7. DOMAIN returned' = Jobs /\ DOMAIN failures' = Jobs
      BY DEF Record
<1>8. returned' = [returned EXCEPT ![k] = @ \cup {o}]
      BY <1>1, <1>5, <1>7 DEF HTypeOK, Record
<1>9. failures' = [failures EXCEPT ![k] = IF o \in Failed /\ @ < Retries THEN @ + 1 ELSE @]
      BY <1>1, <1>6, <1>7 DEF HTypeOK, Record
<1>. QED  BY <1>1, <1>8, <1>9

LEMMA StepHInv == IInv /\ HInv /\ [HNext]_hvars => HInv'
<1> SUFFICES ASSUME IInv, HInv, [HNext]_hvars PROVE HInv'
    OBVIOUS
<1>0. HTypeOK /\ EndJustified /\ RetriesPaidFor /\ \A s \in Slots : SlotFounded(s)
      BY DEF HInv
<1> USE RetriesIsPositive, NoJobIsNoJob
<1>1. ASSUME NEW j \in Jobs, NEW s \in Slots, Activate(j, s), Record
      PROVE  HInv'
      <2>a. \A t \in Slots : IF t = s THEN /\ slot'[t].stage = "queued"
                                            /\ slot'[t].job = j
                                            /\ slot'[t].seen = job[j].retries
                                            /\ slot'[t].outcome = NoOutcome
                                       ELSE slot'[t] = slot[t]
            BY <1>1 DEF Activate, IInv, TypeOK
      <2>1. returned' = returned /\ failures' = failures
            BY <1>0, <1>1, <2>a, QuietRecord
      <2>2. ASSUME NEW t \in Slots PROVE SlotFounded(t)'
            <3>1. CASE t = s
                  <4>1. Retries - failures[j] <= job[j].retries - 0 /\ NoOutcome \notin Failed
                        BY <1>0, NoOutcomeIsNone DEF RetriesPaidFor, Failed, HTypeOK, IInv, TypeOK
                  <4>. QED  BY <2>a, <2>1, <3>1, <4>1 DEF SlotFounded
            <3>2. CASE t # s
                  BY <1>0, <2>a, <2>1, <3>2 DEF SlotFounded
            <3>. QED  BY <3>1, <3>2
      <2>3. EndJustified' /\ RetriesPaidFor'
            BY <1>0, <1>1, <2>1 DEF Activate, EndJustified, RetriesPaidFor, IInv, TypeOK
      <2>. QED  BY <1>0, <2>1, <2>2, <2>3 DEF HInv, HTypeOK
<1>2. ASSUME NEW j \in Jobs, LockExpire(j) \/ BackoffElapse(j), Record
      PROVE  HInv'
      <2>1. returned' = returned /\ failures' = failures
            BY <1>0, <1>2, QuietRecord DEF LockExpire, BackoffElapse
      <2>2. EndJustified' /\ RetriesPaidFor'
            BY <1>0, <1>2, <2>1
               DEF LockExpire, BackoffElapse, EndJustified, RetriesPaidFor, IInv, TypeOK
      <2>3. \A t \in Slots : SlotFounded(t)'
            BY <1>0, <1>2, <2>1 DEF LockExpire, BackoffElapse, SlotFounded
      <2>. QED  BY <1>0, <2>1, <2>2, <2>3 DEF HInv, HTypeOK
<1>3. ASSUME NEW s \in Slots, Start(s) \/ CtxExpire(s), Record
      PROVE  HInv'
      <2>a. \A t \in Slots :
                /\ slot'[t].job = slot[t].job /\ slot'[t].seen = slot[t].seen
                /\ slot'[t].outcome = slot[t].outcome
                /\ \/ slot'[t].stage = slot[t].stage
                   \/ slot[t].stage = "queued" /\ slot'[t].stage = "running"
            <3>1. CASE Start(s)
                  BY <3>1 DEF Start, IInv, TypeOK, SlotType
            <3>2. CASE CtxExpire(s)
                  BY <3>2 DEF CtxExpire, IInv, TypeOK, SlotType
            <3>. QED  BY <1>3, <3>1, <3>2
      <2>1. returned' = returned /\ failures' = failures
            BY <1>0, <1>3, <2>a, QuietRecord
      <2>2. \A t \in Slots : SlotFounded(t)'
            BY <1>0, <2>a, <2>1 DEF SlotFounded
      <2>3. EndJustified' /\ RetriesPaidFor'
            BY <1>0, <1>3, <2>1 DEF Start, CtxExpire, EndJustified, RetriesPaidFor
      <2>. QED  BY <1>0, <2>1, <2>2, <2>3 DEF HInv, HTypeOK
<1>4. ASSUME NEW s \in Slots, NEW o \in Outcome, Finish(s, o), Record
      PROVE  HInv'
      <2> DEFINE k == slot[s].job
      <2>1. /\ k \in Jobs
            /\ returned' = [returned EXCEPT ![k] = @ \cup {o}]
            /\ failures' = [failures EXCEPT ![k] =
                               IF o \in Failed /\ @ < Retries THEN @ + 1 ELSE @]
            BY <1>0, <1>4, EndRecord
      <2>2. HTypeOK'
            BY <1>0, <2>1 DEF HTypeOK
      <2>3. EndJustified' /\ RetriesPaidFor'
            BY <1>0, <1>4, <2>1 DEF Finish, EndJustified, RetriesPaidFor, HTypeOK, IInv, TypeOK
      <2>4. ASSUME NEW t \in Slots PROVE SlotFounded(t)'
            <3>1. CASE t = s
                  <4>1. /\ slot'[s] = [slot[s] EXCEPT !.stage = "sending", !.outcome = o]
                        /\ slot[s].outcome = NoOutcome /\ slot[s].seen \in 1..Retries
                        /\ slot[s].stage = "running"
                        BY <1>4 DEF Finish, IInv, TypeOK, SlotType
                  <4>2. /\ slot'[s].seen = slot[s].seen /\ slot'[s].job = k
                        /\ slot'[s].outcome = o
                        BY <1>4, <4>1 DEF Finish, IInv, TypeOK, SlotType
                  <4>3. Retries - failures[k] <= slot[s].seen
                        BY <1>0, <4>1, NoOutcomeIsNone DEF SlotFounded, Failed
                  <4>4. o \in returned'[k]
                        BY <1>0, <2>1 DEF HTypeOK
                  <4>5. Retries - failures'[k] <= slot[s].seen - IF o \in Failed THEN 1 ELSE 0
                        BY <1>0, <2>1, <4>1, <4>3 DEF HTypeOK
                  <4>. QED  BY <3>1, <4>2, <4>4, <4>5 DEF SlotFounded
            <3>2. CASE t # s
                  <4>1. slot'[t] = slot[t]
                        BY <1>4, <3>2 DEF Finish, IInv, TypeOK
                  <4>2. slot[t].stage # "free" => slot[t].job \in Jobs
                        BY DEF IInv, TypeOK, SlotType
                  <4>3. \A j \in Jobs : /\ returned[j] \subseteq returned'[j]
                                         /\ failures[j] <= failures'[j]
                                         /\ failures[j] \in Nat /\ failures'[j] \in Nat
                        BY <1>0, <2>1, <2>2 DEF HTypeOK
                  <4>4. slot[t].seen \in Int
                        BY DEF IInv, TypeOK, SlotType
                  <4>. QED  BY <1>0, <4>1, <4>2, <4>3, <4>4 DEF SlotFounded
            <3>. QED  BY <3>1, <3>2
      <2>. QED  BY <2>2, <2>3, <2>4 DEF HInv
<1>5. ASSUME NEW s \in Slots, Deliver(s), Record
      PROVE  HInv'
      <2> DEFINE k == slot[s].job
      <2>1. slot' = [slot EXCEPT ![s] = FreeSlot]
            BY <1>5 DEF Deliver, Release
      <2>a. \A t \in Slots : slot'[t] = slot[t] \/ slot'[t].stage = "free"
            BY <2>1 DEF FreeSlot, IInv, TypeOK
      <2>2. returned' = returned /\ failures' = failures
            BY <1>0, <1>5, <2>a, QuietRecord
      <2>3. \A t \in Slots : SlotFounded(t)'
            BY <1>0, <2>1, <2>2 DEF SlotFounded, FreeSlot, IInv, TypeOK
      <2>4. EndJustified' /\ RetriesPaidFor'
            <3>1. CASE job' = job
                  BY <1>0, <2>2, <3>1 DEF EndJustified, RetriesPaidFor
            <3>2. CASE Accepts(k)
                  <4> DEFINE o == slot[s].outcome
                             new == Executed(Command(o), NewRetries(slot[s].seen), job[k])
                  <4>1. /\ k \in Jobs /\ o \in Outcome /\ slot[s].seen \in 1..Retries
                        /\ job[k] \in [st : JobState, retries : 0..Retries]
                        BY <1>5 DEF Deliver, IInv, TypeOK, SlotType
                  <4>2. job' = [job EXCEPT ![k] = new]
                        BY <1>5, <3>2 DEF Deliver, Accepts
                  <4>3. /\ o \in returned[k]
                        /\ Retries - failures[k] <= slot[s].seen - IF o \in Failed THEN 1 ELSE 0
                        BY <1>0, <1>5 DEF SlotFounded, Deliver
                  <4>4. /\ new.st = "completed" => o = "ok"
                        /\ new.st = "thrown" => o = "business"
                        /\ o \in Failed => new.retries = slot[s].seen - 1
                        /\ o \notin Failed => new.retries = job[k].retries
                        BY <4>1 DEF Executed, Command, NewRetries, Failed, Outcome
                  <4>5. Retries - failures[k] <= new.retries
                        BY <1>0, <4>1, <4>3, <4>4 DEF RetriesPaidFor
                  <4> HIDE DEF new, k, o
                  <4>6. \A j \in Jobs : job'[j] = IF j = k THEN new ELSE job[j]
                        BY <4>1, <4>2 DEF IInv, TypeOK
                  <4>. QED  BY <1>0, <2>2, <4>1, <4>3, <4>4, <4>5, <4>6 DEF EndJustified, RetriesPaidFor
            <3>. QED  BY <1>5, <3>1, <3>2 DEF Deliver
      <2>. QED  BY <1>0, <2>2, <2>3, <2>4 DEF HInv, HTypeOK
<1>6. ASSUME NEW s \in Slots, SendExpired(s) \/ SendLost(s), Record
      PROVE  HInv'
      <2>1. slot' = [slot EXCEPT ![s] = FreeSlot] /\ job' = job
            BY <1>6 DEF SendExpired, SendLost, Release
      <2>a. \A t \in Slots : slot'[t] = slot[t] \/ slot'[t].stage = "free"
            BY <2>1 DEF FreeSlot, IInv, TypeOK
      <2>2. returned' = returned /\ failures' = failures
            BY <1>0, <1>6, <2>a, QuietRecord
      <2>3. \A t \in Slots : SlotFounded(t)'
            BY <1>0, <2>1, <2>2 DEF SlotFounded, FreeSlot, IInv, TypeOK
      <2>. QED  BY <1>0, <2>1, <2>2, <2>3 DEF HInv, HTypeOK, EndJustified, RetriesPaidFor
<1>7. ASSUME Crash, Record
      PROVE  HInv'
      <2>1. returned' = returned /\ failures' = failures
            BY <1>0, <1>7, QuietRecord DEF Crash, FreeSlot
      <2>2. \A t \in Slots : SlotFounded(t)'
            BY <1>7 DEF Crash, SlotFounded, FreeSlot
      <2>. QED  BY <1>0, <1>7, <2>1, <2>2 DEF Crash, HInv, HTypeOK, EndJustified, RetriesPaidFor
<1>8. CASE UNCHANGED hvars
      BY <1>0, <1>8 DEF hvars, vars, HInv, HTypeOK, EndJustified, RetriesPaidFor, SlotFounded
<1>. QED  BY <1>1, <1>2, <1>3, <1>4, <1>5, <1>6, <1>7, <1>8 DEF HNext, Next

LEMMA HSpecInvariants == HSpec => [](IInv /\ HInv)
<1>1. HInit => IInv /\ HInv
      BY InitIInv, InitHInv DEF HInit
<1>2. (IInv /\ HInv) /\ [HNext]_hvars => (IInv /\ HInv)'
      <2>1. [HNext]_hvars => [Next]_vars
            BY DEF HNext, hvars
      <2>. QED  BY <2>1, StepIInv, StepHInv
<1>. QED  BY <1>1, <1>2, PTL DEF HSpec

\* Slots, snapshots and broker records keep their types, whatever is lost.
THEOREM TypeCorrect == Spec => []TypeOK
<1>1. IInv => TypeOK
      BY DEF IInv
<1>. QED  BY <1>1, InitIInv, StepIInv, PTL DEF Spec

\* No job completes that no handler finished, and none throws an error that no
\* handler raised.
THEOREM EndsCorrect == HSpec => []EndJustified
<1>1. HInv => EndJustified
      BY DEF HInv
<1>. QED  BY <1>1, HSpecInvariants, PTL

\* Every retry that is gone was paid for by an execution that failed.
THEOREM RetriesCorrect == HSpec => []RetriesPaidFor
<1>1. HInv => RetriesPaidFor
      BY DEF HInv
<1>. QED  BY <1>1, HSpecInvariants, PTL
-----------------------------------------------------------------------------
(* The arithmetic of the intervals                                          *)

\* A power of two counts the subsets of an interval, and so is positive and grows.
LEMMA PowerCountsSubsets ==
    ASSUME NEW n \in Nat
    PROVE  IsFiniteSet(SUBSET (1..n)) /\ Cardinality(SUBSET (1..n)) = 2^n
<1>1. IsFiniteSet(1..n) /\ Cardinality(1..n) = n
      BY FS_Interval
<1>. QED  BY <1>1, FS_SUBSET

LEMMA PowerIsPositive == ASSUME NEW n \in Nat PROVE 2^n \in Nat \ {0}
<1>1. 2^n \in Nat
      BY PowerCountsSubsets, FS_CardinalityType
<1>2. Cardinality(SUBSET (1..n)) # 0
      <2>1. IsFiniteSet(SUBSET (1..n))
            BY PowerCountsSubsets
      <2>2. SUBSET (1..n) # {}
            <3>1. {} \in SUBSET (1..n)
                  OBVIOUS
            <3>. QED  BY <3>1
      <2>. QED  BY <2>1, <2>2, FS_EmptySet
<1>. QED  BY <1>1, <1>2, PowerCountsSubsets

LEMMA PowerGrows == ASSUME NEW m \in Nat, NEW n \in Nat, m <= n PROVE 2^m <= 2^n
<1>1. SUBSET (1..m) \in SUBSET (SUBSET (1..n))
      OBVIOUS
<1>2. Cardinality(SUBSET (1..m)) <= Cardinality(SUBSET (1..n))
      BY <1>1, PowerCountsSubsets, FS_Subset
<1>. QED  BY <1>2, PowerCountsSubsets

LEMMA ProductGrows == ASSUME NEW i \in Nat, NEW m \in Nat, NEW n \in Nat, m <= n PROVE i * m <= i * n
<1>1. PICK d \in Nat : n = m + d
      <2>1. n - m \in Nat /\ n = m + (n - m)
            OBVIOUS
      <2>. QED  BY <2>1
<1>2. i * n = i * m + i * d
      BY <1>1
<1>3. i * d \in Nat /\ i * m \in Nat
      BY <1>1
<1>. QED  BY <1>2, <1>3

\* The conversion ends in 32 bits, and does nothing to what fits.
LEMMA Int32Range == ASSUME NEW n \in Int PROVE Int32(n) \in (-Word)..(Word - 1)
<1>1. 2 * Word \in Nat \ {0}
      BY WordIsPositive
<1>2. (n + Word) % (2 * Word) \in 0..(2 * Word - 1)
      BY <1>1, WordIsPositive
<1>. QED  BY <1>2, WordIsPositive DEF Int32

LEMMA Int32Fits == ASSUME NEW n \in (-Word)..(Word - 1) PROVE Int32(n) = n
<1>1. n + Word \in 0..(2 * Word - 1) /\ 2 * Word \in Nat \ {0}
      BY WordIsPositive
<1>2. (n + Word) % (2 * Word) = n + Word
      BY <1>1
<1>. QED  BY <1>2, WordIsPositive DEF Int32

\* Settings are numbers, and what the daemon makes of them is usable.
LEMMA UsableSettings ==
    ASSUME NEW env \in Environments
    PROVE  /\ NewExponentialBackoff(Config(env)).initial \in Nat \ {0}
           /\ NewExponentialBackoff(Config(env)).max \in Nat \ {0}
           /\ InitialRetries(Config(env)) \in (Retries - Word)..(Word - 1)
<1> DEFINE cfg == Config(env)
<1>1. cfg.initial \in Int /\ cfg.max \in Int /\ cfg.retries \in Int
      <2>1. \A setting \in SUBSET Int, default \in Int : FromEnv(setting, default) \in Int
            BY DEF FromEnv
      <2>2. env.initial \in SUBSET Int /\ env.max \in SUBSET Int /\ env.retries \in SUBSET Int
            BY SettingsAreNumbers
      <2>. QED  BY <2>1, <2>2 DEF Config
<1> HIDE DEF cfg
<1>2. /\ NewExponentialBackoff(cfg).initial \in Nat \ {0}
      /\ NewExponentialBackoff(cfg).max \in Nat \ {0}
      /\ NewExponentialBackoff(cfg).retries \in Int
      BY <1>1 DEF NewExponentialBackoff
<1>3. InitialRetries(cfg) \in (-Word)..(Word - 1)
      BY <1>1, <1>2, Int32Range DEF InitialRetries
<1>4. InitialRetries(cfg) - Retries >= -Word
      BY DifferenceFits DEF cfg
<1>. QED  BY <1>2, <1>3, <1>4, RetriesIsPositive, WordIsPositive DEF cfg

\* The interval after failure, counted from the retries of the copy: at most the cap,
\* and at most the doubling that any attempt not below its own allows.
LEMMA IntervalBounds ==
    ASSUME NEW env \in Environments, NEW seen \in 1..Retries, NEW nth \in Int,
           InitialRetries(Config(env)) - seen <= nth
    PROVE  LET b == NewExponentialBackoff(Config(env)) IN
           /\ AskedFor(Config(env), seen) \in 1..b.max
           /\ AskedFor(Config(env), seen) <= b.initial * 2^(IF nth < 0 THEN 0 ELSE nth)
<1> DEFINE b       == NewExponentialBackoff(Config(env))
           attempt == InitialRetries(Config(env)) - seen
           low     == IF attempt < 0 THEN 0 ELSE attempt
           high    == IF nth < 0 THEN 0 ELSE nth
<1>1. b.initial \in Nat \ {0} /\ b.max \in Nat \ {0} /\ attempt \in (-Word)..(Word - 1)
      BY UsableSettings, RetriesIsPositive, WordIsPositive
<1>2. Int32(attempt) = attempt
      BY <1>1, Int32Fits
<1>3. low \in Nat /\ high \in Nat /\ low <= high
      BY <1>1, WordIsPositive
<1>4. AskedFor(Config(env), seen) = IF b.initial * 2^low > b.max THEN b.max ELSE b.initial * 2^low
      BY <1>2 DEF AskedFor, CalculateBackoff
<1> HIDE DEF b, attempt, low, high
<1>5. 2^low \in Nat \ {0} /\ 2^high \in Nat /\ 2^low <= 2^high
      BY <1>3, PowerIsPositive, PowerGrows
<1>6. b.initial * 2^low <= b.initial * 2^high /\ b.initial * 2^low >= 1
      <2>1. b.initial * 2^low <= b.initial * 2^high
            BY <1>1, <1>5, ProductGrows
      <2>2. b.initial * 1 <= b.initial * 2^low
            BY <1>1, <1>5, ProductGrows
      <2>. QED  BY <1>1, <1>5, <2>1, <2>2
<1>7. b.initial * 2^low \in Nat /\ b.initial * 2^high \in Nat
      BY <1>1, <1>5
<1>8. /\ AskedFor(Config(env), seen) \in 1..b.max
      /\ AskedFor(Config(env), seen) <= b.initial * 2^high
      BY <1>1, <1>4, <1>6, <1>7
<1>. QED  BY <1>8 DEF b, high

-----------------------------------------------------------------------------
(* The copy a job waits by                                                  *)

\* A job in backoff waits by a copy that had retries, and not more retries than the
\* failures before the one that is reported leave.
AskedFounded ==
    /\ asked \in [Jobs -> 0..Retries]
    /\ \A j \in Jobs : job[j].st = "backoff" =>
           asked[j] > 0 /\ Retries - failures[j] <= asked[j] - 1

LEMMA InitAsked == SInit => AskedFounded
BY RetriesIsPositive DEF SInit, HInit, Init, AskedFounded

\* Only the report of a failure sends a job into backoff, and the slot that Schedule
\* reads is the one that reports.
LEMMA OnlyReportsDelay ==
    ASSUME IInv, HInv, HNext, NEW j \in Jobs, job[j].st # "backoff", job'[j].st = "backoff"
    PROVE  LET s == Reporting(j) IN
           /\ s \in Slots /\ slot[s].seen \in 1..Retries
           /\ Retries - failures[j] <= slot[s].seen - 1
<1> USE RetriesIsPositive, NoJobIsNoJob
<1>1. PICK s \in Slots : Deliver(s) /\ job' # job
      <2>1. ASSUME NEW i \in Jobs, NEW s \in Slots, Activate(i, s) PROVE FALSE
            BY <2>1 DEF Activate, IInv, TypeOK
      <2>2. ASSUME NEW i \in Jobs, LockExpire(i) \/ BackoffElapse(i) PROVE FALSE
            BY <2>2 DEF LockExpire, BackoffElapse, IInv, TypeOK
      <2>3. job' # job
            OBVIOUS
      <2>4. ASSUME NEW s \in Slots,
                   Start(s) \/ CtxExpire(s) \/ SendExpired(s) \/ SendLost(s) \/ \E o \in Outcome : Finish(s, o)
            PROVE  FALSE
            BY <2>3, <2>4 DEF Start, CtxExpire, SendExpired, SendLost, Finish
      <2>5. ~Crash
            BY <2>3 DEF Crash
      <2>. QED  BY <2>1, <2>2, <2>3, <2>4, <2>5 DEF HNext, Next
<1> DEFINE k   == slot[s].job
           o   == slot[s].outcome
           new == Executed(Command(o), NewRetries(slot[s].seen), job[k])
<1>2. /\ k \in Jobs /\ o \in Outcome /\ slot[s].seen \in 1..Retries
      /\ slot[s].stage = "sending" /\ SlotFounded(s)
      BY <1>1 DEF Deliver, IInv, TypeOK, SlotType, HInv
<1>3. job' = [job EXCEPT ![k] = new] /\ job[k] \in [st : JobState, retries : 0..Retries]
      BY <1>1, <1>2 DEF Deliver, IInv, TypeOK
<1>4. k = j /\ new.st = "backoff"
      <2> HIDE DEF new, k
      <2>. QED  BY <1>2, <1>3 DEF IInv, TypeOK
<1>5. o \in Failed
      <2>1. job[k].st # "backoff"
            BY <1>4
      <2>2. o = "ok" => new.st = "completed"
            BY <1>3 DEF Executed, Command
      <2>3. o = "business" => new.st = "thrown"
            BY <1>3 DEF Executed, Command
      <2>. QED  BY <1>2, <1>4, <2>2, <2>3 DEF Failed
<1>6. Retries - failures[j] <= slot[s].seen - 1
      BY <1>2, <1>4, <1>5 DEF SlotFounded
<1>7. \A t \in Slots : t # s => slot'[t] = slot[t]
      BY <1>1 DEF Deliver, Release, IInv, TypeOK
<1>8. slot'[s].stage = "free"
      BY <1>1 DEF Deliver, Release, FreeSlot, IInv, TypeOK
<1>9. Reporting(j) = s
      <2>1. \A t \in Slots : (slot[t].job = j /\ slot[t].stage = "sending" /\ slot'[t].stage = "free") <=> t = s
            BY <1>2, <1>4, <1>7, <1>8
      <2>. QED  BY <2>1 DEF Reporting
<1>. QED  BY <1>2, <1>6, <1>9

\* Failures are counted and never forgotten.
LEMMA FailuresGrow ==
    ASSUME HInv, [HNext]_hvars, NEW j \in Jobs
    PROVE  failures[j] \in 0..Retries /\ failures'[j] \in Int /\ failures[j] <= failures'[j]
<1>1. failures[j] \in 0..Retries
      BY DEF HInv, HTypeOK
<1>2. CASE Record
      BY <1>1, <1>2, RetriesIsPositive DEF Record
<1>3. CASE UNCHANGED hvars
      BY <1>1, <1>3 DEF hvars
<1>. QED  BY <1>2, <1>3 DEF HNext

LEMMA StepAsked == IInv /\ HInv /\ AskedFounded /\ [SNext]_svars => AskedFounded'
<1> SUFFICES ASSUME IInv, HInv, AskedFounded, [SNext]_svars PROVE AskedFounded'
    OBVIOUS
<1>0. [HNext]_hvars
      BY DEF SNext, svars
<1>1. CASE HNext /\ Schedule
      <2>1. ASSUME NEW j \in Jobs
            PROVE  /\ asked'[j] \in 0..Retries
                   /\ job'[j].st = "backoff" => asked'[j] > 0 /\ Retries - failures'[j] <= asked'[j] - 1
            <3>0. /\ failures[j] \in 0..Retries /\ failures'[j] \in Int /\ failures[j] <= failures'[j]
                  /\ asked[j] \in 0..Retries
                  BY <1>0, FailuresGrow DEF AskedFounded
            <3>1. CASE job'[j].st # "backoff"
                  BY <1>1, <3>1, RetriesIsPositive DEF Schedule
            <3>2. CASE job'[j].st = "backoff" /\ job[j].st = "backoff"
                  BY <1>1, <3>0, <3>2, RetriesIsPositive DEF Schedule, AskedFounded
            <3>3. CASE job'[j].st = "backoff" /\ job[j].st # "backoff"
                  <4>1. /\ slot[Reporting(j)].seen \in 1..Retries
                        /\ Retries - failures[j] <= slot[Reporting(j)].seen - 1
                        BY <1>1, <3>3, OnlyReportsDelay
                  <4>2. asked'[j] = slot[Reporting(j)].seen
                        BY <1>1, <3>3 DEF Schedule
                  <4>. QED  BY <3>0, <4>1, <4>2, RetriesIsPositive
            <3>. QED  BY <3>1, <3>2, <3>3
      <2>2. asked' \in [Jobs -> 0..Retries]
            BY <1>1, <2>1 DEF Schedule
      <2>. QED  BY <2>1, <2>2 DEF AskedFounded
<1>2. CASE UNCHANGED svars
      BY <1>2 DEF svars, hvars, vars, AskedFounded
<1>. QED  BY <1>1, <1>2 DEF SNext

LEMMA FoundedWaits == HInv /\ AskedFounded => WaitsAsFailed
<1> SUFFICES ASSUME HInv, AskedFounded, NEW j \in Jobs, job[j].st = "backoff", NEW env \in Environments
             PROVE  LET b     == NewExponentialBackoff(Config(env))
                        wait  == AskedFor(Config(env), asked[j])
                        early == InitialRetries(Config(env)) - Retries
                        nth   == early + failures[j] - 1
                    IN  /\ wait \in 1..b.max
                        /\ wait <= b.initial * 2^(IF nth < 0 THEN 0 ELSE nth)
    BY DEF WaitsAsFailed
<1> DEFINE nth == InitialRetries(Config(env)) - Retries + failures[j] - 1
<1>1. /\ asked[j] \in 1..Retries /\ Retries - failures[j] <= asked[j] - 1
      /\ failures[j] \in 0..Retries
      BY RetriesIsPositive DEF AskedFounded, HInv, HTypeOK
<1>2. InitialRetries(Config(env)) \in Int
      BY UsableSettings, RetriesIsPositive, WordIsPositive
<1>3. nth \in Int /\ InitialRetries(Config(env)) - asked[j] <= nth
      BY <1>1, <1>2, RetriesIsPositive
<1> HIDE DEF nth
<1>4. /\ AskedFor(Config(env), asked[j]) \in 1..NewExponentialBackoff(Config(env)).max
      /\ AskedFor(Config(env), asked[j]) <=
             NewExponentialBackoff(Config(env)).initial * 2^(IF nth < 0 THEN 0 ELSE nth)
      BY <1>1, <1>3, IntervalBounds
<1>. QED  BY <1>4 DEF nth

\* However the reports of several executions of a job cross, it waits for its
\* failures only: within the cap, and no longer than its last failure allows.
THEOREM WaitsCorrect == SSpec => []WaitsAsFailed
<1>1. SInit => IInv /\ HInv /\ AskedFounded
      BY InitIInv, InitHInv, InitAsked DEF SInit, HInit
<1>2. (IInv /\ HInv /\ AskedFounded) /\ [SNext]_svars => (IInv /\ HInv /\ AskedFounded)'
      <2>1. [SNext]_svars => [HNext]_hvars /\ [Next]_vars
            BY DEF SNext, svars, HNext, hvars
      <2>. QED  BY <2>1, StepIInv, StepHInv, StepAsked
<1>. QED  BY <1>1, <1>2, FoundedWaits, PTL DEF SSpec

-----------------------------------------------------------------------------
(* The account of the retries                                               *)

Pairs     == Slots \X (1..Retries)
Row(s, m) == {s} \X (1..m)

\* Sets of pairs are counted: a row of m, added or taken away, makes a difference of m.
LEMMA PairsCount ==
    ASSUME NEW P \in SUBSET Pairs
    PROVE  IsFiniteSet(P) /\ Cardinality(P) \in Nat
<1>1. IsFiniteSet(1..Retries)
      BY RetriesIsPositive, FS_Interval
<1>2. IsFiniteSet(Pairs)
      BY <1>1, SlotsAreFinite, FS_Product, Zenon DEF Pairs
<1>3. IsFiniteSet(P)
      BY <1>2, FS_Subset
<1>. QED  BY <1>3, FS_CardinalityType

LEMMA RowCounts ==
    ASSUME NEW s, NEW m \in Nat PROVE IsFiniteSet(Row(s, m)) /\ Cardinality(Row(s, m)) = m
<1>1. IsFiniteSet(1..m) /\ Cardinality(1..m) = m
      BY FS_Interval
<1>2. IsFiniteSet({s}) /\ Cardinality({s}) = 1
      BY FS_Singleton
<1>3. IsFiniteSet(Row(s, m)) /\ Cardinality(Row(s, m)) = 1 * m
      BY <1>1, <1>2, FS_Product DEF Row
<1>. QED  BY <1>3

LEMMA RowAdded ==
    ASSUME NEW P \in SUBSET Pairs, NEW Q \in SUBSET Pairs, NEW s, NEW m \in Nat,
           Q \subseteq P \cup Row(s, m)
    PROVE  Cardinality(Q) <= Cardinality(P) + m
<1>0. IsFiniteSet(P) /\ IsFiniteSet(Row(s, m)) /\ Cardinality(Row(s, m)) = m
      BY PairsCount, RowCounts
<1>1. /\ IsFiniteSet(P \cup Row(s, m))
      /\ Cardinality(P \cup Row(s, m)) =
             Cardinality(P) + Cardinality(Row(s, m)) - Cardinality(P \cap Row(s, m))
      BY <1>0, FS_Union, Zenon
<1>2. Cardinality(P \cap Row(s, m)) \in Nat
      BY PairsCount, FS_Intersection, FS_CardinalityType
<1>3. Cardinality(Q) <= Cardinality(P \cup Row(s, m))
      BY <1>1, FS_Subset
<1>. QED  BY <1>0, <1>1, <1>2, <1>3, PairsCount

LEMMA RowTaken ==
    ASSUME NEW P \in SUBSET Pairs, NEW Q \in SUBSET Pairs, NEW s, NEW m \in Nat,
           Row(s, m) \subseteq P, Q \subseteq P \ Row(s, m)
    PROVE  Cardinality(Q) <= Cardinality(P) - m
<1>1. P \cap Row(s, m) = Row(s, m)
      OBVIOUS
<1>2. IsFiniteSet(P)
      BY PairsCount
<1>3. /\ IsFiniteSet(P \ Row(s, m))
      /\ Cardinality(P \ Row(s, m)) = Cardinality(P) - Cardinality(P \cap Row(s, m))
      BY <1>2, FS_Difference, Zenon
<1>4. Cardinality(P \cap Row(s, m)) = m
      BY <1>1, RowCounts
<1>5. Cardinality(Q) <= Cardinality(P \ Row(s, m))
      BY <1>3, FS_Subset
<1>. QED  BY <1>3, <1>4, <1>5

\* The retries that reports from copies of j can give back, but for the copy that the
\* slots in `holders` have of it.
Copies(j, holders) == {p \in Pairs : /\ p[1] \notin holders /\ slot[p[1]].job = j
                                     /\ p[2] < slot[p[1]].seen}

\* The slot that holds the lock of j, if there is one, has a copy as the job still is.
Holds(j, holders) ==
    \/ holders = {}
    \/ /\ job[j].st = "activated"
       /\ \E s \in Slots : holders = {s} /\ slot[s].job = j /\ slot[s].seen = job[j].retries

Live(j) == job[j].st \in {"activatable", "activated", "backoff"}

Granted(e) == Retries + (Retries - 1) * e

\* What was spent, what is left and what may be given back is what was granted.
Balanced(j) ==
    /\ spent[j] + job[j].retries <= Granted(expired[j])
    /\ Live(j) => \E holders \in SUBSET Slots :
           /\ Holds(j, holders)
           /\ spent[j] + job[j].retries + Cardinality(Copies(j, holders)) <= Granted(expired[j])

BudgetInv == /\ spent \in [Jobs -> Nat] /\ expired \in [Jobs -> Nat]
             /\ \A j \in Jobs : Followed(j) => Balanced(j)

LEMMA GrantedGrows ==
    ASSUME NEW e \in Nat
    PROVE  Granted(e) \in Int /\ Granted(e + 1) = Granted(e) + (Retries - 1)
BY RetriesIsPositive DEF Granted

LEMMA CopiesArePairs == ASSUME NEW j, NEW holders PROVE Copies(j, holders) \in SUBSET Pairs
BY DEF Copies

LEMMA InitBudget == BInit => BudgetInv
<1> SUFFICES ASSUME BInit PROVE BudgetInv
    OBVIOUS
<1>1. \A s \in Slots : slot[s].job = NoJob
      BY DEF BInit, SInit, HInit, Init, FreeSlot
<1>2. ASSUME NEW j \in Jobs PROVE Balanced(j)
      <2>1. Copies(j, {}) = {}
            BY <1>1, NoJobIsNoJob DEF Copies, Pairs
      <2>2. Cardinality(Copies(j, {})) = 0
            BY <2>1, FS_EmptySet
      <2>3. spent[j] = 0 /\ job[j].retries = Retries /\ expired[j] = 0 /\ Granted(0) = Retries
            BY RetriesIsPositive DEF BInit, SInit, HInit, Init, Granted
      <2>4. Holds(j, {})
            BY DEF Holds
      <2>. QED  BY <2>2, <2>3, <2>4, RetriesIsPositive DEF Balanced
<1>. QED  BY <1>2 DEF BInit, BudgetInv

\* The account of a step that neither reports a failure nor ends a lock, and that of
\* one in which no lock of j expires.
LEMMA AccountQuiet ==
    ASSUME BudgetInv, Account, NEW j \in Jobs, Followed(j)', ~Expiring(j)
    PROVE  /\ Followed(j) /\ Balanced(j) /\ expired'[j] = expired[j]
           /\ expired[j] \in Nat /\ spent[j] \in Nat
           /\ spent'[j] = IF Reported(j) THEN spent[j] + 1 ELSE spent[j]
BY DEF BudgetInv, Account, Followed

\* Nothing is reported of j and none of its locks expires: copies of it only vanish.
LEMMA CopiesVanish ==
    ASSUME IInv, BudgetInv, Account, NEW j \in Jobs, Followed(j)',
           job'[j].retries = job[j].retries,
           \/ job'[j].st = job[j].st
           \/ job[j].st = "backoff" /\ job'[j].st = "activatable",
           \A s \in Slots : slot'[s].job = j => slot[s].job = j /\ slot'[s].seen = slot[s].seen
    PROVE  Balanced(j)'
<1>1. ~Reported(j) /\ ~Expiring(j)
      BY DEF Reported, Expiring
<1>2. /\ Balanced(j) /\ spent'[j] = spent[j] /\ expired'[j] = expired[j]
      /\ spent[j] \in Nat /\ expired[j] \in Nat /\ job[j].retries \in Nat
      BY <1>1, AccountQuiet, RetriesIsPositive DEF IInv, TypeOK
<1>3. ASSUME Live(j)'
      PROVE  \E holders \in SUBSET Slots :
                 /\ Holds(j, holders)'
                 /\ spent[j] + job[j].retries + Cardinality(Copies(j, holders)') <= Granted(expired[j])
      <2>1. Live(j)
            BY <1>3 DEF Live
      <2>2. PICK old \in SUBSET Slots :
                /\ Holds(j, old)
                /\ spent[j] + job[j].retries + Cardinality(Copies(j, old)) <= Granted(expired[j])
            BY <1>2, <2>1 DEF Balanced
      <2>0. PICK new \in SUBSET Slots : new = {s \in old : slot'[s].job = j}
            OBVIOUS
      <2>3. Holds(j, new)'
            <3>1. CASE old = {}
                  BY <2>0, <3>1 DEF Holds
            <3>2. CASE old # {}
                  <4>1. PICK s \in Slots : old = {s} /\ slot[s].job = j /\ slot[s].seen = job[j].retries
                        BY <2>2, <3>2 DEF Holds
                  <4>2. job'[j].st = "activated"
                        BY <2>2, <3>2 DEF Holds
                  <4>3. CASE slot'[s].job = j
                        <5>1. new = {s} /\ slot'[s].seen = job'[j].retries
                              BY <2>0, <4>1, <4>3
                        <5>. QED  BY <4>2, <4>3, <5>1 DEF Holds
                  <4>4. CASE slot'[s].job # j
                        BY <2>0, <4>1, <4>4 DEF Holds
                  <4>. QED  BY <4>3, <4>4
            <3>. QED  BY <3>1, <3>2
      <2>4. Copies(j, new)' \subseteq Copies(j, old)
            BY <2>0 DEF Copies, Pairs
      <2>5. Copies(j, old) \in SUBSET Pairs /\ Copies(j, new)' \in SUBSET Pairs
            BY DEF Copies
      <2>6. /\ Cardinality(Copies(j, new)') <= Cardinality(Copies(j, old))
            /\ Cardinality(Copies(j, new)') \in Nat /\ Cardinality(Copies(j, old)) \in Nat
            BY <2>4, <2>5, PairsCount, FS_Subset
      <2>7. Granted(expired[j]) \in Int
            BY <1>2, GrantedGrows
      <2>8. spent[j] + job[j].retries + Cardinality(Copies(j, new)') <= Granted(expired[j])
            BY <1>2, <2>2, <2>6, <2>7
      <2>. QED  BY <2>3, <2>8
<1>. QED  BY <1>2, <1>3 DEF Balanced

\* The job is handed out: the slot that holds its lock has a copy as it is.
LEMMA HandedOut ==
    ASSUME IInv, BudgetInv, Account, NEW j \in Jobs, NEW s \in Slots, Activate(j, s), Followed(j)'
    PROVE  Balanced(j)'
<1>1. /\ job[j].st = "activatable" /\ job'[j].st = "activated" /\ job'[j].retries = job[j].retries
      /\ job[j].retries \in Nat
      BY RetriesIsPositive DEF Activate, IInv, TypeOK
<1>2. /\ slot'[s].job = j /\ slot'[s].seen = job[j].retries
      /\ \A t \in Slots : t # s => slot'[t] = slot[t]
      BY DEF Activate, IInv, TypeOK
<1>3. ~Reported(j) /\ ~Expiring(j)
      BY <1>1 DEF Reported, Expiring
<1>4. /\ Balanced(j) /\ spent'[j] = spent[j] /\ expired'[j] = expired[j]
      /\ spent[j] \in Nat /\ expired[j] \in Nat
      BY <1>3, AccountQuiet
<1>5. PICK old \in SUBSET Slots :
          /\ Holds(j, old)
          /\ spent[j] + job[j].retries + Cardinality(Copies(j, old)) <= Granted(expired[j])
      BY <1>1, <1>4 DEF Balanced, Live
<1>6. old = {}
      BY <1>1, <1>5 DEF Holds
<1>7. Copies(j, {s})' \subseteq Copies(j, old)
      BY <1>2, <1>6 DEF Copies, Pairs
<1>8. /\ Cardinality(Copies(j, {s})') <= Cardinality(Copies(j, old))
      /\ Cardinality(Copies(j, {s})') \in Nat /\ Cardinality(Copies(j, old)) \in Nat
      <2>1. Copies(j, old) \in SUBSET Pairs /\ Copies(j, {s})' \in SUBSET Pairs
            BY DEF Copies
      <2>. QED  BY <1>7, <2>1, PairsCount, FS_Subset
<1>9. Granted(expired[j]) \in Int
      BY <1>4, GrantedGrows
<1>10. spent'[j] + job'[j].retries + Cardinality(Copies(j, {s})') <= Granted(expired'[j])
      BY <1>1, <1>4, <1>5, <1>8, <1>9
<1>11. Holds(j, {s})'
      BY <1>1, <1>2 DEF Holds
<1>12. spent'[j] + job'[j].retries <= Granted(expired'[j])
      BY <1>1, <1>4, <1>8, <1>9, <1>10
<1>. QED  BY <1>10, <1>11, <1>12 DEF Balanced

\* The lock expires: the slot that held it may give back what it holds, but for one.
LEMMA LockEnds ==
    ASSUME IInv, BudgetInv, Account, NEW j \in Jobs, LockExpire(j), Followed(j)'
    PROVE  Balanced(j)'
<1>1. /\ job[j].st = "activated" /\ job'[j].st = "activatable" /\ job'[j].retries = job[j].retries
      /\ job[j].retries \in 1..Retries /\ slot' = slot
      BY RetriesIsPositive DEF LockExpire, IInv, TypeOK, IncidentIffExhausted
<1>2. Expiring(j) /\ ~Reported(j)
      BY <1>1 DEF Expiring, Reported
<1>3. /\ Balanced(j) /\ spent'[j] = spent[j] /\ expired'[j] = expired[j] + 1
      /\ spent[j] \in Nat /\ expired[j] \in Nat
      BY <1>2 DEF BudgetInv, Account, Followed
<1>4. PICK old \in SUBSET Slots :
          /\ Holds(j, old)
          /\ spent[j] + job[j].retries + Cardinality(Copies(j, old)) <= Granted(expired[j])
      BY <1>1, <1>3 DEF Balanced, Live
<1>5. PICK s : Copies(j, {}) \subseteq Copies(j, old) \cup Row(s, job[j].retries - 1)
      <2>1. CASE old = {}
            BY <2>1
      <2>2. ASSUME NEW s \in Slots, old = {s}, slot[s].seen = job[j].retries
            PROVE  Copies(j, {}) \subseteq Copies(j, old) \cup Row(s, job[j].retries - 1)
            <3>1. ASSUME NEW p \in Copies(j, {}), p \notin Copies(j, old) PROVE p \in Row(s, job[j].retries - 1)
                  <4>1. /\ p \in Pairs /\ p[1] = s /\ p[2] < job[j].retries /\ p[2] \in 1..Retries
                        BY <2>2, <3>1 DEF Copies, Pairs
                  <4>2. p = <<s, p[2]>> /\ p[2] \in 1..(job[j].retries - 1)
                        BY <1>1, <4>1, RetriesIsPositive DEF Pairs
                  <4>. QED  BY <4>2 DEF Row
            <3>. QED  BY <3>1
      <2>. QED  BY <1>4, <2>1, <2>2 DEF Holds
<1>6. Copies(j, {})' = Copies(j, {})
      BY <1>1 DEF Copies
<1>7. Cardinality(Copies(j, {})) <= Cardinality(Copies(j, old)) + (job[j].retries - 1)
      <2>1. job[j].retries - 1 \in Nat
            BY <1>1, RetriesIsPositive
      <2>. QED  BY <1>5, <2>1, CopiesArePairs, RowAdded
<1>8. Cardinality(Copies(j, {})) \in Nat /\ Cardinality(Copies(j, old)) \in Nat
      BY CopiesArePairs, PairsCount
<1>9. Granted(expired[j]) \in Int /\ Granted(expired'[j]) = Granted(expired[j]) + (Retries - 1)
      BY <1>3, GrantedGrows
<1>10. spent'[j] + job'[j].retries + Cardinality(Copies(j, {})') <= Granted(expired'[j])
      BY <1>1, <1>3, <1>4, <1>6, <1>7, <1>8, <1>9, RetriesIsPositive
<1>11. spent'[j] + job'[j].retries <= Granted(expired'[j])
      BY <1>1, <1>3, <1>6, <1>8, <1>9, <1>10, RetriesIsPositive
<1>. QED  BY <1>10, <1>11 DEF Balanced, Holds

\* What a report of a failure from slot s leaves to be given back: its own copy is
\* gone, and another slot that held the lock now holds an old copy.
LEMMA CopiesAfterReport ==
    ASSUME IInv, NEW j \in Jobs, NEW s \in Slots, NEW old \in SUBSET Slots, Holds(j, old),
           slot[s].job = j, slot[s].seen \in 1..Retries, job[j].retries \in 1..Retries,
           slot' = [slot EXCEPT ![s] = FreeSlot]
    PROVE  slot[s].seen + Cardinality(Copies(j, {})')
               <= job[j].retries + Cardinality(Copies(j, old))
<1> DEFINE left == Copies(j, {})'
           q    == slot[s].seen
           r    == job[j].retries
<1>1. \A p \in left : p \in Pairs /\ p[1] # s /\ slot[p[1]].job = j /\ p[2] < slot[p[1]].seen
      BY NoJobIsNoJob DEF Copies, Pairs, FreeSlot, IInv, TypeOK
<1>2. left \in SUBSET Pairs /\ Copies(j, old) \in SUBSET Pairs
      BY DEF Copies
<1>3. Cardinality(left) \in Nat /\ Cardinality(Copies(j, old)) \in Nat
      BY <1>2, PairsCount
<1>4. q - 1 \in Nat /\ r - 1 \in Nat /\ q \in Int /\ r \in Int
      BY RetriesIsPositive
<1>5. CASE s \in old
      <2>1. old = {s} /\ q = r
            BY <1>5 DEF Holds
      <2>2. left \subseteq Copies(j, old)
            BY <1>1, <2>1 DEF Copies
      <2>3. Cardinality(left) <= Cardinality(Copies(j, old))
            <3>1. IsFiniteSet(Copies(j, old))
                  BY <1>2, PairsCount
            <3> HIDE DEF left
            <3>. QED  BY <2>2, <3>1, FS_Subset
      <2>. QED  BY <1>3, <1>4, <2>1, <2>3
<1>6. CASE s \notin old
      <2> DEFINE kept == Copies(j, old) \ Row(s, q - 1)
      <2>1. Row(s, q - 1) \subseteq Copies(j, old)
            BY <1>4, <1>6, RetriesIsPositive DEF Row, Copies, Pairs
      <2>2. kept \in SUBSET Pairs
            BY <1>2
      <2>3. Cardinality(kept) <= Cardinality(Copies(j, old)) - (q - 1)
            <3>1. kept \subseteq Copies(j, old) \ Row(s, q - 1)
                  OBVIOUS
            <3> HIDE DEF left, q, kept
            <3>. QED  BY <1>2, <1>4, <2>1, <2>2, <3>1, RowTaken
      <2>4. Cardinality(kept) \in Nat
            BY <2>2, PairsCount
      <2>5. PICK f : left \subseteq kept \cup Row(f, r - 1)
            <3>1. ASSUME NEW p \in left, p[1] \notin old PROVE p \in kept
                  BY <1>1, <3>1 DEF Copies, Row
            <3>2. ASSUME NEW f \in Slots, old = {f}, slot[f].seen = r, NEW p \in left, p[1] \in old
                  PROVE  p \in Row(f, r - 1)
                  <4>1. p \in Pairs /\ p[1] = f /\ p[2] < r
                        BY <1>1, <3>2
                  <4>2. p = <<f, p[2]>> /\ p[2] \in 1..(r - 1)
                        BY <1>4, <4>1, RetriesIsPositive DEF Pairs
                  <4>. QED  BY <4>2 DEF Row
            <3> HIDE DEF left, kept, r
            <3>3. CASE old = {}
                  BY <3>1, <3>3
            <3>4. CASE old # {}
                  <4>1. PICK f \in Slots : old = {f} /\ slot[f].seen = r
                        BY <3>4 DEF Holds, r
                  <4>. QED  BY <3>1, <3>2, <4>1
            <3>. QED  BY <3>3, <3>4
      <2>6. Cardinality(left) <= Cardinality(kept) + (r - 1)
            <3> HIDE DEF left, kept, r
            <3>. QED  BY <1>2, <1>4, <2>2, <2>5, RowAdded
      <2> HIDE DEF kept
      <2>. QED  BY <1>3, <1>4, <2>3, <2>4, <2>6
<1>. QED  BY <1>5, <1>6

\* A command is executed: a report of a failure costs a retry, be the copy it was made
\* from old or not; the others settle the job.
LEMMA CommandExecuted ==
    ASSUME IInv, BudgetInv, Account, NEW s \in Slots, NEW j \in Jobs, slot[s].job = j,
           Deliver(s), Accepts(j), job' # job, Followed(j)'
    PROVE  Balanced(j)'
<1> DEFINE q   == slot[s].seen
           cmd == Command(slot[s].outcome)
           new == Executed(cmd, NewRetries(q), job[j])
<1>1. /\ q \in 1..Retries /\ job[j].retries \in 1..Retries
      /\ job[j].st \in {"activatable", "activated"}
      /\ slot' = [slot EXCEPT ![s] = FreeSlot]
      BY RetriesIsPositive DEF Deliver, Accepts, Release, IInv, TypeOK, SlotType, IncidentIffExhausted
<1>2. job'[j] = new
      BY DEF Deliver, IInv, TypeOK
<1>3. job[j] \in [st : JobState, retries : 0..Retries]
      BY DEF IInv, TypeOK
<1>4. CASE cmd \in {"complete", "throw"}
      <2>1. job'[j].retries = job[j].retries /\ job'[j].st \in {"completed", "thrown"}
            BY <1>2, <1>3, <1>4 DEF Executed
      <2>2. ~Reported(j) /\ ~Expiring(j) /\ ~Live(j)'
            BY <2>1 DEF Reported, Expiring, Live
      <2>3. Balanced(j) /\ spent'[j] = spent[j] /\ expired'[j] = expired[j]
            BY <2>2, AccountQuiet
      <2>. QED  BY <2>1, <2>2, <2>3 DEF Balanced
<1>5. CASE cmd \notin {"complete", "throw"}
      <2>1. job'[j].retries = q - 1 /\ job'[j].st \in {"backoff", "incident"}
            BY <1>1, <1>2, <1>5, RetriesIsPositive DEF Executed, NewRetries
      <2>2. Reported(j) /\ ~Expiring(j)
            BY <1>1, <2>1 DEF Reported, Expiring
      <2>3. /\ Balanced(j) /\ spent'[j] = spent[j] + 1 /\ expired'[j] = expired[j]
            /\ spent[j] \in Nat /\ expired[j] \in Nat
            BY <2>2, AccountQuiet
      <2>4. PICK old \in SUBSET Slots :
                /\ Holds(j, old)
                /\ spent[j] + job[j].retries + Cardinality(Copies(j, old)) <= Granted(expired[j])
            BY <1>1, <2>3 DEF Balanced, Live
      <2>5. q + Cardinality(Copies(j, {})') <= job[j].retries + Cardinality(Copies(j, old))
            BY <1>1, <2>4, CopiesAfterReport
      <2>6. Cardinality(Copies(j, {})') \in Nat /\ Cardinality(Copies(j, old)) \in Nat
            <3>1. Copies(j, old) \in SUBSET Pairs /\ Copies(j, {})' \in SUBSET Pairs
                  BY DEF Copies
            <3>. QED  BY <3>1, PairsCount
      <2>7. Granted(expired[j]) \in Int /\ q \in Nat /\ job[j].retries \in Nat
            BY <1>1, <2>3, GrantedGrows, RetriesIsPositive
      <2>8. spent'[j] + job'[j].retries + Cardinality(Copies(j, {})') <= Granted(expired'[j])
            BY <2>1, <2>3, <2>4, <2>5, <2>6, <2>7
      <2>9. spent'[j] + job'[j].retries <= Granted(expired'[j])
            BY <2>1, <2>3, <2>6, <2>7, <2>8
      <2>. QED  BY <2>8, <2>9 DEF Balanced, Holds
<1>. QED  BY <1>4, <1>5

LEMMA StepBudget == IInv /\ BudgetInv /\ [BNext]_bvars => BudgetInv'
<1> SUFFICES ASSUME IInv, BudgetInv, [BNext]_bvars PROVE BudgetInv'
    OBVIOUS
<1>1. CASE UNCHANGED bvars
      <2>1. UNCHANGED <<job, slot, spent, expired>>
            BY <1>1 DEF bvars, svars, hvars, vars
      <2>2. ASSUME NEW j, NEW holders
            PROVE  Copies(j, holders)' = Copies(j, holders) /\ Holds(j, holders)' = Holds(j, holders)
            BY <2>1 DEF Copies, Holds
      <2>3. ASSUME NEW j PROVE Balanced(j)' = Balanced(j) /\ Followed(j)' = Followed(j)
            BY <2>1, <2>2 DEF Balanced, Followed, Live
      <2>. QED  BY <2>1, <2>3 DEF BudgetInv
<1>2. ASSUME Next, Account PROVE BudgetInv'
      <2> USE <1>2
      <2>1. spent' \in [Jobs -> Nat] /\ expired' \in [Jobs -> Nat]
            BY DEF BudgetInv, Account
      <2>2. ASSUME NEW j \in Jobs, Followed(j)' PROVE Balanced(j)'
            <3> USE <2>2
            <3>0. NoJob # j
                  BY NoJobIsNoJob
            <3>1. ASSUME NEW i \in Jobs, NEW s \in Slots, Activate(i, s) PROVE Balanced(j)'
                  <4>1. CASE i = j
                        BY <3>1, <4>1, HandedOut
                  <4>2. CASE i # j
                        BY <3>1, <4>2, CopiesVanish DEF Activate, IInv, TypeOK
                  <4>. QED  BY <4>1, <4>2
            <3>2. ASSUME NEW i \in Jobs, LockExpire(i) PROVE Balanced(j)'
                  <4>1. CASE i = j
                        BY <3>2, <4>1, LockEnds
                  <4>2. CASE i # j
                        BY <3>2, <4>2, CopiesVanish DEF LockExpire, IInv, TypeOK
                  <4>. QED  BY <4>1, <4>2
            <3>3. ASSUME NEW i \in Jobs, BackoffElapse(i) PROVE Balanced(j)'
                  BY <3>3, CopiesVanish DEF BackoffElapse, IInv, TypeOK
            <3>4. ASSUME NEW s \in Slots, Start(s) \/ CtxExpire(s) \/ \E o \in Outcome : Finish(s, o)
                  PROVE  Balanced(j)'
                  BY <3>4, CopiesVanish DEF Start, CtxExpire, Finish, IInv, TypeOK, SlotType
            <3>5. ASSUME NEW s \in Slots, Deliver(s) PROVE Balanced(j)'
                  <4>1. CASE slot[s].job = j /\ Accepts(j) /\ job' # job
                        BY <3>5, <4>1, CommandExecuted
                  <4>2. CASE job'[j] = job[j]
                        BY <3>0, <3>5, <4>2, CopiesVanish DEF Deliver, Release, FreeSlot, IInv, TypeOK
                  <4>3. (slot[s].job = j /\ Accepts(j) /\ job' # job) \/ job'[j] = job[j]
                        BY <3>5 DEF Deliver, IInv, TypeOK
                  <4>. QED  BY <4>1, <4>2, <4>3
            <3>6. ASSUME NEW s \in Slots, SendExpired(s) \/ SendLost(s) PROVE Balanced(j)'
                  BY <3>0, <3>6, CopiesVanish DEF SendExpired, SendLost, Release, FreeSlot, IInv, TypeOK
            <3>7. CASE Crash
                  BY <3>0, <3>7, CopiesVanish DEF Crash, FreeSlot
            <3>. QED  BY <3>1, <3>2, <3>3, <3>4, <3>5, <3>6, <3>7 DEF Next
      <2>. QED  BY <2>1, <2>2 DEF BudgetInv
<1>. QED  BY <1>1, <1>2 DEF BNext, SNext, HNext

\* However many slots report on a job from copies of whatever age, it fails at most as
\* often as its retries and the locks that expired allow.
THEOREM RetriesSpentCorrect == BSpec => []RetriesAreSpent
<1>1. BInit => IInv /\ BudgetInv
      BY InitIInv, InitBudget DEF BInit, SInit, HInit
<1>2. (IInv /\ BudgetInv) /\ [BNext]_bvars => (IInv /\ BudgetInv)'
      <2>1. [BNext]_bvars => [Next]_vars
            BY DEF BNext, bvars, SNext, svars, HNext, hvars
      <2>. QED  BY <2>1, StepIInv, StepBudget
<1>3. BudgetInv => RetriesAreSpent
      BY DEF BudgetInv, Balanced, Granted, RetriesAreSpent
<1>. QED  BY <1>1, <1>2, <1>3, PTL DEF BSpec
=============================================================================
