--------------------------- MODULE OutboundProofs ---------------------------
(***************************************************************************)
(* Outbound proved for every set of messages, workers and mailboxes, every *)
(* calendar and every table of limits: its types, that a message gets to   *)
(* the relay once per request and not without being charged, and that the  *)
(* send counters are exact and their limits hold.                          *)
(***************************************************************************)
EXTENDS Outbound, FiniteSetTheorems, TLAPS

-----------------------------------------------------------------------------
(* Types.                                                                   *)

\* A worker at any step has a message.
LEMMA WorkingType ==
    ASSUME TypeOK, NEW w \in Workers, work[w].step # "idle"
    PROVE  work[w] \in Jobs
BY DEF TypeOK, NoWork

LEMMA GoToType ==
    ASSUME TypeOK, NEW w \in Workers, work[w].step # "idle", NEW step \in Steps, GoTo(w, step)
    PROVE  work' \in [Workers -> Jobs \cup {NoWork}]
<1>1. work[w] \in Jobs
    BY WorkingType
<1>2. [work[w] EXCEPT !.step = step] \in Jobs
    BY <1>1 DEF Jobs
<1>3. work' = [work EXCEPT ![w] = [work[w] EXCEPT !.step = step]]
    BY DEF GoTo
<1> QED
    BY <1>2, <1>3 DEF TypeOK

LEMMA AssignType ==
    ASSUME TypeOK, NEW w \in Workers, NEW e \in Mails, NEW step \in Steps,
           NEW read \in Nat, Assign(w, e, step, read)
    PROVE  work' \in [Workers -> Jobs \cup {NoWork}]
BY DEF TypeOK, Assign, Jobs

LEMMA FinishType ==
    ASSUME TypeOK, NEW w \in Workers, Finish(w)
    PROVE  work' \in [Workers -> Jobs \cup {NoWork}]
BY DEF TypeOK, Finish

LEMMA ReserveType ==
    ASSUME TypeOK, NEW e \in Mails, Reserve(e)
    PROVE  /\ usage' \in [Counters -> Nat]
           /\ reservedOn' \in [Mails -> Days \cup {0}]
<1>1. \A c \in Counters : usage[c] + (IF c \in Charged(e, day) THEN 1 ELSE 0) \in Nat
    BY DEF TypeOK
<1> QED
    BY <1>1 DEF Reserve, TypeOK

LEMMA TypeInit == Init => TypeOK
BY OutboundAssumption DEF Init, TypeOK, Days, Statuses

LEMMA TypeAsk ==
    ASSUME TypeOK, NEW w \in Requests, Ask(w)
    PROVE  TypeOK'
<1> USE DEF history, Steps
<1>w. w \in Workers
    BY DEF Workers
<1>1. ASSUME NEW e \in Mails, Send(w, e) PROVE TypeOK'
    <2>1. work' \in [Workers -> Jobs \cup {NoWork}]
        BY <1>1, <1>w, AssignType DEF Send
    <2> QED
        BY <1>1, <2>1, ReserveType DEF Send, TypeOK, Statuses
<1>2. ASSUME NEW e \in Mails, Schedule(w, e) PROVE TypeOK'
    BY <1>2 DEF Schedule, TypeOK, Statuses
<1>3. ASSUME NEW e \in Mails, Submit(w, e) PROVE TypeOK'
    <2>1. work' \in [Workers -> Jobs \cup {NoWork}]
        BY <1>3, <1>w, AssignType DEF Submit
    <2> QED
        BY <1>3, <2>1, ReserveType DEF Submit, TypeOK, Statuses
<1>4. ASSUME NEW e \in Mails, ReadForResend(w, e) PROVE TypeOK'
    <2>1. attempts[e] \in Nat
        BY DEF TypeOK
    <2>2. work' \in [Workers -> Jobs \cup {NoWork}]
        BY <1>4, <1>w, <2>1, AssignType DEF ReadForResend
    <2> QED
        BY <1>4, <2>2 DEF ReadForResend, TypeOK
<1> QED
    BY <1>1, <1>2, <1>3, <1>4 DEF Ask

LEMMA TypeRunScheduler ==
    ASSUME TypeOK, NEW p \in Schedulers, RunScheduler(p)
    PROVE  TypeOK'
<1> USE DEF history, Steps
<1>w. p \in Workers
    BY DEF Workers
<1>1. CASE ListDue(p)
    BY <1>1 DEF ListDue, TypeOK
<1>2. ASSUME NEW e \in Mails, Claim(p, e) PROVE TypeOK'
    <2>1. work' \in [Workers -> Jobs \cup {NoWork}]
        BY <1>2, <1>w, AssignType DEF Claim
    <2>2. due' \in [Schedulers -> SUBSET Scheduled]
        BY <1>2 DEF Claim, TypeOK
    <2> QED
        BY <1>2, <2>1, <2>2, ReserveType DEF Claim, TypeOK, Statuses
<1>3. ASSUME NEW e \in Mails, Skip(p, e) PROVE TypeOK'
    BY <1>3 DEF Skip, TypeOK
<1> QED
    BY <1>1, <1>2, <1>3 DEF RunScheduler

LEMMA TypeDeliver ==
    ASSUME TypeOK, NEW w \in Workers, Deliver(w)
    PROVE  TypeOK'
<1> USE DEF history, Steps
<1>1. CASE PassQuota(w)
    BY <1>1, GoToType DEF PassQuota, TypeOK
<1>2. CASE QuotaFails(w)
    BY <1>2, FinishType DEF QuotaFails, TypeOK
<1>3. CASE DeliverLocally(w)
    BY <1>3, GoToType DEF DeliverLocally, TypeOK
<1>4. CASE StayLocal(w)
    BY <1>4, FinishType DEF StayLocal, TypeOK
<1>5. CASE MarkResend(w)
    <2>1. work[w] \in Jobs
        BY <1>5, WorkingType DEF MarkResend
    <2>2. work[w].mail \in Mails /\ work[w].read + 1 \in Nat
        BY <2>1 DEF Jobs
    <2>3. work' \in [Workers -> Jobs \cup {NoWork}]
        BY <1>5, GoToType DEF MarkResend
    <2> QED
        BY <1>5, <2>2, <2>3 DEF MarkResend, TypeOK, Statuses
<1>6. CASE RelayAccepts(w)
    <2>1. work[w].mail \in Mails
        BY <1>6, WorkingType DEF RelayAccepts, CallRelay, Jobs
    <2>2. work' \in [Workers -> Jobs \cup {NoWork}]
        BY <1>6, GoToType DEF RelayAccepts, CallRelay
    <2> QED
        BY <1>6, <2>1, <2>2 DEF RelayAccepts, CallRelay, TypeOK
<1>7. CASE RelayFails(w)
    <2>1. work[w].mail \in Mails
        BY <1>7, WorkingType DEF RelayFails, CallRelay, Jobs
    <2>2. work' \in [Workers -> Jobs \cup {NoWork}]
        BY <1>7, GoToType DEF RelayFails, CallRelay
    <2> QED
        BY <1>7, <2>1, <2>2 DEF RelayFails, CallRelay, TypeOK
<1>8. CASE Record(w)
    BY <1>8, FinishType DEF Record, TypeOK, Statuses
<1>9. CASE StatusFails(w)
    BY <1>9, FinishType DEF StatusFails, TypeOK
<1> QED
    BY <1>1, <1>2, <1>3, <1>4, <1>5, <1>6, <1>7, <1>8, <1>9 DEF Deliver

LEMMA TypeStep == TypeOK /\ [Next]_vars => TypeOK'
<1> SUFFICES ASSUME TypeOK, [Next]_vars PROVE TypeOK'
    OBVIOUS
<1> USE DEF history
<1>1. CASE NewDay
    BY <1>1, OutboundAssumption DEF NewDay, TypeOK, Days
<1>2. CASE PurgeUsage
    BY <1>2 DEF PurgeUsage, TypeOK
<1>3. ASSUME NEW w \in Requests, Ask(w) PROVE TypeOK'
    BY <1>3, TypeAsk
<1>4. ASSUME NEW p \in Schedulers, RunScheduler(p) PROVE TypeOK'
    BY <1>4, TypeRunScheduler
<1>5. ASSUME NEW w \in Workers, Deliver(w) PROVE TypeOK'
    BY <1>5, TypeDeliver
<1>6. ASSUME NEW w \in Workers, Crash(w) PROVE TypeOK'
    BY <1>6, FinishType DEF Crash, TypeOK
<1>7. CASE UNCHANGED vars
    BY <1>7 DEF vars, TypeOK
<1> QED
    BY <1>1, <1>2, <1>3, <1>4, <1>5, <1>6, <1>7 DEF Next

\* Every reachable state of the model is well typed.
THEOREM TypeCorrect == Spec => []TypeOK
<1> QED
    BY TypeInit, TypeStep, PTL DEF Spec

-----------------------------------------------------------------------------
(* Calls of the relay.                                                      *)

\* Steps from which a worker may still call the relay.
OpenSteps == {"stored", "local", "read", "ready"}

\* Workers that have yet to call the relay for e.
Trying(e) == {w \in Workers : work[w].step \in OpenSteps /\ work[w].mail = e}

Paid(e) == IF reservedOn[e] # 0 THEN 1 ELSE 0

\* The calls made and the calls to come are asked for: one by the reservation,
\* the others by a resend each.
CallsAreAsked ==
    \A e \in Mails : calls[e] + Cardinality(Trying(e)) <= resends[e] + Paid(e)

\* Messages that nobody has begun to send are not charged.
WaitingIsFree ==
    \A e \in Mails : status[e] \in {"new", "scheduled"} => reservedOn[e] = 0

LEMMA TryingFinite ==
    ASSUME NEW e
    PROVE  /\ IsFiniteSet(Trying(e)) /\ Cardinality(Trying(e)) \in Nat
           /\ IsFiniteSet(Trying(e)') /\ Cardinality(Trying(e)') \in Nat
<1>1. IsFiniteSet(Workers)
    BY OutboundAssumption, FS_Union DEF Workers
<1>2. Trying(e) \in SUBSET Workers /\ Trying(e)' \in SUBSET Workers
    BY DEF Trying
<1>3. IsFiniteSet(Trying(e)) /\ IsFiniteSet(Trying(e)')
    BY <1>1, <1>2, FS_Subset
<1> QED
    BY <1>3, FS_CardinalityType

\* A worker that takes on a message adds one call to come, for that message.
LEMMA AssignTries ==
    ASSUME TypeOK, NEW w \in Workers, NEW e \in Mails, NEW step \in OpenSteps,
           NEW read \in Nat,
           work[w] = NoWork, Assign(w, e, step, read)
    PROVE  /\ Cardinality(Trying(e)') = Cardinality(Trying(e)) + 1
           /\ \A d \in Mails \ {e} : Trying(d)' = Trying(d)
<1>1. Trying(e)' = Trying(e) \cup {w}
    BY DEF Trying, Assign, TypeOK
<1>2. w \notin Trying(e)
    BY DEF Trying, NoWork, OpenSteps
<1>3. \A d \in Mails \ {e} : Trying(d)' = Trying(d)
    BY DEF Trying, Assign, TypeOK, NoWork, OpenSteps
<1> QED
    BY <1>1, <1>2, <1>3, TryingFinite, FS_AddElement

\* Going from one open step to another changes nothing.
LEMMA GoOnTries ==
    ASSUME TypeOK, NEW w \in Workers, work[w].step \in OpenSteps,
           NEW step \in OpenSteps, GoTo(w, step), NEW d \in Mails
    PROVE  Trying(d)' = Trying(d)
<1>1. work[w] \in Jobs
    BY WorkingType DEF OpenSteps
<1>2. /\ work'[w].step = step /\ work'[w].mail = work[w].mail
      /\ \A v \in Workers \ {w} : work'[v] = work[v]
    BY <1>1 DEF GoTo, TypeOK, Jobs
<1> QED
    BY <1>2 DEF Trying

\* A call of the relay is no longer to come.
LEMMA CallTries ==
    ASSUME TypeOK, NEW w \in Workers, work[w].step = "ready",
           NEW outcome \in {"accepted", "rejected"}, GoTo(w, outcome),
           NEW e \in Mails, work[w].mail = e
    PROVE  /\ Cardinality(Trying(e)') + 1 = Cardinality(Trying(e))
           /\ \A d \in Mails \ {e} : Trying(d)' = Trying(d)
<1>1. work[w] \in Jobs
    BY WorkingType
<1>2. /\ work'[w].step = outcome
      /\ \A v \in Workers \ {w} : work'[v] = work[v]
    BY <1>1 DEF GoTo, TypeOK, Jobs
<1>3. Trying(e)' = Trying(e) \ {w}
    BY <1>2 DEF Trying, OpenSteps
<1>4. w \in Trying(e)
    BY DEF Trying, OpenSteps
<1>5. \A d \in Mails \ {e} : Trying(d)' = Trying(d)
    BY <1>2 DEF Trying, OpenSteps
<1>6. Cardinality(Trying(e) \ {w}) = Cardinality(Trying(e)) - 1
    BY <1>4, TryingFinite, FS_RemoveElement
<1> QED
    BY <1>3, <1>5, <1>6, TryingFinite

\* A worker that stops makes no call.
LEMMA FinishTries ==
    ASSUME TypeOK, NEW w \in Workers, Finish(w), NEW d \in Mails
    PROVE  Cardinality(Trying(d)') <= Cardinality(Trying(d))
<1>1. Trying(d)' \subseteq Trying(d)
    BY DEF Finish, Trying, TypeOK, NoWork, OpenSteps
<1> QED
    BY <1>1, TryingFinite, FS_Subset

\* What a step has to do to keep CallsAreAsked.
LEMMA CallsKept ==
    ASSUME TypeOK, TypeOK', CallsAreAsked,
           \A d \in Mails :
               calls'[d] + Cardinality(Trying(d)') - resends'[d] - Paid(d)' <=
                   calls[d] + Cardinality(Trying(d)) - resends[d] - Paid(d)
    PROVE  CallsAreAsked'
<1> SUFFICES ASSUME NEW d \in Mails
             PROVE  calls'[d] + Cardinality(Trying(d)') <= resends'[d] + Paid(d)'
    BY DEF CallsAreAsked
<1>1. calls[d] + Cardinality(Trying(d)) <= resends[d] + Paid(d)
    BY DEF CallsAreAsked
<1>2. /\ calls[d] \in Nat /\ calls'[d] \in Nat
      /\ resends[d] \in Nat /\ resends'[d] \in Nat
    BY DEF TypeOK
<1>3. Paid(d) \in Nat /\ Paid(d)' \in Nat
    BY DEF Paid
<1>4. Cardinality(Trying(d)) \in Nat /\ Cardinality(Trying(d)') \in Nat
    BY TryingFinite
<1> QED
    BY <1>1, <1>2, <1>3, <1>4

\* A message that is charged for the first time may be called once more.
LEMMA ReservedCallsKept ==
    ASSUME TypeOK, TypeOK', CallsAreAsked, NEW w \in Workers, NEW e \in Mails,
           reservedOn[e] = 0, Reserve(e), UNCHANGED history,
           Cardinality(Trying(e)') = Cardinality(Trying(e)) + 1,
           \A d \in Mails \ {e} : Trying(d)' = Trying(d)
    PROVE  CallsAreAsked'
<1>1. Paid(e) = 0 /\ Paid(e)' = 1
    BY DEF Paid, Reserve, TypeOK, Days
<1>2. \A d \in Mails \ {e} : Paid(d)' = Paid(d)
    BY DEF Paid, Reserve, TypeOK
<1>3. \A d \in Mails : /\ calls'[d] = calls[d] /\ resends'[d] = resends[d]
                       /\ calls[d] \in Nat /\ resends[d] \in Nat /\ Paid(d) \in Nat
                       /\ Cardinality(Trying(d)) \in Nat
    BY TryingFinite DEF history, TypeOK, Paid
<1> QED
    BY <1>1, <1>2, <1>3, CallsKept

LEMMA SameCallsKept ==
    ASSUME TypeOK, TypeOK', CallsAreAsked, UNCHANGED <<reservedOn, resends, calls>>,
           \A d \in Mails : Cardinality(Trying(d)') <= Cardinality(Trying(d))
    PROVE  CallsAreAsked'
<1>1. \A d \in Mails : /\ calls'[d] = calls[d] /\ resends'[d] = resends[d]
                       /\ Paid(d)' = Paid(d)
                       /\ calls[d] \in Nat /\ resends[d] \in Nat /\ Paid(d) \in Nat
                       /\ Cardinality(Trying(d)) \in Nat /\ Cardinality(Trying(d)') \in Nat
    BY TryingFinite DEF TypeOK, Paid
<1> QED
    BY <1>1, CallsKept

-----------------------------------------------------------------------------
(* One lemma per kind of step.                                              *)

CallInv == TypeOK /\ WaitingIsFree /\ CallsAreAsked

LEMMA AskCalls ==
    ASSUME CallInv, TypeOK', NEW w \in Requests, Ask(w)
    PROVE  CallInv'
<1> USE DEF CallInv, history
<1>w. w \in Workers
    BY DEF Workers
<1>1. ASSUME NEW e \in Mails, Send(w, e) PROVE CallInv'
    <2>1. reservedOn[e] = 0
        BY <1>1 DEF Send, WaitingIsFree
    <2>2. /\ Cardinality(Trying(e)') = Cardinality(Trying(e)) + 1
          /\ \A d \in Mails \ {e} : Trying(d)' = Trying(d)
        BY <1>1, <1>w, AssignTries DEF Send, OpenSteps
    <2>3. CallsAreAsked'
        BY <1>1, <1>w, <2>1, <2>2, ReservedCallsKept DEF Send
    <2>4. WaitingIsFree'
        BY <1>1 DEF Send, Reserve, WaitingIsFree, TypeOK
    <2> QED
        BY <2>3, <2>4
<1>2. ASSUME NEW e \in Mails, Schedule(w, e) PROVE CallInv'
    <2>1. \A d \in Mails : Trying(d)' = Trying(d)
        BY <1>2 DEF Schedule, Trying
    <2>2. CallsAreAsked'
        BY <1>2, <2>1, TryingFinite, SameCallsKept DEF Schedule
    <2>3. WaitingIsFree'
        BY <1>2 DEF Schedule, WaitingIsFree, TypeOK
    <2> QED
        BY <2>2, <2>3
<1>3. ASSUME NEW e \in Mails, Submit(w, e) PROVE CallInv'
    <2>1. reservedOn[e] = 0
        BY <1>3 DEF Submit, WaitingIsFree
    <2>2. /\ Cardinality(Trying(e)') = Cardinality(Trying(e)) + 1
          /\ \A d \in Mails \ {e} : Trying(d)' = Trying(d)
        BY <1>3, <1>w, AssignTries DEF Submit, OpenSteps
    <2>3. CallsAreAsked'
        BY <1>3, <1>w, <2>1, <2>2, ReservedCallsKept DEF Submit
    <2>4. WaitingIsFree'
        BY <1>3 DEF Submit, Reserve, WaitingIsFree, TypeOK
    <2> QED
        BY <2>3, <2>4
<1>4. ASSUME NEW e \in Mails, ReadForResend(w, e) PROVE CallInv'
    <2>1. attempts[e] \in Nat
        BY DEF TypeOK
    <2>2. /\ Cardinality(Trying(e)') = Cardinality(Trying(e)) + 1
          /\ \A d \in Mails \ {e} : Trying(d)' = Trying(d)
        BY <1>4, <1>w, <2>1, AssignTries DEF ReadForResend, OpenSteps
    <2>3. \A d \in Mails :
            /\ calls'[d] = calls[d] /\ Paid(d)' = Paid(d)
            /\ resends'[d] = IF d = e THEN resends[d] + 1 ELSE resends[d]
            /\ calls[d] \in Nat /\ resends[d] \in Nat /\ Paid(d) \in Nat
            /\ Cardinality(Trying(d)) \in Nat
        BY <1>4, TryingFinite DEF ReadForResend, TypeOK, Paid
    <2>4. CallsAreAsked'
        BY <2>2, <2>3, CallsKept
    <2>5. WaitingIsFree'
        BY <1>4 DEF ReadForResend, WaitingIsFree
    <2> QED
        BY <2>4, <2>5
<1> QED
    BY <1>1, <1>2, <1>3, <1>4 DEF Ask

LEMMA RunSchedulerCalls ==
    ASSUME CallInv, TypeOK', NEW p \in Schedulers, RunScheduler(p)
    PROVE  CallInv'
<1> USE DEF CallInv, history
<1>w. p \in Workers
    BY DEF Workers
<1>1. ASSUME NEW e \in Mails, Claim(p, e) PROVE CallInv'
    <2>1. reservedOn[e] = 0
        BY <1>1 DEF Claim, Claimable, WaitingIsFree
    <2>2. /\ Cardinality(Trying(e)') = Cardinality(Trying(e)) + 1
          /\ \A d \in Mails \ {e} : Trying(d)' = Trying(d)
        BY <1>1, <1>w, AssignTries DEF Claim, OpenSteps
    <2>3. CallsAreAsked'
        BY <1>1, <1>w, <2>1, <2>2, ReservedCallsKept DEF Claim
    <2>4. WaitingIsFree'
        BY <1>1 DEF Claim, Reserve, WaitingIsFree, TypeOK
    <2> QED
        BY <2>3, <2>4
<1>2. CASE ListDue(p) \/ \E e \in Mails : Skip(p, e)
    <2>1. UNCHANGED <<status, reservedOn, resends, calls, work>>
        BY <1>2 DEF ListDue, Skip
    <2>2. \A d \in Mails : Trying(d)' = Trying(d)
        BY <2>1 DEF Trying
    <2>3. CallsAreAsked'
        BY <2>1, <2>2, TryingFinite, SameCallsKept
    <2>4. WaitingIsFree'
        BY <2>1 DEF WaitingIsFree
    <2> QED
        BY <2>3, <2>4
<1> QED
    BY <1>1, <1>2 DEF RunScheduler

LEMMA DeliverCalls ==
    ASSUME CallInv, TypeOK', NEW w \in Workers, Deliver(w)
    PROVE  CallInv'
<1> USE DEF CallInv, history
<1>1. CASE PassQuota(w) \/ DeliverLocally(w)
    <2>1. /\ work[w].step \in OpenSteps /\ GoTo(w, "ready")
          /\ UNCHANGED <<status, reservedOn, resends, calls>>
        BY <1>1 DEF PassQuota, DeliverLocally, OpenSteps
    <2>2. \A d \in Mails : Trying(d)' = Trying(d)
        BY <2>1, GoOnTries DEF OpenSteps
    <2>3. CallsAreAsked'
        BY <2>1, <2>2, TryingFinite, SameCallsKept
    <2> QED
        BY <2>1, <2>3 DEF WaitingIsFree
<1>2. CASE QuotaFails(w) \/ StayLocal(w) \/ StatusFails(w)
    <2>1. Finish(w) /\ UNCHANGED <<status, reservedOn, resends, calls>>
        BY <1>2 DEF QuotaFails, StayLocal, StatusFails
    <2>2. CallsAreAsked'
        BY <2>1, FinishTries, SameCallsKept
    <2> QED
        BY <2>1, <2>2 DEF WaitingIsFree
<1>3. CASE MarkResend(w)
    <2>1. /\ work[w].step \in OpenSteps /\ GoTo(w, "ready")
          /\ UNCHANGED <<reservedOn, resends, calls>>
        BY <1>3 DEF MarkResend, OpenSteps
    <2>2. \A d \in Mails : Trying(d)' = Trying(d)
        BY <2>1, GoOnTries DEF OpenSteps
    <2>3. CallsAreAsked'
        BY <2>1, <2>2, TryingFinite, SameCallsKept
    <2>4. WaitingIsFree'
        BY <1>3 DEF MarkResend, WaitingIsFree, TypeOK
    <2> QED
        BY <2>3, <2>4
<1>4. CASE RelayAccepts(w) \/ RelayFails(w)
    <2>1. PICK outcome \in {"accepted", "rejected"} : CallRelay(w, outcome)
        BY <1>4 DEF RelayAccepts, RelayFails
    <2>2. work[w] \in Jobs
        BY <2>1, WorkingType DEF CallRelay
    <2>3. PICK e \in Mails : work[w].mail = e
        BY <2>2 DEF Jobs
    <2>4. /\ Cardinality(Trying(e)') + 1 = Cardinality(Trying(e))
          /\ \A d \in Mails \ {e} : Trying(d)' = Trying(d)
        BY <2>1, <2>3, CallTries DEF CallRelay
    <2>5. \A d \in Mails :
            /\ resends'[d] = resends[d] /\ Paid(d)' = Paid(d)
            /\ calls'[d] = IF d = e THEN calls[d] + 1 ELSE calls[d]
            /\ calls[d] \in Nat /\ resends[d] \in Nat /\ Paid(d) \in Nat
            /\ Cardinality(Trying(d)) \in Nat /\ Cardinality(Trying(d)') \in Nat
        BY <2>1, <2>3, TryingFinite DEF CallRelay, TypeOK, Paid
    <2>6. CallsAreAsked'
        BY <2>4, <2>5, CallsKept
    <2> QED
        BY <2>1, <2>6 DEF CallRelay, WaitingIsFree
<1>5. CASE Record(w)
    <2>1. Finish(w) /\ UNCHANGED <<reservedOn, resends, calls>>
        BY <1>5 DEF Record
    <2>2. CallsAreAsked'
        BY <2>1, FinishTries, SameCallsKept
    <2>3. WaitingIsFree'
        BY <1>5 DEF Record, WaitingIsFree, TypeOK
    <2> QED
        BY <2>2, <2>3
<1> QED
    BY <1>1, <1>2, <1>3, <1>4, <1>5 DEF Deliver

LEMMA CallsStep == CallInv /\ [Next]_vars => CallInv'
<1> SUFFICES ASSUME CallInv, [Next]_vars PROVE CallInv'
    OBVIOUS
<1> USE DEF CallInv, history
<1>t. TypeOK'
    BY TypeStep
<1>1. CASE NewDay \/ PurgeUsage \/ UNCHANGED vars
    <2>1. UNCHANGED <<status, reservedOn, resends, calls, work>>
        BY <1>1 DEF NewDay, PurgeUsage, vars
    <2>2. \A d \in Mails : Trying(d)' = Trying(d)
        BY <2>1 DEF Trying
    <2>3. CallsAreAsked'
        BY <1>t, <2>1, <2>2, TryingFinite, SameCallsKept
    <2> QED
        BY <1>t, <2>1, <2>3 DEF WaitingIsFree
<1>2. ASSUME NEW w \in Requests, Ask(w) PROVE CallInv'
    BY <1>t, <1>2, AskCalls
<1>3. ASSUME NEW p \in Schedulers, RunScheduler(p) PROVE CallInv'
    BY <1>t, <1>3, RunSchedulerCalls
<1>4. ASSUME NEW w \in Workers, Deliver(w) PROVE CallInv'
    BY <1>t, <1>4, DeliverCalls
<1>5. ASSUME NEW w \in Workers, Crash(w) PROVE CallInv'
    <2>1. Finish(w) /\ UNCHANGED <<status, reservedOn, resends, calls>>
        BY <1>5 DEF Crash
    <2>2. CallsAreAsked'
        BY <1>t, <2>1, FinishTries, SameCallsKept
    <2> QED
        BY <1>t, <2>1, <2>2 DEF WaitingIsFree
<1> QED
    BY <1>1, <1>2, <1>3, <1>4, <1>5 DEF Next

LEMMA CallsInit == Init => CallInv
<1> SUFFICES ASSUME Init PROVE CallInv
    OBVIOUS
<1>1. TypeOK /\ WaitingIsFree
    BY TypeInit DEF Init, WaitingIsFree
<1>2. ASSUME NEW e \in Mails PROVE calls[e] + Cardinality(Trying(e)) <= resends[e] + Paid(e)
    <2>1. Trying(e) = {}
        BY DEF Init, Trying, NoWork, OpenSteps
    <2>2. Cardinality(Trying(e)) = 0
        BY <2>1, FS_EmptySet
    <2> QED
        BY <2>2 DEF Init, Paid
<1> QED
    BY <1>1, <1>2 DEF CallInv, CallsAreAsked

LEMMA CallsInvariant == Spec => []CallInv
BY CallsInit, CallsStep, PTL DEF Spec

\* However the schedulers of several processes, the requests and crashes
\* interleave, a message is handed to the relay once for being sent and once
\* for each resend: the claim is conditional on the message still waiting.
THEOREM RelayedOncePerRequest == Spec => []SentOncePerRequest
<1>1. CallInv => SentOncePerRequest
    <2> SUFFICES ASSUME CallInv, NEW e \in Mails PROVE calls[e] <= 1 + resends[e]
        BY DEF SentOncePerRequest
    <2>1. calls[e] \in Nat /\ resends[e] \in Nat /\ Paid(e) \in {0, 1}
        BY DEF CallInv, TypeOK, Paid
    <2>2. Cardinality(Trying(e)) \in Nat
        BY TryingFinite
    <2>3. calls[e] + Cardinality(Trying(e)) <= resends[e] + Paid(e)
        BY DEF CallInv, CallsAreAsked
    <2> QED
        BY <2>1, <2>2, <2>3
<1> QED
    BY <1>1, CallsInvariant, PTL

\* A waiting message has consumed no quota and, resends apart, none reaches
\* the relay without having consumed it.
THEOREM AlwaysPaidWhenDelivered == Spec => []PaidWhenDelivered
<1>1. CallInv => PaidWhenDelivered
    <2> SUFFICES ASSUME CallInv, NEW e \in Mails
                 PROVE  /\ status[e] = "scheduled" => reservedOn[e] = 0
                        /\ calls[e] > resends[e] => reservedOn[e] # 0
        BY DEF PaidWhenDelivered
    <2>1. calls[e] \in Nat /\ resends[e] \in Nat
        BY DEF CallInv, TypeOK
    <2>2. Cardinality(Trying(e)) \in Nat
        BY TryingFinite
    <2>3. calls[e] + Cardinality(Trying(e)) <= resends[e] + Paid(e)
        BY DEF CallInv, CallsAreAsked
    <2> QED
        BY <2>1, <2>2, <2>3 DEF CallInv, WaitingIsFree, Paid
<1> QED
    BY <1>1, CallsInvariant, PTL

-----------------------------------------------------------------------------
(* Send counters.                                                           *)

LEMMA Remainder ==
    ASSUME NEW n \in Nat, NEW k \in Nat \ {0}
    PROVE  n % k \in Nat /\ n % k < k /\ n % k <= n
OBVIOUS

\* The counters that a message is charged to today are kept.
LEMMA ChargedIsInForce ==
    ASSUME NEW e \in Mails, NEW d \in Days, NEW c \in Charged(e, d)
    PROVE  c \in Counters /\ LimitOf(c) > 0 /\ c[3] \in Nat /\ c[3] + Retention > d
<1>1. d - 1 \in Nat
    BY DEF Days
<1>2. (d - 1) % DaysPerMonth \in Nat /\ (d - 1) % DaysPerMonth < DaysPerMonth
    BY <1>1, Remainder, OutboundAssumption
<1>3. MonthStart(d) > d - DaysPerMonth
    BY <1>2, OutboundAssumption DEF MonthStart, Days
<1>4. c[3] \in Nat /\ c[3] + Retention > d
    BY <1>3, OutboundAssumption DEF Charged, Days
<1>5. c \in Counters
    BY OutboundAssumption DEF Charged, Counters, Scopes
<1> QED
    BY <1>4, <1>5 DEF Charged

\* A counter that is not old enough to be purged is exact.
UsageInForce ==
    \A c \in Counters :
        LimitOf(c) > 0 /\ c[3] + Retention > day => usage[c] = Cardinality(ChargedTo(c))

CounterInv == CallInv /\ UsageInForce /\ LimitsHold

LEMMA ChargedFinite ==
    ASSUME NEW c
    PROVE  IsFiniteSet(ChargedTo(c)) /\ Cardinality(ChargedTo(c)) \in Nat
<1>1. ChargedTo(c) \in SUBSET Mails
    BY DEF ChargedTo
<1>2. IsFiniteSet(ChargedTo(c))
    BY <1>1, FS_Subset, OutboundAssumption
<1> QED
    BY <1>2, FS_CardinalityType

LEMMA CounterPart == \A c \in Counters : c[3] \in Nat
BY DEF Counters, Days

\* A reservation adds the message to the counters it raises.
LEMMA ReserveCharges ==
    ASSUME TypeOK, NEW e \in Mails, reservedOn[e] = 0, Reserve(e), NEW c \in Counters
    PROVE  Cardinality(ChargedTo(c)') =
               Cardinality(ChargedTo(c)) + (IF c \in Charged(e, day) THEN 1 ELSE 0)
<1>1. /\ reservedOn'[e] = day /\ day # 0
      /\ \A d \in Mails \ {e} : reservedOn'[d] = reservedOn[d]
    BY DEF Reserve, TypeOK, Days
<1>2. e \notin ChargedTo(c)
    BY DEF ChargedTo
<1>3. CASE c \in Charged(e, day)
    <2>1. ChargedTo(c)' = ChargedTo(c) \cup {e}
        BY <1>1, <1>3 DEF ChargedTo
    <2> QED
        BY <1>2, <1>3, <2>1, ChargedFinite, FS_AddElement
<1>4. CASE c \notin Charged(e, day)
    <2>1. ChargedTo(c)' = ChargedTo(c)
        BY <1>1, <1>2, <1>4 DEF ChargedTo
    <2> QED
        BY <1>4, <2>1, ChargedFinite
<1> QED
    BY <1>3, <1>4

LEMMA ReserveCounters ==
    ASSUME TypeOK, UsageInForce, LimitsHold, day' = day,
           NEW e \in Mails, reservedOn[e] = 0, Reserve(e)
    PROVE  UsageInForce' /\ LimitsHold'
<1> SUFFICES ASSUME NEW c \in Counters, LimitOf(c) > 0
             PROVE  /\ c[3] + Retention > day =>
                           usage'[c] = Cardinality(ChargedTo(c)')
                    /\ Cardinality(ChargedTo(c)') <= LimitOf(c)
    BY DEF UsageInForce, LimitsHold
<1>1. usage'[c] = usage[c] + (IF c \in Charged(e, day) THEN 1 ELSE 0)
    BY DEF Reserve
<1>2. Cardinality(ChargedTo(c)') =
          Cardinality(ChargedTo(c)) + (IF c \in Charged(e, day) THEN 1 ELSE 0)
    BY ReserveCharges
<1>3. c[3] + Retention > day => usage[c] = Cardinality(ChargedTo(c))
    BY DEF UsageInForce
<1>4. Cardinality(ChargedTo(c)) <= LimitOf(c)
    BY DEF LimitsHold
<1>5. CASE c \in Charged(e, day)
    <2>1. c[3] + Retention > day
        BY <1>5, ChargedIsInForce DEF TypeOK
    <2>2. usage[c] < LimitOf(c)
        BY <1>5 DEF Reserve, CanReserve
    <2>3. LimitOf(c) \in Nat
        BY OutboundAssumption DEF LimitOf, Counters
    <2> QED
        BY <1>1, <1>2, <1>3, <1>5, <2>1, <2>2, <2>3, ChargedFinite
<1>6. CASE c \notin Charged(e, day)
    <2>1. usage[c] \in Nat
        BY DEF TypeOK
    <2> QED
        BY <1>1, <1>2, <1>3, <1>4, <1>6, <2>1, ChargedFinite
<1> QED
    BY <1>5, <1>6

LEMMA CountersStep == CounterInv /\ [Next]_vars => CounterInv'
<1> SUFFICES ASSUME CounterInv, [Next]_vars PROVE CounterInv'
    OBVIOUS
<1> USE DEF CounterInv, CallInv, history
<1>c. CallInv'
    BY CallsStep
<1>1. ASSUME UNCHANGED <<day, usage, reservedOn>> PROVE UsageInForce' /\ LimitsHold'
    BY <1>1 DEF UsageInForce, LimitsHold, ChargedTo
<1>2. CASE NewDay
    <2>1. day \in Nat /\ day' = day + 1 /\ UNCHANGED <<usage, reservedOn>>
        BY <1>2 DEF NewDay, TypeOK, Days
    <2>2. \A c \in Counters : c[3] + Retention > day' => c[3] + Retention > day
        BY <2>1, CounterPart, OutboundAssumption
    <2> QED
        BY <1>c, <2>1, <2>2 DEF UsageInForce, LimitsHold, ChargedTo
<1>3. CASE PurgeUsage
    <2>1. day \in Nat /\ UNCHANGED <<day, reservedOn>>
        BY <1>3 DEF PurgeUsage, TypeOK, Days
    <2>2. \A c \in Counters : c[3] + Retention > day => usage'[c] = usage[c]
        BY <1>3, <2>1, CounterPart, OutboundAssumption DEF PurgeUsage
    <2> QED
        BY <1>c, <2>1, <2>2 DEF UsageInForce, LimitsHold, ChargedTo
<1>4. ASSUME NEW w \in Requests, Ask(w) PROVE UsageInForce' /\ LimitsHold'
    <2>1. ASSUME NEW e \in Mails, Send(w, e) \/ Submit(w, e) PROVE UsageInForce' /\ LimitsHold'
        <3>1. Reserve(e) /\ day' = day /\ reservedOn[e] = 0
            BY <2>1 DEF Send, Submit, WaitingIsFree
        <3> QED
            BY <3>1, ReserveCounters
    <2>2. ASSUME NEW e \in Mails, Schedule(w, e) \/ ReadForResend(w, e)
          PROVE  UsageInForce' /\ LimitsHold'
        BY <1>1, <2>2 DEF Schedule, ReadForResend
    <2> QED
        BY <1>4, <2>1, <2>2 DEF Ask
<1>5. ASSUME NEW p \in Schedulers, RunScheduler(p) PROVE UsageInForce' /\ LimitsHold'
    <2>1. ASSUME NEW e \in Mails, Claim(p, e) PROVE UsageInForce' /\ LimitsHold'
        <3>1. Reserve(e) /\ day' = day /\ reservedOn[e] = 0
            BY <2>1 DEF Claim, Claimable, WaitingIsFree
        <3> QED
            BY <3>1, ReserveCounters
    <2>2. ASSUME ListDue(p) \/ \E e \in Mails : Skip(p, e)
          PROVE  UsageInForce' /\ LimitsHold'
        BY <1>1, <2>2 DEF ListDue, Skip
    <2> QED
        BY <1>5, <2>1, <2>2 DEF RunScheduler
<1>6. ASSUME NEW w \in Workers, Deliver(w) \/ Crash(w) PROVE UsageInForce' /\ LimitsHold'
    <2>1. UNCHANGED <<day, usage, reservedOn>>
        BY <1>6 DEF Deliver, PassQuota, QuotaFails, DeliverLocally, StayLocal, MarkResend,
            RelayAccepts, RelayFails, CallRelay, Record, StatusFails, Crash
    <2> QED
        BY <1>1, <2>1
<1>7. CASE UNCHANGED vars
    BY <1>1, <1>7, <1>c DEF vars
<1> QED
    BY <1>c, <1>2, <1>3, <1>4, <1>5, <1>6, <1>7 DEF Next

LEMMA CountersInit == Init => CounterInv
<1> SUFFICES ASSUME Init PROVE UsageInForce /\ LimitsHold
    BY CallsInit DEF CounterInv
<1>1. ASSUME NEW c \in Counters, LimitOf(c) > 0
      PROVE  usage[c] = 0 /\ Cardinality(ChargedTo(c)) = 0 /\ LimitOf(c) \in Nat
    <2>1. ChargedTo(c) = {}
        BY DEF Init, ChargedTo
    <2> QED
        BY <2>1, FS_EmptySet, OutboundAssumption DEF Init, LimitOf, Counters
<1> QED
    BY <1>1 DEF UsageInForce, LimitsHold

LEMMA CountersInvariant == Spec => []CounterInv
BY CountersInit, CountersStep, PTL DEF Spec

\* The counters of the current day and month are the numbers of messages
\* charged to them, in spite of roll-backs and purges.
THEOREM CountersAlwaysAgree == Spec => []CountersAgree
<1>1. CounterInv => CountersAgree
    <2> SUFFICES ASSUME CounterInv, NEW e \in Mails, NEW c \in Charged(e, day)
                 PROVE  usage[c] = Cardinality(ChargedTo(c))
        BY DEF CountersAgree
    <2>1. c \in Counters /\ LimitOf(c) > 0 /\ c[3] + Retention > day
        BY ChargedIsInForce DEF CounterInv, CallInv, TypeOK
    <2> QED
        BY <2>1 DEF CounterInv, UsageInForce
<1> QED
    BY <1>1, CountersInvariant, PTL

\* No limit of any day or month is ever exceeded.
THEOREM LimitsAlwaysHold == Spec => []LimitsHold
BY CountersInvariant, PTL DEF CounterInv
=============================================================================
