---------------------------- MODULE Notifications ----------------------------
(***************************************************************************)
(* How an event becomes an email: the event handlers put a job in the      *)
(* BullMQ queue, a worker takes it, NotificationService races the email    *)
(* against a timeout, BullMQ repeats a job that throws.                    *)
(*                                                                         *)
(* All notifications are sent by email at priority HIGH and give BullMQ no *)
(* retryAttempts of their own.  EmailService catches every exception, so   *)
(* the retry loop of NotificationService returns after its first turn: the *)
(* retries are BullMQ's.  A send that loses the race goes on without its   *)
(* job.  A send stands for one call of SesProvider.send.                   *)
(***************************************************************************)
EXTENDS Integers, FiniteSets

CONSTANTS
    Notifications,
    Attempts,       \* attempts of a job
    MaxStalled,     \* BullMQ: how often a job may lose its worker
    Workers,        \* instances, each with a worker of concurrency 1
    MaxFaults,      \* bound on sends that fail, time out or lose their answer
    MaxCrashes      \* bound on crashes

ASSUME NotificationsAssumption ==
    /\ Attempts \in Nat \ {0}
    /\ MaxStalled \in Nat
    /\ Workers \in Nat \ {0}
    /\ MaxFaults \in Nat /\ MaxCrashes \in Nat

VARIABLES
    kind,           \* the event a notification is made from
    job,            \* where BullMQ has the job of a notification
    attemptsMade,   \* its attempts that have failed
    stalls,         \* how often it lost its worker
    call,           \* the send of its present attempt
    detached,       \* sends under way that no attempt waits for
    sent,           \* emails SES has accepted
    unsure,         \* attempts that ended without knowing their send's outcome
    faults,
    crashes

vars == <<kind, job, attemptsMade, stalls, call, detached, sent, unsure, faults, crashes>>

Kinds == {"signInOtp", "cardOrderCreated", "2faOtp"}

\* getTemplateForEvent throws for other events.
HasTemplate(n) == kind[n] \in {"signInOtp", "cardOrderCreated"}

Settled == {"completed", "failed"}

\* "active": a worker runs it; "orphaned": its worker died.
JobStates == Settled \union {"none", "adding", "lost", "waiting", "delayed", "active", "orphaned"}

Calls == {"none", "sending", "accepted", "refused"}

Init ==
    /\ kind = [n \in Notifications |-> "none"]
    /\ job = [n \in Notifications |-> "none"]
    /\ attemptsMade = [n \in Notifications |-> 0]
    /\ stalls = [n \in Notifications |-> 0]
    /\ call = [n \in Notifications |-> "none"]
    /\ detached = [n \in Notifications |-> 0]
    /\ sent = [n \in Notifications |-> 0]
    /\ unsure = [n \in Notifications |-> 0]
    /\ faults = 0
    /\ crashes = 0

-----------------------------------------------------------------------------
(* The event bus and the queue. *)

\* Adding a job begins in the turn of the event loop that publishes the event.
AddNotification(n, k) ==
    /\ job[n] = "none"
    /\ job' = [job EXCEPT ![n] = "adding"]
    /\ kind' = [kind EXCEPT ![n] = k]
    /\ UNCHANGED <<attemptsMade, stalls, call, detached, sent, unsure, faults, crashes>>

HandleSendSignInOtp(n) == AddNotification(n, "signInOtp")

HandleSend2FaOtp(n) == AddNotification(n, "2faOtp")

HandleCardOrderCreated(n) == AddNotification(n, "cardOrderCreated")

\* emit calls the handler of the event; nobody waits for it.
Publish(n) == HandleSendSignInOtp(n) \/ HandleSend2FaOtp(n) \/ HandleCardOrderCreated(n)

\* If Redis refuses the job or the instance dies before, the notification is lost.
Enqueue(n) ==
    /\ job[n] = "adding"
    /\ job' \in {[job EXCEPT ![n] = s] : s \in {"waiting", "lost"}}
    /\ UNCHANGED <<kind, attemptsMade, stalls, call, detached, sent, unsure, faults, crashes>>

WorkerIdle == Cardinality({n \in Notifications : job[n] = "active"}) < Workers

\* Without a template there is nothing to render, and SES is not called: the email
\* is FAILED.
Render(n) == IF HasTemplate(n) THEN "sending" ELSE "refused"

\* A worker takes the job: NotificationService starts the email.
Take(n) ==
    /\ job[n] = "waiting" /\ WorkerIdle
    /\ job' = [job EXCEPT ![n] = "active"]
    /\ call' = [call EXCEPT ![n] = Render(n)]
    /\ UNCHANGED <<kind, attemptsMade, stalls, detached, sent, unsure, faults, crashes>>

\* Mutant of FailAttempt: the last attempt but one is the last.
FailAttemptEarly(n) ==
    /\ attemptsMade' = [attemptsMade EXCEPT ![n] = @ + 1]
    /\ job' = [job EXCEPT ![n] = IF attemptsMade[n] + 2 < Attempts THEN "delayed" ELSE "failed"]
    /\ call' = [call EXCEPT ![n] = "none"]

\* The processor throws: BullMQ repeats the job after a backoff, or gives up.
FailAttempt(n) ==
    /\ attemptsMade' = [attemptsMade EXCEPT ![n] = @ + 1]
    /\ job' = [job EXCEPT ![n] = IF attemptsMade[n] + 1 < Attempts THEN "delayed" ELSE "failed"]
    /\ call' = [call EXCEPT ![n] = "none"]

\* The backoff is over.
Promote(n) ==
    /\ job[n] = "delayed"
    /\ job' = [job EXCEPT ![n] = "waiting"]
    /\ UNCHANGED <<kind, attemptsMade, stalls, call, detached, sent, unsure, faults, crashes>>

-----------------------------------------------------------------------------
(* An attempt. *)

\* SES accepts the email.
Accept(n) ==
    /\ job[n] = "active" /\ call[n] = "sending"
    /\ sent' = [sent EXCEPT ![n] = @ + 1]
    /\ call' = [call EXCEPT ![n] = "accepted"]
    /\ UNCHANGED <<kind, job, attemptsMade, stalls, detached, unsure, faults, crashes>>

\* SES refuses the email, or cannot be reached.
Refuse(n) ==
    /\ job[n] = "active" /\ call[n] = "sending"
    /\ faults < MaxFaults
    /\ faults' = faults + 1
    /\ call' = [call EXCEPT ![n] = "refused"]
    /\ UNCHANGED <<kind, job, attemptsMade, stalls, detached, sent, unsure, crashes>>

\* Mutant of LoseAnswer: EmailService rethrows, so NotificationService sends
\* again within the attempt.
LoseAnswerAndResend(n) ==
    /\ job[n] = "active" /\ call[n] = "sending"
    /\ faults < MaxFaults
    /\ faults' = faults + 1
    /\ sent' = [sent EXCEPT ![n] = @ + 1]
    /\ UNCHANGED <<kind, job, attemptsMade, stalls, call, detached, unsure, crashes>>

\* SES accepts the email, its answer is lost: an error.
LoseAnswer(n) ==
    /\ job[n] = "active" /\ call[n] = "sending"
    /\ faults < MaxFaults
    /\ faults' = faults + 1
    /\ sent' = [sent EXCEPT ![n] = @ + 1]
    /\ unsure' = [unsure EXCEPT ![n] = @ + 1]
    /\ call' = [call EXCEPT ![n] = "refused"]
    /\ UNCHANGED <<kind, job, attemptsMade, stalls, detached, crashes>>

\* EmailService answers SENT in time.
Complete(n) ==
    /\ job[n] = "active" /\ call[n] = "accepted"
    /\ job' = [job EXCEPT ![n] = "completed"]
    /\ call' = [call EXCEPT ![n] = "none"]
    /\ UNCHANGED <<kind, attemptsMade, stalls, detached, sent, unsure, faults, crashes>>

\* Mutant of ThrowResult: a FAILED result is not thrown.
ReturnResult(n) ==
    /\ job[n] = "active" /\ call[n] = "refused"
    /\ job' = [job EXCEPT ![n] = "completed"]
    /\ call' = [call EXCEPT ![n] = "none"]
    /\ UNCHANGED <<kind, attemptsMade, stalls, detached, sent, unsure, faults, crashes>>

\* EmailService answers FAILED, the processor throws its error.
ThrowResult(n) ==
    /\ job[n] = "active" /\ call[n] = "refused"
    /\ FailAttempt(n)
    /\ UNCHANGED <<kind, stalls, detached, sent, unsure, faults, crashes>>

\* The timeout wins the race: the attempt is FAILED, the send goes on.
Timeout(n) ==
    /\ job[n] = "active" /\ call[n] \in {"sending", "accepted"}
    /\ faults < MaxFaults
    /\ faults' = faults + 1
    /\ detached' = [detached EXCEPT ![n] = IF call[n] = "sending" THEN @ + 1 ELSE @]
    /\ unsure' = [unsure EXCEPT ![n] = @ + 1]
    /\ FailAttempt(n)
    /\ UNCHANGED <<kind, stalls, sent, crashes>>

\* A detached send ends, accepted or not; nobody looks at its result.
EndDetached(n) ==
    /\ detached[n] > 0
    /\ detached' = [detached EXCEPT ![n] = @ - 1]
    /\ sent' \in {sent, [sent EXCEPT ![n] = @ + 1]}
    /\ UNCHANGED <<kind, job, attemptsMade, stalls, call, unsure, faults, crashes>>

-----------------------------------------------------------------------------
(* Crashes. *)

\* The worker dies during an attempt; what it sent may still arrive.
Crash(n) ==
    /\ job[n] = "active"
    /\ crashes < MaxCrashes
    /\ crashes' = crashes + 1
    /\ job' = [job EXCEPT ![n] = "orphaned"]
    /\ detached' = [detached EXCEPT ![n] = IF call[n] = "sending" THEN @ + 1 ELSE @]
    /\ unsure' = [unsure EXCEPT ![n] = @ + 1]
    /\ call' = [call EXCEPT ![n] = "none"]
    /\ UNCHANGED <<kind, attemptsMade, stalls, sent, faults>>

\* Mutant of Recover: a job may stall for ever.
RecoverAlways(n) ==
    /\ job[n] = "orphaned"
    /\ stalls' = [stalls EXCEPT ![n] = @ + 1]
    /\ job' = [job EXCEPT ![n] = "waiting"]
    /\ UNCHANGED <<kind, attemptsMade, call, detached, sent, unsure, faults, crashes>>

\* BullMQ sees that the job's lock has expired: it goes back to the queue, or
\* fails when it has stalled too often.
Recover(n) ==
    /\ job[n] = "orphaned"
    /\ stalls' = [stalls EXCEPT ![n] = @ + 1]
    /\ job' = [job EXCEPT ![n] = IF stalls[n] < MaxStalled THEN "waiting" ELSE "failed"]
    /\ UNCHANGED <<kind, attemptsMade, call, detached, sent, unsure, faults, crashes>>

-----------------------------------------------------------------------------
\* The send of an attempt ends, or the timer does.
EndCall(n) == Accept(n) \/ Refuse(n) \/ LoseAnswer(n) \/ Timeout(n)

Next ==
    \E n \in Notifications :
        \/ Publish(n) \/ Enqueue(n) \/ Take(n) \/ Promote(n)
        \/ EndCall(n) \/ Complete(n) \/ ThrowResult(n) \/ EndDetached(n)
        \/ Crash(n) \/ Recover(n)

Spec == Init /\ [][Next]_vars

(***************************************************************************)
(* A worker runs and takes what waits; a timer bounds every attempt;       *)
(* BullMQ promotes delayed jobs and looks for stalled ones.                *)
(***************************************************************************)
Fairness ==
    \A n \in Notifications :
        /\ WF_vars(Take(n)) /\ WF_vars(Promote(n))
        /\ WF_vars(EndCall(n)) /\ WF_vars(Complete(n)) /\ WF_vars(ThrowResult(n))
        /\ WF_vars(EndDetached(n)) /\ WF_vars(Recover(n))

FairSpec == Spec /\ Fairness

-----------------------------------------------------------------------------
(* Properties. *)

TypeOK ==
    /\ kind \in [Notifications -> Kinds \union {"none"}]
    /\ job \in [Notifications -> JobStates]
    /\ attemptsMade \in [Notifications -> 0..Attempts]
    /\ stalls \in [Notifications -> 0..(MaxStalled + 1)]
    /\ call \in [Notifications -> Calls]
    /\ detached \in [Notifications -> Nat]
    /\ sent \in [Notifications -> Nat]
    /\ unsure \in [Notifications -> Nat]
    /\ faults \in 0..MaxFaults
    /\ crashes \in 0..MaxCrashes

\* Emails are repeated only for attempts whose outcome was not known: one
\* email, and one more for each timeout, lost answer or crash.
RepeatsAreForUnsure == \A n \in Notifications : sent[n] + detached[n] <= unsure[n] + 1

\* The retries within an attempt and those of BullMQ do not multiply: one
\* send for each attempt and each stall the queue allows.
SendsBounded == \A n \in Notifications : sent[n] + detached[n] <= Attempts + MaxStalled

\* A job that ended well has sent its email; one that was given up has used
\* all attempts, or lost its worker too often.
OutcomeIsTrue ==
    \A n \in Notifications :
        /\ job[n] = "completed" => sent[n] > 0
        /\ job[n] = "failed" => attemptsMade[n] = Attempts \/ stalls[n] > MaxStalled

\* An email that has a template is sent, if fewer sends fail than a job has
\* attempts and no more workers die than a job may lose, though they do so in
\* any order and with other jobs in the queue.
EmailArrives ==
    \A n \in Notifications :
        job[n] = "waiting" /\ HasTemplate(n)
            ~> sent[n] > 0 \/ faults >= Attempts \/ crashes > MaxStalled
=============================================================================
