------------------------ MODULE NotificationsProofs -------------------------
(***************************************************************************)
(* Emails are bounded and repeated only when their outcome was unknown:    *)
(* for any notifications, workers, failures and crashes.                   *)
(*                                                                         *)
(* A send under way is counted with the attempt that started it: the       *)
(* invariant compares the sends of a notification with the attempts that   *)
(* can have started one (Balanced) and with those that do not know what    *)
(* became of it (Accounted).  Notifications share only the fault counters. *)
(***************************************************************************)
EXTENDS Notifications, TLAPS

Sending(n) == IF call[n] = "sending" THEN 1 ELSE 0

\* The present or last attempt is not counted in attemptsMade or stalls.
Uncounted(n) == IF job[n] \in {"active", "orphaned", "completed"} THEN 1 ELSE 0

\* The attempt that knows of its send: the present one, or the one that completed.
Sure(n) == IF job[n] = "completed" \/ call[n] \in {"sending", "accepted"} THEN 1 ELSE 0

Balanced(n) == sent[n] + detached[n] + Sending(n) <= attemptsMade[n] + stalls[n] + Uncounted(n)

Accounted(n) == sent[n] + detached[n] + Sending(n) <= unsure[n] + Sure(n)

QueueInv(n) ==
    /\ job[n] = "active" <=> call[n] # "none"
    /\ job[n] \in {"completed"} \/ call[n] = "accepted" => sent[n] > 0
    /\ job[n] # "failed" => attemptsMade[n] < Attempts /\ stalls[n] <= MaxStalled
    /\ job[n] = "failed" =>
          \/ attemptsMade[n] = Attempts /\ stalls[n] <= MaxStalled
          \/ attemptsMade[n] < Attempts /\ stalls[n] = MaxStalled + 1

JobInv(n) == QueueInv(n) /\ Balanced(n) /\ Accounted(n)

IInv == TypeOK /\ \A n \in Notifications : JobInv(n)

-----------------------------------------------------------------------------
\* What a step leaves of another notification.
Untouched(m) ==
    /\ job'[m] = job[m] /\ attemptsMade'[m] = attemptsMade[m] /\ stalls'[m] = stalls[m]
    /\ call'[m] = call[m] /\ detached'[m] = detached[m] /\ sent'[m] = sent[m]
    /\ unsure'[m] = unsure[m]

LEMMA FrameKeepsJobInv ==
    ASSUME NEW m \in Notifications, JobInv(m), Untouched(m)
    PROVE  JobInv(m)'
BY DEF JobInv, QueueInv, Balanced, Accounted, Sending, Uncounted, Sure, Untouched

LEMMA InitIInv == Init => IInv
<1> SUFFICES ASSUME Init PROVE IInv
  OBVIOUS
<1>1. TypeOK
  BY NotificationsAssumption DEF Init, TypeOK, JobStates, Calls
<1>2. ASSUME NEW n \in Notifications PROVE JobInv(n)
  BY NotificationsAssumption
  DEF Init, JobInv, QueueInv, Balanced, Accounted, Sending, Uncounted, Sure
<1> QED
  BY <1>1, <1>2 DEF IInv

\* A step of one notification keeps the types and everything of the others.
LEMMA StepFrame ==
    ASSUME TypeOK, NEW n \in Notifications,
           \/ Publish(n) \/ Enqueue(n) \/ Take(n) \/ Promote(n)
           \/ EndCall(n) \/ Complete(n) \/ EndDetached(n) \/ Crash(n)
    PROVE  \A m \in Notifications \ {n} : Untouched(m)
BY DEF Untouched, TypeOK, Publish, HandleSendSignInOtp, HandleSend2FaOtp,
   HandleCardOrderCreated, AddNotification, Enqueue, Take, Promote, EndCall, Accept, Refuse, LoseAnswer, Timeout,
   FailAttempt, Complete, EndDetached, Crash

\* Whichever handler it was, a job is added for the notification.
LEMMA PublishAdds ==
    ASSUME NEW n \in Notifications, Publish(n)
    PROVE  \E k \in Kinds : AddNotification(n, k)
BY DEF Publish, HandleSendSignInOtp, HandleSend2FaOtp, HandleCardOrderCreated, Kinds

LEMMA PublishKeepsIInv ==
    ASSUME IInv, NEW n \in Notifications, Publish(n)
    PROVE  IInv'
<1>1. PICK k \in Kinds : AddNotification(n, k)
  BY PublishAdds
<1>2. TypeOK'
  BY <1>1 DEF IInv, AddNotification, TypeOK, JobStates
<1>3. JobInv(n)'
  BY <1>1 DEF IInv, AddNotification, TypeOK, JobStates, JobInv, QueueInv, Balanced, Accounted,
     Sending, Uncounted, Sure
<1> QED
  BY <1>2, <1>3, StepFrame, FrameKeepsJobInv DEF IInv

LEMMA EnqueueKeepsIInv ==
    ASSUME IInv, NEW n \in Notifications, Enqueue(n) \/ Promote(n)
    PROVE  IInv'
<1>1. TypeOK'
  BY DEF IInv, Enqueue, Promote, TypeOK, JobStates
<1>2. JobInv(n)'
  BY DEF IInv, Enqueue, Promote, TypeOK, JobStates, JobInv, QueueInv, Balanced, Accounted,
     Sending, Uncounted, Sure
<1> QED
  BY <1>1, <1>2, StepFrame, FrameKeepsJobInv DEF IInv

LEMMA TakeKeepsIInv ==
    ASSUME IInv, NEW n \in Notifications, Take(n)
    PROVE  IInv'
<1>1. TypeOK'
  BY DEF IInv, Take, Render, TypeOK, JobStates, Calls
<1>2. JobInv(n)'
  BY DEF IInv, Take, Render, TypeOK, JobInv, QueueInv, Balanced, Accounted, Sending, Uncounted, Sure
<1> QED
  BY <1>1, <1>2, StepFrame, FrameKeepsJobInv DEF IInv

LEMMA AcceptKeepsIInv ==
    ASSUME IInv, NEW n \in Notifications, Accept(n) \/ Refuse(n) \/ LoseAnswer(n)
    PROVE  IInv'
<1>1. TypeOK'
  BY NotificationsAssumption DEF IInv, Accept, Refuse, LoseAnswer, TypeOK, Calls
<1>2. JobInv(n)'
  BY DEF IInv, Accept, Refuse, LoseAnswer, TypeOK, JobInv, QueueInv, Balanced, Accounted,
     Sending, Uncounted, Sure
<1> QED
  BY <1>1, <1>2, StepFrame, FrameKeepsJobInv DEF IInv, EndCall

LEMMA CompleteKeepsIInv ==
    ASSUME IInv, NEW n \in Notifications, Complete(n)
    PROVE  IInv'
<1>1. TypeOK'
  BY DEF IInv, Complete, TypeOK, JobStates, Settled, Calls
<1>2. JobInv(n)'
  BY DEF IInv, Complete, TypeOK, JobInv, QueueInv, Balanced, Accounted, Sending, Uncounted, Sure
<1> QED
  BY <1>1, <1>2, StepFrame, FrameKeepsJobInv DEF IInv

\* The end of an attempt: what was uncounted becomes a failed attempt.
LEMMA FailAttemptType ==
    ASSUME IInv, NEW n \in Notifications, job[n] = "active", FailAttempt(n)
    PROVE  /\ job' \in [Notifications -> JobStates]
           /\ attemptsMade' \in [Notifications -> 0..Attempts]
           /\ call' \in [Notifications -> Calls]
           /\ call'[n] = "none" /\ attemptsMade'[n] = attemptsMade[n] + 1
           /\ job'[n] = IF attemptsMade[n] + 1 < Attempts THEN "delayed" ELSE "failed"
           /\ \A m \in Notifications \ {n} :
                 job'[m] = job[m] /\ attemptsMade'[m] = attemptsMade[m] /\ call'[m] = call[m]
<1>1. attemptsMade[n] \in Nat /\ attemptsMade[n] + 1 \in 0..Attempts
  BY NotificationsAssumption DEF IInv, JobInv, QueueInv, TypeOK
<1> QED
  BY <1>1 DEF IInv, FailAttempt, TypeOK, JobStates, Settled, Calls

LEMMA ThrowResultKeepsIInv ==
    ASSUME IInv, NEW n \in Notifications, ThrowResult(n)
    PROVE  IInv'
<1> USE DEF ThrowResult
<1>1. TypeOK'
  BY FailAttemptType DEF IInv, TypeOK
<1>2. JobInv(n)'
  BY FailAttemptType, NotificationsAssumption
  DEF IInv, TypeOK, JobInv, QueueInv, Balanced, Accounted, Sending, Uncounted, Sure
<1>3. \A m \in Notifications \ {n} : Untouched(m)
  BY FailAttemptType DEF Untouched
<1> QED
  BY <1>1, <1>2, <1>3, FrameKeepsJobInv DEF IInv

LEMMA TimeoutKeepsIInv ==
    ASSUME IInv, NEW n \in Notifications, Timeout(n)
    PROVE  IInv'
<1> USE DEF Timeout
<1>1. /\ detached' \in [Notifications -> Nat] /\ unsure' \in [Notifications -> Nat]
      /\ detached'[n] = detached[n] + Sending(n) /\ unsure'[n] = unsure[n] + 1
      /\ faults' \in 0..MaxFaults
  BY NotificationsAssumption DEF IInv, TypeOK, Sending
<1>2. TypeOK'
  BY <1>1, FailAttemptType DEF IInv, TypeOK
<1>3. JobInv(n)'
  <2>1. QueueInv(n)'
    BY FailAttemptType, NotificationsAssumption DEF IInv, TypeOK, JobInv, QueueInv
  <2>2. Balanced(n)' /\ Accounted(n)'
    BY <1>1, FailAttemptType
    DEF IInv, TypeOK, JobInv, Balanced, Accounted, Sending, Uncounted, Sure
  <2> QED
    BY <2>1, <2>2 DEF JobInv
<1>4. \A m \in Notifications \ {n} : Untouched(m)
  BY FailAttemptType DEF Untouched, IInv, TypeOK
<1> QED
  BY <1>2, <1>3, <1>4, FrameKeepsJobInv DEF IInv

LEMMA EndDetachedKeepsIInv ==
    ASSUME IInv, NEW n \in Notifications, EndDetached(n)
    PROVE  IInv'
<1>1. /\ detached' \in [Notifications -> Nat] /\ sent' \in [Notifications -> Nat]
      /\ sent'[n] + detached'[n] <= sent[n] + detached[n] /\ sent'[n] >= sent[n]
  BY DEF IInv, EndDetached, TypeOK
<1>2. TypeOK'
  BY <1>1 DEF IInv, EndDetached, TypeOK
<1>3. JobInv(n)'
  BY <1>1 DEF IInv, EndDetached, TypeOK, JobInv, QueueInv, Balanced, Accounted, Sending,
     Uncounted, Sure
<1> QED
  BY <1>2, <1>3, StepFrame, FrameKeepsJobInv DEF IInv

LEMMA CrashKeepsIInv ==
    ASSUME IInv, NEW n \in Notifications, Crash(n)
    PROVE  IInv'
<1> USE DEF Crash
<1>1. /\ detached' \in [Notifications -> Nat] /\ unsure' \in [Notifications -> Nat]
      /\ detached'[n] = detached[n] + Sending(n) /\ unsure'[n] = unsure[n] + 1
      /\ job'[n] = "orphaned" /\ call'[n] = "none"
      /\ crashes' \in 0..MaxCrashes
  BY NotificationsAssumption DEF IInv, TypeOK, Sending
<1>2. TypeOK'
  BY <1>1 DEF IInv, TypeOK, JobStates, Calls
<1>3. JobInv(n)'
  BY <1>1 DEF IInv, TypeOK, JobInv, QueueInv, Balanced, Accounted, Sending, Uncounted, Sure
<1> QED
  BY <1>2, <1>3, StepFrame, FrameKeepsJobInv DEF IInv

LEMMA RecoverKeepsIInv ==
    ASSUME IInv, NEW n \in Notifications, Recover(n)
    PROVE  IInv'
<1> USE DEF Recover
<1>1. stalls[n] \in Nat /\ stalls[n] + 1 \in 0..(MaxStalled + 1)
  BY NotificationsAssumption DEF IInv, TypeOK, JobInv, QueueInv
<1>2. /\ stalls' \in [Notifications -> 0..(MaxStalled + 1)] /\ stalls'[n] = stalls[n] + 1
      /\ job'[n] = IF stalls[n] < MaxStalled THEN "waiting" ELSE "failed"
  BY <1>1 DEF IInv, TypeOK
<1>3. TypeOK'
  BY <1>2 DEF IInv, TypeOK, JobStates, Settled
<1>4. JobInv(n)'
  BY <1>1, <1>2, NotificationsAssumption
  DEF IInv, TypeOK, JobInv, QueueInv, Balanced, Accounted, Sending, Uncounted, Sure
<1>5. \A m \in Notifications \ {n} : Untouched(m)
  BY DEF Untouched, IInv, TypeOK
<1> QED
  BY <1>3, <1>4, <1>5, FrameKeepsJobInv DEF IInv

LEMMA NextIInv == IInv /\ [Next]_vars => IInv'
<1> SUFFICES ASSUME IInv, [Next]_vars PROVE IInv'
  OBVIOUS
<1>1. CASE UNCHANGED vars
  BY <1>1, FrameKeepsJobInv DEF vars, IInv, TypeOK, Untouched
<1>2. CASE Next
  BY <1>2, PublishKeepsIInv, EnqueueKeepsIInv, TakeKeepsIInv, AcceptKeepsIInv, CompleteKeepsIInv,
     ThrowResultKeepsIInv, TimeoutKeepsIInv, EndDetachedKeepsIInv, CrashKeepsIInv, RecoverKeepsIInv
  DEF Next, EndCall
<1> QED
  BY <1>1, <1>2

\* The inductive invariant: sends are balanced by attempts and accounted for.
THEOREM InductiveInvariant == Spec => []IInv
BY InitIInv, NextIInv, PTL DEF Spec

\* The variables of queue, worker and sends keep their types: no more attempts
\* and stalls than the queue allows.
THEOREM TypeCorrect == Spec => []TypeOK
<1>1. IInv => TypeOK
  BY DEF IInv
<1> QED
  BY <1>1, InductiveInvariant, PTL

\* An email is repeated only after a timeout, a lost answer or a crash.
THEOREM RepeatsAreJustified == Spec => []RepeatsAreForUnsure
<1>1. IInv => RepeatsAreForUnsure
  <2> SUFFICES ASSUME IInv, NEW n \in Notifications
               PROVE  sent[n] + detached[n] <= unsure[n] + 1
    BY DEF RepeatsAreForUnsure
  <2> QED
    BY DEF IInv, TypeOK, JobInv, Accounted, Sending, Sure
<1> QED
  BY <1>1, InductiveInvariant, PTL

\* A notification is sent at most Attempts + MaxStalled times.
THEOREM SendsAreBounded == Spec => []SendsBounded
<1>1. IInv => SendsBounded
  <2> SUFFICES ASSUME IInv, NEW n \in Notifications
               PROVE  sent[n] + detached[n] <= Attempts + MaxStalled
    BY DEF SendsBounded
  <2> QED
    BY NotificationsAssumption
    DEF IInv, TypeOK, JobInv, QueueInv, Balanced, Sending, Uncounted
<1> QED
  BY <1>1, InductiveInvariant, PTL

\* Jobs end completed or failed for the reason the queue has for it.
THEOREM OutcomesAreTrue == Spec => []OutcomeIsTrue
<1>1. IInv => OutcomeIsTrue
  BY NotificationsAssumption DEF IInv, TypeOK, JobInv, QueueInv, OutcomeIsTrue
<1> QED
  BY <1>1, InductiveInvariant, PTL
=============================================================================
