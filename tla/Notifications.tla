--------------------------- MODULE Notifications ----------------------------
(***************************************************************************)
(* apps/notifications: one mail of the outbox, and all that tries to send  *)
(* it.                                                                     *)
(*                                                                         *)
(* create_notification writes the row and queues its task, in whatever     *)
(* transaction its caller has open.  The task mails from a copy of the     *)
(* row, without a lock, and records the attempt; it is queued again by     *)
(* Celery, by a periodic task and by the staff, and a second periodic task *)
(* sends what a failed log stands for.  A queued task is never lost, one   *)
(* that was begun is, if its worker dies.  Templates, providers, skipped   *)
(* mails and what is sent without the queue are left out.                  *)
(***************************************************************************)
EXTENDS Naturals, FiniteSets

CONSTANTS
    Mailers,    \* concurrent workers and requests
    MaxRetries, \* NOTIFICATION_MAX_RETRY, max_retries of the row
    MaxTasks    \* bound: send_notification tasks in the queue

VARIABLES
    mail,       \* the Notification row: status and retry_count
    attempts,   \* its NotificationAttempt rows: status, by attempt_no
    failures,   \* its NotificationLog rows with status FAILED, by attempts_count
    tasks,      \* how many send_notification tasks are queued
    mailer,     \* what each worker is doing
    delivered,  \* how often the provider has sent the mail: 0, 1, or 2 for more
    excused     \* history: a reason to send twice has occurred

mailVars == <<mail, attempts, failures, tasks, mailer, delivered, excused>>

\* do     send: send_notification_task; resend: resend_failed_notification;
\*        log: retry_notification
\* phase  read: it has read its row; reset: the row is PENDING again; asked, sent and
\*        refused: the provider is asked, has sent the mail, or has not
\* copy   what send_notification decides on
\* log    the log that is retried, by its attempts_count
Asleep == [do |-> "none", phase |-> "read", copy |-> 0, log |-> 0]

NotificationsInit ==
    /\ mail = [status |-> "none", retry_count |-> 0]
    /\ attempts = <<>>
    /\ failures = {}
    /\ tasks = 0
    /\ mailer = [w \in Mailers |-> Asleep]
    /\ delivered = 0
    /\ excused = FALSE

\* unsaved: created in a transaction that is still open.
Saved == mail.status \notin {"none", "unsaved"}
Sending(w) == mailer[w].phase \in {"asked", "sent", "refused"}
Sleeps(w) == mailer' = [mailer EXCEPT ![w] = Asleep]

-----------------------------------------------------------------------------
(* The outbox.                                                              *)

\* create_notification: the task is in the queue before its row is visible.
CreateNotification ==
    /\ mail.status = "none"
    /\ mail' = [mail EXCEPT !.status = "unsaved"]
    /\ tasks' = tasks + 1
    /\ UNCHANGED <<attempts, failures, mailer, delivered, excused>>

\* The caller commits.
CommitCaller ==
    /\ mail.status = "unsaved"
    /\ mail' = [mail EXCEPT !.status = "pending"]
    /\ UNCHANGED <<attempts, failures, tasks, mailer, delivered, excused>>

Queue == tasks < MaxTasks /\ tasks' = tasks + 1

\* Notification.can_retry
CanRetry(m) == m.status = "failed" /\ m.retry_count < MaxRetries

\* retry_pending_notifications_task
RetryPending ==
    /\ CanRetry(mail)
    /\ Queue
    /\ UNCHANGED <<mail, attempts, failures, mailer, delivered, excused>>

-----------------------------------------------------------------------------
(* Sending.                                                                 *)

\* Mutant of ToBeSent: a task that comes twice is not noticed.
ToBeSentAgain == Saved

\* if status in {SENT, SKIPPED}: return
ToBeSent == Saved /\ mail.status # "sent"

\* send_notification begins, from a copy; two that overlap are a reason to send twice.
Asks(w, do) ==
    /\ ToBeSent
    /\ mailer' = [mailer EXCEPT ![w] = [Asleep EXCEPT !.do = do, !.phase = "asked", !.copy = mail.retry_count]]
    /\ excused' = (excused \/ \E v \in Mailers \ {w} : Sending(v))

\* A task begins, or has nothing to do.
TakesTask(w) ==
    /\ mailer[w] = Asleep /\ tasks > 0 /\ tasks' = tasks - 1
    /\ Asks(w, "send") \/ (~ToBeSent /\ UNCHANGED <<mailer, excused>>)
    /\ UNCHANGED <<mail, attempts, failures, delivered>>

Provider(w, answer) ==
    /\ mailer[w].phase = "asked"
    /\ mailer' = [mailer EXCEPT ![w].phase = answer]
    /\ delivered' = IF answer = "sent" /\ delivered < 2 THEN delivered + 1 ELSE delivered
    /\ UNCHANGED <<mail, attempts, failures, tasks, excused>>

\* Celery runs the task again if it has failed and may be repeated.
Again(w) ==
    IF mailer[w].do = "send" /\ CanRetry(mail') THEN Queue ELSE UNCHANGED tasks

\* The attempt, the log and the row are written in one transaction.
Records(w) ==
    LET n == mailer[w].copy + 1
        status == IF mailer[w].phase = "sent" THEN "sent" ELSE "failed"
    IN  /\ mailer[w].phase \in {"sent", "refused"}
        /\ n \notin DOMAIN attempts
        /\ attempts' = [i \in DOMAIN attempts \cup {n} |-> IF i = n THEN status ELSE attempts[i]]
        /\ failures' = IF status = "failed" THEN failures \cup {n} ELSE failures
        /\ mail' = [status |-> status,
                    retry_count |-> mailer[w].copy + IF status = "failed" THEN 1 ELSE 0]
        /\ Again(w)
        /\ Sleeps(w)
        /\ UNCHANGED <<delivered, excused>>

\* The attempt is there already: IntegrityError, and all is rolled back but the mail.
RecordedBefore(w) ==
    /\ mailer[w].phase \in {"sent", "refused"}
    /\ mailer[w].copy + 1 \in DOMAIN attempts
    /\ Sleeps(w)
    /\ UNCHANGED <<mail, attempts, failures, tasks, delivered, excused>>

-----------------------------------------------------------------------------
(* Sending again.                                                           *)

\* Staff read a mail that has failed, for resend_failed_notification.
ReadsToResend(w) ==
    /\ mailer[w] = Asleep /\ CanRetry(mail)
    /\ mailer' = [mailer EXCEPT ![w].do = "resend"]
    /\ UNCHANGED <<mail, attempts, failures, tasks, delivered, excused>>

\* retry_notification reads a failed log, and asks nothing of the mail it is about.
ReadsLog(w, n) ==
    /\ mailer[w] = Asleep /\ n \in failures /\ n < MaxRetries
    /\ mailer' = [mailer EXCEPT ![w].do = "log", ![w].log = n]
    /\ UNCHANGED <<mail, attempts, failures, tasks, delivered, excused>>

\* status = PENDING is saved, whatever has become of the mail.
Resets(w) ==
    /\ mailer[w].do \in {"resend", "log"} /\ mailer[w].phase = "read"
    /\ mail' = [mail EXCEPT !.status = "pending"]
    /\ excused' = (excused \/ mail.status = "sent")
    /\ IF mailer[w].do = "resend"
       THEN Queue /\ Sleeps(w) /\ UNCHANGED failures
       ELSE /\ failures' = failures \ {mailer[w].log}
            /\ mailer' = [mailer EXCEPT ![w].phase = "reset"]
            /\ UNCHANGED tasks
    /\ UNCHANGED <<attempts, delivered>>

\* retry_notification sends at once.
SendsForLog(w) ==
    /\ mailer[w].phase = "reset"
    /\ Asks(w, "log") \/ (~ToBeSent /\ Sleeps(w) /\ UNCHANGED excused)
    /\ UNCHANGED <<mail, attempts, failures, tasks, delivered>>

\* The worker is killed, or its request fails.
MailerDies(w) ==
    /\ mailer[w] # Asleep
    /\ excused' = (excused \/ mailer[w].phase = "sent")
    /\ Sleeps(w)
    /\ UNCHANGED <<mail, attempts, failures, tasks, delivered>>

NotificationsNext ==
    \/ CreateNotification \/ CommitCaller \/ RetryPending
    \/ \E w \in Mailers :
         \/ TakesTask(w) \/ (\E answer \in {"sent", "refused"} : Provider(w, answer))
         \/ Records(w) \/ RecordedBefore(w)
         \/ ReadsToResend(w) \/ (\E n \in failures : ReadsLog(w, n)) \/ Resets(w) \/ SendsForLog(w)
         \/ MailerDies(w)

NotificationsSpec == NotificationsInit /\ [][NotificationsNext]_mailVars

-----------------------------------------------------------------------------
(* Properties.                                                              *)

\* The record of a mail tells what was sent, however its tasks are repeated and
\* overlap: the attempts are numbered without a gap, each but the last has failed, the
\* failed ones are the retries that were counted, and a mail that is SENT was delivered.
\* It is delivered a second time only if a worker has died between sending and
\* recording, two were sending at once, or it was made PENDING after it was sent.
MailsAccountedFor ==
    LET n == Cardinality(DOMAIN attempts)
    IN  /\ DOMAIN attempts = 1 .. n
        /\ \A i \in 1 .. n - 1 : attempts[i] = "failed"
        /\ mail.retry_count = Cardinality({i \in 1 .. n : attempts[i] = "failed"})
        /\ mail.status = "sent" => n > 0 /\ attempts[n] = "sent" /\ delivered > 0
        /\ delivered > 1 => excused

-----------------------------------------------------------------------------
(* The inductive invariant.                                                 *)

Tried == Cardinality(DOMAIN attempts)
Mailer == [do : {"none", "send", "resend", "log"},
           phase : {"read", "reset", "asked", "sent", "refused"}, copy : Nat, log : Nat]

NotificationsTypeOK ==
    /\ mail \in [status : {"none", "unsaved", "pending", "sent", "failed"}, retry_count : Nat]
    /\ Tried \in Nat /\ attempts \in [1 .. Tried -> {"sent", "failed"}]
    /\ failures \subseteq Nat /\ tasks \in Nat
    /\ mailer \in [Mailers -> Mailer]
    /\ delivered \in 0 .. 2 /\ excused \in BOOLEAN

\* The attempts have failed and were counted, all but a last one that has not.
AttemptsFit ==
    /\ \A i \in 1 .. Tried - 1 : attempts[i] = "failed"
    /\ mail.retry_count = IF Tried > 0 /\ attempts[Tried] = "sent" THEN Tried - 1 ELSE Tried
    /\ mail.status = "sent" => Tried > 0 /\ attempts[Tried] = "sent" /\ delivered > 0
    /\ \A w \in Mailers : mailer[w].copy <= mail.retry_count
    /\ \A w \in Mailers : mailer[w].phase = "sent" => delivered > 0

\* As long as there is no reason to send twice, one worker sends at a time, a mail whose
\* sending was recorded is SENT, and one that was delivered is SENT or about to be.
NothingToExcuse ==
    /\ \A v, w \in Mailers : Sending(v) /\ Sending(w) => v = w
    /\ \A w \in Mailers : Sending(w) => mailer[w].copy = Tried /\ mail.status # "sent"
    /\ mail.retry_count < Tried => mail.status = "sent"
    /\ delivered > 0 => mail.status = "sent" \/ \E w \in Mailers : mailer[w].phase = "sent"
    /\ delivered < 2

NothingYet == Tried = 0 /\ failures = {} /\ delivered = 0 /\ \A w \in Mailers : mailer[w] = Asleep

MailsInv ==
    /\ NotificationsTypeOK
    /\ AttemptsFit
    /\ ~Saved => NothingYet
    /\ ~excused => NothingToExcuse
=============================================================================
