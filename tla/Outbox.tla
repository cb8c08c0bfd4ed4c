------------------------------- MODULE Outbox -------------------------------
(***************************************************************************)
(* Report emails: ScanFinished writes the feed entry and queues the email  *)
(* (notification/service.go), the senders of the worker replicas claim     *)
(* batches of due emails and deliver them (notification/sender.go), and    *)
(* the rows of scan_report_emails (store/repo/notification_repo.go) keep   *)
(* the attempts and the lease.                                             *)
(*                                                                         *)
(* One action per statement and per call of the mail provider.  A scan is  *)
(* attributed to one user, so that an email goes by its scan.  Whether     *)
(* next_attempt_at has come is all that is kept of it.                     *)
(*                                                                         *)
(* Left out: what is in the email, how long the backoff is, who may see    *)
(* the feed, and the address a report goes to.                             *)
(***************************************************************************)
EXTENDS Naturals, FiniteSets

CONSTANTS
    FinishedScans,  \* scans that reach a terminal status
    Senders,        \* worker replicas
    SenderBatch,    \* senderBatch
    MaxAttempts,    \* maxAttempts
    NoMail,         \* no email in hand
    MaxObFaults,    \* bound: crashes, failed writes, answers of the provider lost
    MaxLapses       \* bound: leases that run out

ASSUME OutboxAssumption ==
    /\ {SenderBatch, MaxAttempts} \subseteq Nat \ {0}
    /\ {MaxObFaults, MaxLapses} \subseteq Nat
    /\ NoMail \notin FinishedScans

VARIABLES
    telling,    \* how far ScanFinished has come for each scan
    mail,       \* scan_report_emails.status
    attempts,   \* scan_report_emails.attempts
    due,        \* next_attempt_at has come
    batch,      \* the claimed emails of each sender, with the attempt of each
    inHand,     \* the email a sender has given to the provider, and the answer
    delivered,  \* how often the provider took each email
    obFaults,   \* faults so far
    lapses      \* leases that ran out so far

ObVars == <<telling, mail, attempts, due, batch, inHand, delivered, obFaults, lapses>>

Claims == [scan : FinishedScans, nth : Nat]
Nothing == [scan |-> NoMail, nth |-> 0, answer |-> "none"]

ObTypeOK ==
    /\ telling \in [FinishedScans -> {"finished", "in_feed", "not_wanted", "queued", "lost"}]
    /\ mail \in [FinishedScans -> {"none", "pending", "sending", "sent", "failed"}]
    /\ attempts \in [FinishedScans -> Nat]
    /\ due \in [FinishedScans -> BOOLEAN]
    /\ batch \in [Senders -> SUBSET Claims]
    /\ \A z \in Senders : IsFiniteSet(batch[z]) /\ Cardinality(batch[z]) <= SenderBatch
    /\ inHand \in [Senders -> [scan : FinishedScans \cup {NoMail}, nth : Nat,
                              answer : {"none", "taken", "refused"}]]
    /\ delivered \in [FinishedScans -> Nat]
    /\ obFaults \in 0 .. MaxObFaults /\ lapses \in 0 .. MaxLapses

ObInit ==
    /\ telling = [s \in FinishedScans |-> "finished"]
    /\ mail = [s \in FinishedScans |-> "none"]
    /\ attempts = [s \in FinishedScans |-> 0]
    /\ due = [s \in FinishedScans |-> FALSE]
    /\ batch = [z \in Senders |-> {}]
    /\ inHand = [z \in Senders |-> Nothing]
    /\ delivered = [s \in FinishedScans |-> 0]
    /\ obFaults = 0 /\ lapses = 0

(***************************************************************************)
(* ScanFinished                                                            *)
(***************************************************************************)

\* CreateNotification; then no email for a cancelled scan, without a mail
\* backend, or for a user who does not want one.
TellFeed(s, next) ==
    /\ telling[s] = "finished" /\ next \in {"in_feed", "not_wanted"}
    /\ telling' = [telling EXCEPT ![s] = next]
    /\ UNCHANGED <<mail, attempts, due, batch, inHand, delivered, obFaults, lapses>>

\* EnqueueReportEmail
QueueEmail(s) ==
    /\ telling[s] = "in_feed"
    /\ telling' = [telling EXCEPT ![s] = "queued"]
    /\ mail' = [mail EXCEPT ![s] = "pending"]
    /\ due' = [due EXCEPT ![s] = TRUE]
    /\ UNCHANGED <<attempts, batch, inHand, delivered, obFaults, lapses>>

\* A statement fails, or the worker dies: nobody calls ScanFinished again.
LoseAnnouncement(s) ==
    /\ telling[s] \in {"finished", "in_feed"} /\ obFaults < MaxObFaults
    /\ telling' = [telling EXCEPT ![s] = "lost"]
    /\ obFaults' = obFaults + 1
    /\ UNCHANGED <<mail, attempts, due, batch, inHand, delivered, lapses>>

(***************************************************************************)
(* Sender.RunOnce                                                          *)
(* (An operator whose comment says "instead" is a plausible mistake in the *)
(* operator it precedes; only the mutants use it.)                         *)
(***************************************************************************)

Held(s) == \E z \in Senders : \E c \in batch[z] : c.scan = s

\* The backoff ends, or the lease does: a lease that runs out while its sender
\* still has the email is a lapse.
ComeDue(s) ==
    LET lapse == mail[s] = "sending" /\ Held(s) IN
    /\ mail[s] \in {"pending", "sending"} /\ ~due[s]
    /\ lapse => lapses < MaxLapses
    /\ due' = [due EXCEPT ![s] = TRUE]
    /\ lapses' = IF lapse THEN lapses + 1 ELSE lapses
    /\ UNCHANGED <<telling, mail, attempts, batch, inHand, delivered, obFaults>>

\* Instead: an email somebody has claimed is never taken from them.
ClaimablePending == {"pending"}
Claimable == {"pending", "sending"}

DueEmails == {s \in FinishedScans : mail[s] \in Claimable /\ due[s]}

\* Instead: the claim does not move next_attempt_at.
WithoutLease(S) == due
WithLease(S) == [s \in FinishedScans |-> s \notin S /\ due[s]]

\* ClaimDueEmails: as many as fit in a batch, each with one more attempt, and
\* a lease. FOR UPDATE SKIP LOCKED makes one step of it.
ClaimEmails(z, S) ==
    /\ batch[z] = {}
    /\ S # {} /\ S \subseteq DueEmails
    /\ Cardinality(S) <= SenderBatch
    /\ Cardinality(S) = SenderBatch \/ S = DueEmails
    /\ mail' = [s \in FinishedScans |-> IF s \in S THEN "sending" ELSE mail[s]]
    /\ attempts' = [s \in FinishedScans |-> IF s \in S THEN attempts[s] + 1 ELSE attempts[s]]
    /\ due' = WithLease(S)
    /\ batch' = [batch EXCEPT ![z] = {[scan |-> s, nth |-> attempts[s] + 1] : s \in S}]
    /\ UNCHANGED <<telling, inHand, delivered, obFaults, lapses>>

\* Mailer.Send, one email of the batch after the other
SendEmail(z, c, answer) ==
    /\ inHand[z] = Nothing /\ c \in batch[z]
    /\ inHand' = [inHand EXCEPT ![z] = [scan |-> c.scan, nth |-> c.nth, answer |-> answer]]
    /\ delivered' = [delivered EXCEPT ![c.scan] = IF answer = "taken" THEN @ + 1 ELSE @]
    /\ UNCHANGED <<telling, mail, attempts, due, batch, obFaults, lapses>>

\* The provider takes the email and its answer is lost.
SendUnanswered(z, c) ==
    /\ inHand[z] = Nothing /\ c \in batch[z] /\ obFaults < MaxObFaults
    /\ inHand' = [inHand EXCEPT ![z] = [scan |-> c.scan, nth |-> c.nth, answer |-> "refused"]]
    /\ delivered' = [delivered EXCEPT ![c.scan] = @ + 1]
    /\ obFaults' = obFaults + 1
    /\ UNCHANGED <<telling, mail, attempts, due, batch, lapses>>

GivesUp(z) == inHand[z].nth >= MaxAttempts

\* MarkEmailSent, MarkEmailFailed or MarkEmailRetry: by its id, whatever has
\* become of the row since this sender claimed it.
MarkEmail(z) ==
    LET s == inHand[z].scan
        status == IF inHand[z].answer = "taken" THEN "sent"
                  ELSE IF GivesUp(z) THEN "failed" ELSE "pending"
    IN
    /\ inHand[z] # Nothing
    /\ mail' = [mail EXCEPT ![s] = status]
    /\ due' = [due EXCEPT ![s] = @ /\ status # "pending"]
    /\ batch' = [batch EXCEPT ![z] = {c \in @ : c.scan # s}]
    /\ inHand' = [inHand EXCEPT ![z] = Nothing]
    /\ UNCHANGED <<telling, attempts, delivered, obFaults, lapses>>

\* The statement fails: it is logged, and the sender goes on.
MarkFails(z) ==
    /\ inHand[z] # Nothing /\ obFaults < MaxObFaults
    /\ batch' = [batch EXCEPT ![z] = {c \in @ : c.scan # inHand[z].scan}]
    /\ inHand' = [inHand EXCEPT ![z] = Nothing]
    /\ obFaults' = obFaults + 1
    /\ UNCHANGED <<telling, mail, attempts, due, delivered, lapses>>

\* The worker dies or shuts down in the middle of a batch.
DropBatch(z) ==
    /\ batch[z] # {} /\ obFaults < MaxObFaults
    /\ batch' = [batch EXCEPT ![z] = {}]
    /\ inHand' = [inHand EXCEPT ![z] = Nothing]
    /\ obFaults' = obFaults + 1
    /\ UNCHANGED <<telling, mail, attempts, due, delivered, lapses>>

ObTell(s) == QueueEmail(s) \/ \E next \in {"in_feed", "not_wanted"} : TellFeed(s, next)

ObSend(z) ==
    \/ \E S \in SUBSET FinishedScans : ClaimEmails(z, S)
    \/ \E c \in batch[z], answer \in {"taken", "refused"} : SendEmail(z, c, answer)
    \/ MarkEmail(z)

ObNext ==
    \/ \E s \in FinishedScans : ObTell(s) \/ LoseAnnouncement(s) \/ ComeDue(s)
    \/ \E z \in Senders :
         ObSend(z) \/ MarkFails(z) \/ DropBatch(z) \/ \E c \in batch[z] : SendUnanswered(z, c)

ObSpec == ObInit /\ [][ObNext]_ObVars

(***************************************************************************)
(* Properties                                                              *)
(***************************************************************************)

\* A report is emailed once: "two worker replicas never pick up the same
\* email". Each further copy takes a lease that ran out under its sender, a
\* crash, a write that failed or an answer that was lost.
EmailedOnce ==
    \A s \in FinishedScans : delivered[s] <= 1 + lapses + obFaults

\* Whoever finds the scan in the feed and wants its report gets it by email,
\* or the email is given up on after its attempts, whatever sender dies with it
\* and however the senders overtake each other; only a fault between the feed
\* entry and the email leaves the scan without one.
ReportIsMailed ==
    \A s \in FinishedScans :
        telling[s] = "in_feed" ~> telling[s] = "lost" \/ mail[s] \in {"sent", "failed"}
=============================================================================
