----------------------------- MODULE Addresses ------------------------------
(***************************************************************************)
(* Where the reports of one user go: the report address, the address that  *)
(* waits to be verified and the link mailed to it                          *)
(* (notification/service.go), a row of user_notification_settings          *)
(* (store/repo/notification_repo.go).                                      *)
(*                                                                         *)
(* A request reads the settings and writes them later; between the new     *)
(* link in the row and the mail with it the API can die, and the mail can  *)
(* be refused.  A link is a number; whoever holds one can open it, again   *)
(* and again.                                                              *)
(*                                                                         *)
(* Left out: the switches for each kind of scan, how an address is parsed, *)
(* and a server without a mail backend (it starts no verification).        *)
(***************************************************************************)
EXTENDS Naturals

CONSTANTS
    Addresses,    \* addresses other than the account's
    Account,      \* the account's, and what a row says that has none
    MaxLinks,     \* bound: links made
    AdRequests,   \* requests that run at a time
    MaxAdFaults   \* bound: requests cut short, mails refused

ASSUME AddressesAssumption == {MaxLinks, MaxAdFaults} \subseteq Nat /\ Account \notin Addresses

VARIABLES
    report,     \* report_email
    waiting,    \* pending_email
    link,       \* pending_token_hash: the number of its link, 0 for none
    lapsed,     \* pending_expires_at has passed
    madeFor,    \* the links made, and the address each was made for
    mailed,     \* those that reached it
    opened,     \* those somebody has opened
    asking,     \* what each request has read and is about to do
    wanted,     \* the address the user asked for last
    crossed,    \* since then a request has overtaken another or was cut short
    adFaults

AdVars == <<report, waiting, link, lapsed, madeFor, mailed, opened, asking, wanted,
            crossed, adFaults>>

Somewhere == Addresses \cup {Account}
Links == 1 .. MaxLinks
NotAsking == [at |-> "none", to |-> Account, with |-> 0]

AdTypeOK ==
    /\ {report, waiting, wanted} \subseteq Somewhere
    /\ link \in 0 .. MaxLinks /\ {lapsed, crossed} \subseteq BOOLEAN
    /\ madeFor \in [Links -> Somewhere]
    /\ mailed \subseteq Links /\ opened \subseteq mailed
    /\ \A q \in AdRequests :
         /\ asking[q].at \in {"none", "write", "send"} /\ asking[q].to \in Somewhere
         /\ asking[q].with \in 0 .. MaxLinks
    /\ adFaults \in 0 .. MaxAdFaults

AdInit ==
    /\ report = Account /\ waiting = Account /\ link = 0 /\ lapsed = FALSE
    /\ madeFor = [l \in Links |-> Account] /\ mailed = {} /\ opened = {}
    /\ asking = [q \in AdRequests |-> NotAsking]
    /\ wanted = Account /\ crossed = FALSE /\ adFaults = 0

Asked(address) == [at |-> "write", to |-> address, with |-> 0]
Alone(q) == \A r \in AdRequests \ {q} : asking[r] = NotAsking

(***************************************************************************)
(* Asking for an address                                                   *)
(***************************************************************************)

\* changeReportEmail: for the account's address, when there is none set, and
\* for the address that is verified already there is nothing to do, whatever
\* waits.
NothingToDo(address) ==
    IF address = Account THEN report = Account /\ waiting = Account ELSE address = report

ReadForChange(q, address) ==
    /\ asking[q] = NotAsking
    /\ asking' = [asking EXCEPT ![q] =
                    IF NothingToDo(address) THEN NotAsking ELSE Asked(address)]
    /\ wanted' = address
    /\ crossed' = ~Alone(q)
    /\ UNCHANGED <<report, waiting, link, lapsed, madeFor, mailed, opened, adFaults>>

\* ResendVerification: for the address that waits, lapsed or not
ReadForResend(q) ==
    /\ asking[q] = NotAsking /\ waiting # Account
    /\ asking' = [asking EXCEPT ![q] = Asked(waiting)]
    /\ crossed' = (crossed \/ ~Alone(q))
    /\ UNCHANGED <<report, waiting, link, lapsed, madeFor, mailed, opened, wanted, adFaults>>

UseAccountEmail(q) ==
    /\ asking[q].at = "write" /\ asking[q].to = Account
    /\ report' = Account /\ waiting' = Account /\ link' = 0 /\ lapsed' = FALSE
    /\ asking' = [asking EXCEPT ![q] = NotAsking]
    /\ UNCHANGED <<madeFor, mailed, opened, wanted, crossed, adFaults>>

\* The links made so far, one each time
LinksMade == {l \in Links : madeFor[l] # Account}

(***************************************************************************)
(* (An operator whose comment says "instead" is a plausible mistake in the *)
(* operator it precedes; only the mutants use it.)                         *)
(***************************************************************************)

\* Instead: an address that waits keeps its link.
HashOfFirst(l) == IF link = 0 THEN l ELSE link
\* SetPendingEmail replaces the link of an address that waits.
HashOf(l) == l

SetPendingEmail(q, l) ==
    /\ asking[q].at = "write" /\ asking[q].to # Account
    /\ LinksMade = 1 .. (l - 1)
    /\ madeFor' = [madeFor EXCEPT ![l] = asking[q].to]
    /\ waiting' = asking[q].to /\ link' = HashOf(l) /\ lapsed' = FALSE
    /\ asking' = [asking EXCEPT ![q].at = "send", ![q].with = l]
    /\ UNCHANGED <<report, mailed, opened, wanted, crossed, adFaults>>

\* The mail with the link this request made
SendLink(q) ==
    /\ asking[q].at = "send"
    /\ mailed' = mailed \cup {asking[q].with}
    /\ asking' = [asking EXCEPT ![q] = NotAsking]
    /\ UNCHANGED <<report, waiting, link, lapsed, madeFor, opened, wanted, crossed, adFaults>>

\* The API dies, a statement fails, or the mail is refused.
CutOff(q) ==
    /\ asking[q] # NotAsking /\ adFaults < MaxAdFaults
    /\ asking' = [asking EXCEPT ![q] = NotAsking]
    /\ crossed' = TRUE
    /\ adFaults' = adFaults + 1
    /\ UNCHANGED <<report, waiting, link, lapsed, madeFor, mailed, opened, wanted>>

(***************************************************************************)
(* The link                                                                *)
(***************************************************************************)

Lapse ==
    /\ waiting # Account /\ ~lapsed
    /\ lapsed' = TRUE
    /\ UNCHANGED <<report, waiting, link, madeFor, mailed, opened, asking, wanted, crossed, adFaults>>

\* ConfirmReportEmail: one statement, by the hash of the token
Open(l) ==
    /\ l \in mailed
    /\ opened' = opened \cup {l}
    /\ IF link = l /\ ~lapsed
       THEN report' = waiting /\ waiting' = Account /\ link' = 0
       ELSE UNCHANGED <<report, waiting, link>>
    /\ UNCHANGED <<lapsed, madeFor, mailed, asking, wanted, crossed, adFaults>>

AdNext ==
    \/ \E q \in AdRequests :
         \/ \E a \in Somewhere : ReadForChange(q, a)
         \/ ReadForResend(q) \/ UseAccountEmail(q) \/ SendLink(q) \/ CutOff(q)
         \/ \E l \in Links : SetPendingEmail(q, l)
    \/ Lapse
    \/ \E l \in Links : Open(l)

AdSpec == AdInit /\ [][AdNext]_AdVars

(***************************************************************************)
(* Properties                                                              *)
(***************************************************************************)

\* Reports go to the account's address or to one where somebody has opened a
\* link mailed to it ("A new address isn't used until verified"). And they go
\* to the account's once the user has gone back to it, whatever links are still
\* about, unless that request was cut short or another one got in its way.
ReportsGoWhereVerified ==
    /\ report # Account => \E l \in opened : madeFor[l] = report
    /\ wanted = Account /\ ~crossed /\ (\A q \in AdRequests : asking[q] = NotAsking)
         => report = Account
=============================================================================
