------------------------------ MODULE Mailbox ------------------------------
(***************************************************************************)
(* What e-mail delivery promises of a letter, whatever workers, crashes,   *)
(* retries and webhooks it takes: a letter that was never tried may be     *)
(* dropped, and then it never goes out; from the first try its text is     *)
(* fixed; the provider mails that text at most once; and it is said to     *)
(* have been sent only after it was, for good.  (docs/notifications.md,    *)
(* app/notifications/worker.py: the detailed module is EmailDelivery.)     *)
(***************************************************************************)
EXTENDS Naturals

CONSTANTS
    Letter,         \* letters
    Blank           \* the text of a letter that has none yet

VARIABLES
    stage,          \* [Letter -> Stages]
    text,           \* the text fixed at the first try
    mailed,         \* the text the provider mailed
    copies          \* how often it did

mailbox == <<stage, text, mailed, copies>>

Stages == {"none", "waiting", "tried", "sent", "dropped"}

MailboxInit ==
    /\ stage = [l \in Letter |-> "none"]
    /\ text = [l \in Letter |-> Blank]
    /\ mailed = [l \in Letter |-> Blank]
    /\ copies = [l \in Letter |-> 0]

-----------------------------------------------------------------------------
(* The steps of one letter.                                                  *)

Goes(l, from, to) == stage[l] = from /\ stage'[l] = to

TextKept(l) == text'[l] = text[l]
MailKept(l) == mailed'[l] = mailed[l] /\ copies'[l] = copies[l]

Keep(l) == stage'[l] = stage[l] /\ TextKept(l) /\ MailKept(l)

Write(l) == Goes(l, "none", "waiting") /\ TextKept(l) /\ MailKept(l)

\* cancelled, expired, or folded into a recap
Drop(l) == Goes(l, "waiting", "dropped") /\ TextKept(l) /\ MailKept(l)

FirstTry(l) == Goes(l, "waiting", "tried") /\ text'[l] # Blank /\ MailKept(l)

Post(l) ==
    /\ stage[l] = "tried" /\ stage'[l] = "tried" /\ TextKept(l)
    /\ copies[l] = 0 /\ copies'[l] = 1
    /\ mailed'[l] = text[l]

Confirm(l) == Goes(l, "tried", "sent") /\ copies[l] = 1 /\ TextKept(l) /\ MailKept(l)

\* one transaction may settle several letters
MailboxNext ==
    \A l \in Letter :
        Keep(l) \/ Write(l) \/ Drop(l) \/ FirstTry(l) \/ Post(l) \/ Confirm(l)

MailboxSpec == MailboxInit /\ [][MailboxNext]_mailbox
=============================================================================
