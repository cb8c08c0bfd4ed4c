------------------------------ MODULE Identity ------------------------------
(***************************************************************************)
(* Who signs in and who stays signed in: an account with its logins        *)
(* (Accounts), the sessions they start (Sessions), and the browser that    *)
(* keeps one (Browser).  The requests of the first two read and write      *)
(* other rows, of users and of refresh_tokens, and Browser has its own,    *)
(* coarser server: so a step is one of any.                                *)
(***************************************************************************)
EXTENDS Accounts, Sessions, Browser

IdVars == <<AcVars, SsVars, BwVars>>

IdInit == AcInit /\ SsInit /\ BwInit
IdNext ==
    \/ AcNext /\ UNCHANGED <<SsVars, BwVars>>
    \/ SsNext /\ UNCHANGED <<AcVars, BwVars>>
    \/ BwNext /\ UNCHANGED <<AcVars, SsVars>>

IdSpec == IdInit /\ [][IdNext]_IdVars

\* Who signs in, and stays signed in: an account is locked by its own failures
\* alone and comes with its organisation; a session has one token that refreshes
\* it, none once it is revoked; and a tab shows what its session can do, and does
\* not end it by presenting a token twice (AccountsInOrder of Accounts,
\* OneTokenPerSession of Sessions, TabsInOrder of Browser).
SignedInInOrder == AccountsInOrder /\ OneTokenPerSession /\ TabsInOrder
=============================================================================
