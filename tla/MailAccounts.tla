---------------------------- MODULE MailAccounts ----------------------------
(***************************************************************************)
(* The email account of a user: the flag "main", the token of OAuth 2.0    *)
(* that a provider gives on his request, its form, and the sender of mass  *)
(* mailings that saves whole accounts (massmail/views/get_oauth2_tokens.py,*)
(* massmail/site/emailaccountadmin.py, massmail/utils/sendmassmail.py,     *)
(* massmail/backends/smtp.py).  Tokens are numbered, 0 is none.            *)
(***************************************************************************)
EXTENDS Integers

CONSTANTS MaxTokens   \* bound: tokens given

ASSUME AccountsAssumption == MaxTokens \in Nat

VARIABLES
    account,   \* the row of the account
    given,     \* the last token given
    visit,     \* the view that waits for the provider
    form,      \* the page of the form of the account
    mailer,    \* the account as the sender of mailings has loaded it
    stale      \* history: a row read before a token was saved has been saved

access == <<account, given, visit, form, mailer, stale>>
NoCopy == [main |-> FALSE, token |-> -1]

InitAccounts ==
    /\ account \in [main : BOOLEAN, token : {0}]
    /\ given = 0 /\ visit = NoCopy /\ form = NoCopy /\ mailer = NoCopy /\ stale = FALSE

\* A copy of the row is saved whole, when the last token is the given one.
SaveToken(copy, row, token) ==
    /\ account' = row
    /\ stale' = (row.token # token /\ (stale \/ copy.token # account.token))

\* get_refresh_token: the user comes back from the provider with a code.
LoadForToken ==
    /\ visit = NoCopy /\ visit' = account
    /\ UNCHANGED <<account, given, form, mailer, stale>>
\* The token to be saved, -1 when the answer is an error.
Answered(ok) == IF ok THEN given + 1 ELSE -1
TokenComes(ok) ==
    /\ visit # NoCopy /\ visit' = NoCopy /\ (ok => given < MaxTokens)
    /\ given' = IF ok THEN given + 1 ELSE given
    /\ IF Answered(ok) = -1 THEN UNCHANGED <<account, stale>>
       ELSE SaveToken(visit, [visit EXCEPT !.token = Answered(ok)], given')
    /\ UNCHANGED <<form, mailer>>

\* The form shows the token, and saves what it showed.
ShowAccount ==
    /\ form # account /\ form' = account
    /\ UNCHANGED <<account, given, visit, mailer, stale>>
PostAccount(main) ==
    /\ form # NoCopy /\ form' = NoCopy
    /\ SaveToken(form, [form EXCEPT !.main = main], given)
    /\ UNCHANGED <<given, visit, mailer>>

\* send_massmail loads the account before a mail, and saves it after.
LoadToMail ==
    /\ mailer = NoCopy /\ mailer' = account
    /\ UNCHANGED <<account, given, visit, form, stale>>
CountMail ==
    /\ mailer # NoCopy /\ mailer' = NoCopy
    /\ SaveToken(mailer, mailer, given)
    /\ UNCHANGED <<given, visit, form>>

ReadAccount == LoadForToken \/ ShowAccount \/ LoadToMail
WriteAccount == CountMail \/ \E b \in BOOLEAN : TokenComes(b) \/ PostAccount(b)
=============================================================================
