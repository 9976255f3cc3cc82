------------------------------ MODULE Requests ------------------------------
(***************************************************************************)
(* From an inquiry to a deal: requests, the lead or contact each is linked *)
(* to, the deal made of it and the mails filed under its ticket, while the *)
(* import threads, the users of the admin site, the conversion of leads    *)
(* and the removal of duplicates work on the same rows                     *)
(* (crm/models/request.py, crm/site/requestadmin.py, crm/site/leadadmin.py,*)
(* crm/utils/create_email_request.py, crm/utils/restore_imap_emails.py,    *)
(* crm/views/delete_duplicate_object.py).                                  *)
(*                                                                         *)
(* All inquiries are of one person, whom every search finds by name and    *)
(* address; whether a search by company name or domain finds a company is  *)
(* data, and so a choice.  A request of the admin site is a transaction:   *)
(* it loads rows and validates, then saves, which locks the row it saves;  *)
(* the threads and the view that removes duplicates commit every statement *)
(* by itself.  The database checks foreign keys, deletes in cascade and    *)
(* makes a write that refers to a row wait for the one who has locked it.  *)
(*                                                                         *)
(* A deal has the unique ticket of its request, so both have the same id   *)
(* here.  Not modelled: owners, departments and the other columns they     *)
(* share, deletion by hand, Deal.company, Lead.contact, merging companies. *)
(***************************************************************************)
EXTENDS Integers, Sequences, FiniteSets, FiniteSetsExt, Functions

CONSTANTS Reqs,       \* inquiries, and the requests made of them
          Companies,  \* companies the CRM has
          Users,      \* users of the admin site
          MaxId,      \* bound: ids of leads and contacts
          MaxOps      \* bound: posted pages, conversions and merges

Nobody == 0
NoCompany == "none"

ASSUME RequestsAssumption ==
    /\ IsFiniteSet(Reqs) /\ NoCompany \notin Companies
    /\ MaxId \in Nat \ {0, 1} /\ MaxOps \in Nat

VARIABLES
    lead,     \* ids of the leads
    contact,  \* the contacts: their companies, by id
    request,  \* the requests
    deal,     \* the deals
    mail,     \* mails with a ticket: the inquiry and a reply of each request
    next,     \* the next free id
    arr,      \* the thread that makes a request of an inquiry
    rep,      \* the thread that files a reply
    page,     \* the request form each user has open, as it was then
    tx,       \* the transaction each user has in progress
    merge,    \* the removal of a duplicate in progress
    ops,      \* actions used, bounded by MaxOps
    raced,    \* history: a client was made of an outdated search
    stale,    \* history: requests posted from an outdated or emptied form
    kept,     \* history: requests whose deal kept the lead when they got a contact
    late      \* history: requests saved with a duplicate being removed

rows == <<lead, contact, request, deal, mail, next>>
threads == <<arr, rep>>
history == <<raced, stale, kept, late>>
vars == <<rows, threads, page, tx, merge, ops, history>>
-----------------------------------------------------------------------------
Ids == 1..MaxId
Kinds == {"lead", "contact"}
\* What find_company can find: any company or none.
Firms == Companies \cup {NoCompany}
MailIds == Reqs \X {"inquiry", "reply"}

Row(l, c, firm) == [lead |-> l, contact |-> c, company |-> firm,
                    deal |-> FALSE, pending |-> TRUE, duplicate |-> FALSE]
Ends == [lead |-> Nobody, contact |-> Nobody]
Arr(pc) == [pc |-> pc, row |-> Row(Nobody, Nobody, NoCompany)]
Rep(pc) == [pc |-> pc, deal |-> FALSE, ends |-> Ends]
NoPage == [r |-> Nobody]
NoTx == [kind |-> "none"]
NoMerge == [kind |-> "none"]

Clients == lead \cup DOMAIN contact
HasClient(x) == x.lead # Nobody \/ x.contact # Nobody
Put(f, x, v) == [y \in DOMAIN f \cup {x} |-> IF y = x THEN v ELSE f[y]]
Drop(f, S) == Restrict(f, DOMAIN f \ S)

\* The foreign keys of x are those of rows there are.
Refers(x) == /\ x.lead \in lead \cup {Nobody}
             /\ x.contact \in DOMAIN contact \cup {Nobody}
\* Leads a conversion has saved and is about to delete.
Locked == {tx[u].lead : u \in {v \in Users : tx[v].kind = "convert"}}
\* A row refers, now, to a client that is being removed as a duplicate.
Doomed(x) == merge.kind \in Kinds /\ x[merge.kind] = merge.dup
\* Requests that refer to one of the clients, by themselves, a deal or a mail.
Touched(S) ==
    {r \in DOMAIN request : {request[r].lead, request[r].contact} \cap S # {}}
    \cup {r \in DOMAIN deal : {deal[r].lead, deal[r].contact} \cap S # {}}
    \cup {m[1] : m \in {n \in DOMAIN mail : {mail[n].lead, mail[n].contact} \cap S # {}}}

\* The client found for a request, and a company with a contact.
Found(row) ==
    IF DOMAIN contact # {}
    THEN LET c == Min(DOMAIN contact)
         IN  IF row.company \in {NoCompany, contact[c]}
             THEN [row EXCEPT !.contact = c, !.company = contact[c]]
             ELSE row
    ELSE IF lead # {} THEN [row EXCEPT !.lead = Min(lead)]
    ELSE row

\* At most two clients, leads first: ids are compared within a kind only.
Init ==
    /\ \E l \in 0..2 : \E c \in l..2 : /\ lead = 1..l
                                      /\ contact \in [(l + 1)..c -> Companies]
    /\ next = 3
    /\ request = <<>> /\ deal = <<>> /\ mail = <<>>
    /\ arr = [r \in Reqs |-> Arr("new")]
    /\ rep = [r \in Reqs |-> Rep("new")]
    /\ page = [u \in Users |-> NoPage]
    /\ tx = [u \in Users |-> NoTx]
    /\ merge = NoMerge
    /\ ops = 0
    /\ raced = FALSE /\ stale = {} /\ kept = {} /\ late = {}
-----------------------------------------------------------------------------
(* The threads.                                                            *)

\* The client is looked for before the request is saved.
FindInquiry(r) ==
    /\ arr[r].pc = "new"
    /\ arr' = [arr EXCEPT ![r] = [pc |-> "found", row |-> Found(@.row)]]
    /\ UNCHANGED <<rows, rep, page, tx, merge, ops, history>>

\* An error is mailed to the administrators and the inquiry stays without
\* a request.
SaveInquiry(r) ==
    /\ arr[r].pc = "found" /\ arr[r].row.lead \notin Locked
    /\ IF Refers(arr[r].row)
       THEN /\ request' = Put(request, r, arr[r].row)
            /\ arr' = [arr EXCEPT ![r].pc = "saved"]
            /\ late' = IF Doomed(arr[r].row) THEN late \cup {r} ELSE late
       ELSE /\ arr' = [arr EXCEPT ![r] = Arr("lost")]
            /\ UNCHANGED <<request, late>>
    /\ UNCHANGED <<lead, contact, deal, mail, next, rep, page, tx, merge, ops, raced, stale, kept>>

\* The mail gets the ticket, the request and its client as it was saved.
LinkInquiry(r) ==
    LET x == arr[r].row IN
    /\ arr[r].pc = "saved" /\ x.lead \notin Locked
    /\ IF r \in DOMAIN request /\ Refers(x)
       THEN /\ mail' = Put(mail, <<r, "inquiry">>,
                           [lead |-> x.lead, contact |-> x.contact, deal |-> FALSE,
                            late |-> r \in DOMAIN deal])
            /\ arr' = [arr EXCEPT ![r] = Arr("done")]
            /\ late' = IF Doomed(x) THEN late \cup {r} ELSE late
       ELSE /\ arr' = [arr EXCEPT ![r] = Arr("lost")]
            /\ UNCHANGED <<mail, late>>
    /\ UNCHANGED <<lead, contact, request, deal, next, rep, page, tx, merge, ops, raced, stale, kept>>

\* The client of the deal with the ticket, or that of the request.
ReadReply(r) ==
    LET x == IF r \in DOMAIN deal THEN deal[r] ELSE request[r] IN
    /\ rep[r].pc = "new" /\ r \in DOMAIN request
    /\ rep' = [rep EXCEPT ![r] =
                  [pc |-> "read", deal |-> r \in DOMAIN deal,
                   ends |-> [lead |-> x.lead, contact |-> x.contact]]]
    /\ UNCHANGED <<rows, arr, page, tx, merge, ops, history>>

\* A mail that cannot be saved is read again, or never if later ones were.
SaveReply(r) ==
    LET x == rep[r].ends IN
    /\ rep[r].pc = "read" /\ x.lead \notin Locked
    /\ IF r \in DOMAIN request /\ (rep[r].deal => r \in DOMAIN deal) /\ Refers(x)
       THEN /\ mail' = Put(mail, <<r, "reply">>,
                           [lead |-> x.lead, contact |-> x.contact, deal |-> rep[r].deal,
                            late |-> r \in DOMAIN deal /\ ~rep[r].deal])
            /\ rep' = [rep EXCEPT ![r] = Rep("done")]
            /\ late' = IF Doomed(x) THEN late \cup {r} ELSE late
       ELSE /\ \E pc \in {"new", "lost"} : rep' = [rep EXCEPT ![r] = Rep(pc)]
            /\ UNCHANGED <<mail, late>>
    /\ UNCHANGED <<lead, contact, request, deal, next, arr, page, tx, merge, ops, raced, stale, kept>>
-----------------------------------------------------------------------------
(* The form of a request.                                                  *)

\* (Bound: only while the page may be sent.)
OpenPage(u, r) ==
    /\ ops < MaxOps
    /\ page[u] = NoPage /\ tx[u] = NoTx /\ r \in DOMAIN request
    /\ page' = [page EXCEPT ![u] = [r |-> r, row |-> request[r]]]
    /\ UNCHANGED <<rows, threads, tx, merge, ops, history>>

\* What the form accepts.
Valid(x) ==
    /\ Refers(x)
    /\ ~(x.contact # Nobody /\ x.lead # Nobody)
    /\ ~(x.company # NoCompany /\ x.lead # Nobody)
    /\ x.contact # Nobody => x.company \in {NoCompany, contact[x.contact]}

\* The row as the form posts it: over the one loaded now, with the link to
\* the deal that the page showed.
Posted(u, l, c, firm, dup, create) ==
    LET now == request[page[u].r] IN
    [lead |-> l, contact |-> c, company |-> firm, deal |-> page[u].row.deal,
     pending |-> now.pending /\ ~create /\ ~(dup /\ ~now.duplicate),
     duplicate |-> dup]

WithCompany(x) == IF x.company = NoCompany /\ x.contact # Nobody
                  THEN [x EXCEPT !.company = contact[x.contact]] ELSE x

\* The new client is a contact of the company found or else a lead.
Mutant_NewClient(x, firm) ==  \* a lead is made although there is one
    IF HasClient(x) \/ x.pending \/ DOMAIN contact # {} THEN "no"
    ELSE IF firm # NoCompany /\ lead = {} THEN "contact" ELSE "lead"
NewClient(x, firm) == IF HasClient(x) \/ x.pending \/ Clients # {} THEN "no"
                      ELSE IF firm # NoCompany THEN "contact" ELSE "lead"

\* The row as it will be saved, a new client aside; firm is the company a
\* search finds.
Filled(x, firm) ==
    LET y == IF HasClient(x) THEN x ELSE Found(x) IN
    IF x.pending
    THEN LET z == IF y.contact # Nobody
                  THEN [y EXCEPT !.company = contact[y.contact]] ELSE y
         IN  IF z.company = NoCompany THEN [z EXCEPT !.company = firm] ELSE z
    ELSE IF NewClient(x, firm) = "no" THEN WithCompany(y)
    ELSE [y EXCEPT !.company = firm]

\* The row is loaded and the form, with any client the user chooses, is
\* validated; the search for a client comes before the first write.
LoadPost(u) ==
    /\ ops < MaxOps /\ page[u] # NoPage /\ tx[u] = NoTx /\ page[u].r \in DOMAIN request
    /\ \E l \in lead \cup {Nobody}, c \in DOMAIN contact \cup {Nobody}, posted, firm \in Firms,
          dup, create \in BOOLEAN :
        LET x == Posted(u, l, c, posted, dup, create)
            now == request[page[u].r] IN
        /\ Valid(x)
        /\ create => ~page[u].row.deal
        /\ tx' = [tx EXCEPT ![u] =
              [kind |-> "post", r |-> page[u].r, row |-> Filled(x, firm),
               new |-> NewClient(x, firm), create |-> create,
               changed |-> {k \in Kinds : x[k] # now[k]},
               old |-> page[u].row, outdated |-> page[u].row # now, alone |-> Clients = {},
               emptied |-> ~HasClient(x)]]
    /\ ops' = ops + 1
    /\ UNCHANGED <<rows, threads, page, merge, history>>

\* The row with the client that the transaction itself has made.
WithNew(t) == IF t.new = "no" THEN t.row ELSE [t.row EXCEPT ![t.new] = next]

\* _get_or_create_deal, unless there is nothing to do.
CreatesDeal(t, row) == t.create /\ ~row.pending /\ ~row.deal /\ ~row.duplicate
DealOf(r, row) ==
    IF r \in DOMAIN deal THEN deal[r]
    ELSE [lead |-> IF row.contact = Nobody THEN row.lead ELSE Nobody,
          contact |-> row.contact, partner |-> Nobody]
\* A client the user has changed, and not emptied, is changed in the deal.
Changed(t, row, d) ==
    [d EXCEPT !.lead = IF "lead" \in t.changed /\ row.lead # Nobody THEN row.lead ELSE @,
              !.contact = IF "contact" \in t.changed /\ row.contact # Nobody
                          THEN row.contact ELSE @]

\* _update_request_email: the inquiry of a request that is processed.
Mailed(t, row) ==
    [m \in DOMAIN mail |->
        IF m = <<t.r, "inquiry">> /\ ~row.pending /\ ~mail[m].deal
        THEN [mail[m] EXCEPT !.deal = row.deal, !.lead = row.lead] ELSE mail[m]]
\* The mails with the ticket that have no deal get it.
Filed(t, row, f) ==
    [m \in DOMAIN f |-> IF m[1] = t.r /\ CreatesDeal(t, row)
                        THEN [f[m] EXCEPT !.deal = TRUE] ELSE f[m]]

\* The request keeps the link to its deal.
Mutant_Linked(t, row) == row  \* the deal is not saved on the request
Linked(t, row) == IF CreatesDeal(t, row) THEN [row EXCEPT !.deal = TRUE] ELSE row

CommitPost(u) ==
    LET t == tx[u]
        row == WithNew(t)
    IN
    /\ t.kind = "post" /\ row.lead \notin Locked
    /\ t.new # "no" => next <= MaxId
    /\ Refers(t.row) /\ (row.deal => t.r \in DOMAIN deal)
    /\ IF t.new = "no" THEN UNCHANGED <<lead, contact, next>>
       ELSE /\ next' = next + 1
            /\ lead' = IF t.new = "lead" THEN lead \cup {next} ELSE lead
            /\ contact' = IF t.new = "contact" THEN Put(contact, next, row.company) ELSE contact
    /\ request' = Put(request, t.r, Linked(t, row))
    /\ deal' = IF row.deal \/ CreatesDeal(t, row)
               THEN Put(deal, t.r, Changed(t, row, DealOf(t.r, row))) ELSE deal
    /\ mail' = Filed(t, row, Mailed(t, row))
    /\ raced' = (raced \/ (t.new # "no" /\ t.alone /\ Clients # {}))
    /\ stale' = IF t.r \notin DOMAIN request \/ t.outdated \/ request[t.r] # t.old
                   \/ (t.emptied /\ t.r \in DOMAIN deal)
                THEN stale \cup {t.r} ELSE stale
    /\ kept' = IF t.r \in DOMAIN deal /\ deal[t.r].lead # Nobody /\ row.lead = Nobody
               THEN kept \cup {t.r} ELSE kept
    /\ late' = IF Doomed(row) THEN late \cup {t.r} ELSE late
    /\ tx' = [tx EXCEPT ![u] = NoTx]
    /\ page' = [page EXCEPT ![u] = NoPage]
    /\ UNCHANGED <<threads, merge, ops>>

\* A foreign key fails: the transaction is rolled back.
AbortPost(u) ==
    LET t == tx[u] IN
    /\ t.kind = "post" /\ (t.row.lead \notin Locked)
    /\ ~Refers(t.row) \/ (t.row.deal /\ t.r \notin DOMAIN deal)
    /\ tx' = [tx EXCEPT ![u] = NoTx]
    /\ page' = [page EXCEPT ![u] = NoPage]
    /\ UNCHANGED <<rows, threads, merge, ops, history>>

\* The partner contact of a deal, chosen on its form.
ChoosePartner(r, c) ==
    /\ ops < MaxOps /\ r \in DOMAIN deal /\ c \in DOMAIN contact
    /\ deal[r].partner # c
    /\ deal' = [deal EXCEPT ![r].partner = c]
    /\ late' = IF merge.kind = "contact" /\ merge.dup = c THEN late \cup {r} ELSE late
    /\ ops' = ops + 1
    /\ UNCHANGED <<lead, contact, request, mail, next, threads, page, tx, merge, raced, stale, kept>>
-----------------------------------------------------------------------------
(* The conversion of a lead to a contact.                                  *)

\* The contact the person already is.
ConvertTo == IF DOMAIN contact = {} THEN Nobody ELSE Min(DOMAIN contact)

\* The lead is saved, and so locked, before the contact is looked for; with
\* several contacts there is only a message.
LoadConvert(u, l) ==
    /\ ops < MaxOps /\ tx[u] = NoTx /\ page[u] = NoPage /\ l \in lead \ Locked
    /\ Cardinality(DOMAIN contact) <= 1
    /\ \E firm \in Companies :
          tx' = [tx EXCEPT ![u] =
                    [kind |-> "convert", lead |-> l, company |-> firm,
                     contact |-> ConvertTo, alone |-> DOMAIN contact = {}]]
    /\ ops' = ops + 1
    /\ UNCHANGED <<rows, threads, page, merge, history>>

\* f with the contact c instead of the lead l.
Converted(f, l, c) ==
    [x \in DOMAIN f |-> IF f[x].lead = l THEN [f[x] EXCEPT !.lead = Nobody, !.contact = c]
                        ELSE f[x]]

CommitConvert(u) ==
    LET t == tx[u]
        new == t.contact = Nobody
        c == IF new THEN next ELSE t.contact
    IN
    /\ t.kind = "convert" /\ (new => next <= MaxId)
    /\ IF ~new /\ c \notin DOMAIN contact THEN UNCHANGED <<rows, raced, late>>
       ELSE /\ contact' = IF new THEN Put(contact, c, t.company) ELSE contact
            /\ next' = IF new THEN next + 1 ELSE next
            /\ deal' = Converted(deal, t.lead, c)
            /\ request' = Converted(request, t.lead, c)
            /\ mail' = Converted(mail, t.lead, c)
            /\ lead' = lead \ {t.lead}
            /\ raced' = (raced \/ (new /\ t.alone /\ DOMAIN contact # {}))
            /\ late' = IF merge.kind \in Kinds /\ (c = merge.dup \/ t.lead \in {merge.dup, merge.orig})
                       THEN late \cup Touched({t.lead, merge.dup, merge.orig}) ELSE late
    /\ tx' = [tx EXCEPT ![u] = NoTx]
    /\ UNCHANGED <<threads, page, merge, ops, stale, kept>>
-----------------------------------------------------------------------------
(* The removal of a duplicate: every statement is committed by itself.     *)

\* The tables in the order in which they are related to the original.
Mutant_Tables(kind) ==  \* deals are forgotten
    IF kind = "lead" THEN <<"mail", "request">> ELSE <<"request", "mail">>
Tables(kind) == IF kind = "lead" THEN <<"deal", "mail", "request">>
                ELSE <<"deal", "request", "mail">>

StartMerge(kind, dup, orig) ==
    /\ ops < MaxOps /\ merge = NoMerge /\ dup # orig
    /\ IF kind = "lead" THEN {dup, orig} \subseteq lead ELSE {dup, orig} \subseteq DOMAIN contact
    /\ merge' = [kind |-> kind, dup |-> dup, orig |-> orig, step |-> 1,
                 company |-> IF kind = "contact" THEN contact[orig] ELSE NoCompany]
    /\ ops' = ops + 1
    /\ UNCHANGED <<rows, threads, page, tx, history>>

There(kind, i) == IF kind = "lead" THEN i \in lead ELSE i \in DOMAIN contact
Related(f) == [x \in DOMAIN f |-> IF f[x][merge.kind] = merge.dup
                                  THEN [f[x] EXCEPT ![merge.kind] = merge.orig] ELSE f[x]]

\* One table; without the original an error ends the removal midway.
Relate ==
    LET k == merge.kind
        table == Tables(k)[merge.step]
        refs == {x \in DOMAIN request : table = "request" /\ request[x][k] = merge.dup}
                \cup {x \in DOMAIN deal : table = "deal" /\ deal[x][k] = merge.dup}
                \cup {x \in DOMAIN mail : table = "mail" /\ mail[x][k] = merge.dup}
    IN
    /\ k \in Kinds /\ merge.step <= Len(Tables(k))
    /\ k = "lead" => merge.orig \notin Locked
    /\ IF refs = {} \/ There(k, merge.orig)
       THEN /\ request' = IF table = "request" THEN Related(request) ELSE request
            /\ deal' = IF table = "deal" THEN Related(deal) ELSE deal
            /\ mail' = IF table = "mail" THEN Related(mail) ELSE mail
            /\ merge' = [merge EXCEPT !.step = @ + 1]
       ELSE /\ merge' = NoMerge
            /\ UNCHANGED <<request, deal, mail>>
    /\ UNCHANGED <<lead, contact, next, threads, page, tx, ops, history>>

\* original.save() inserts the original again if it is gone.
SaveOriginal ==
    LET k == merge.kind IN
    /\ k \in Kinds /\ merge.step = Len(Tables(k)) + 1
    /\ k = "lead" => merge.orig \notin Locked
    /\ lead' = IF k = "lead" THEN lead \cup {merge.orig} ELSE lead
    /\ contact' = IF k = "contact" /\ ~There(k, merge.orig)
                  THEN Put(contact, merge.orig, merge.company) ELSE contact
    /\ raced' = (raced \/ ~There(k, merge.orig))
    /\ merge' = [merge EXCEPT !.step = @ + 1]
    /\ UNCHANGED <<request, deal, mail, next, threads, page, tx, ops, stale, kept, late>>

\* duplicate.delete() and what it takes along: a request only loses its
\* lead, everything else goes with the row it refers to.
DeleteDuplicate ==
    LET k == merge.kind
        d == merge.dup
        first == {r \in DOMAIN deal : deal[r][k] = d \/ (k = "contact" /\ deal[r].partner = d)}
        gone == {r \in DOMAIN request : \/ r \in first /\ request[r].deal
                                        \/ k = "contact" /\ request[r].contact = d}
        deals == first \cup gone
    IN
    /\ k \in Kinds /\ merge.step = Len(Tables(k)) + 2
    /\ k = "lead" => d \notin Locked
    /\ lead' = IF k = "lead" THEN lead \ {d} ELSE lead
    /\ contact' = IF k = "contact" THEN Drop(contact, {d}) ELSE contact
    /\ deal' = Drop(deal, deals)
    /\ request' = [r \in DOMAIN request \ gone |->
                      IF k = "lead" /\ request[r].lead = d
                      THEN [request[r] EXCEPT !.lead = Nobody] ELSE request[r]]
    /\ mail' = Drop(mail, {m \in DOMAIN mail : \/ m[1] \in gone
                                               \/ m[1] \in deals /\ mail[m].deal
                                               \/ mail[m][k] = d})
    /\ merge' = NoMerge
    /\ UNCHANGED <<next, threads, page, tx, ops, history>>
-----------------------------------------------------------------------------
Next ==
    \/ \E r \in Reqs : FindInquiry(r) \/ SaveInquiry(r) \/ LinkInquiry(r)
                       \/ ReadReply(r) \/ SaveReply(r)
    \/ \E u \in Users, r \in Reqs : OpenPage(u, r)
    \/ \E u \in Users : LoadPost(u) \/ CommitPost(u) \/ AbortPost(u) \/ CommitConvert(u)
    \/ \E u \in Users, l \in Ids : LoadConvert(u, l)
    \/ \E r \in Reqs, c \in Ids : ChoosePartner(r, c)
    \/ \E k \in Kinds, d, o \in Ids : StartMerge(k, d, o)
    \/ Relate \/ SaveOriginal \/ DeleteDuplicate

Spec == Init /\ [][Next]_vars
-----------------------------------------------------------------------------
(* Type correctness, with the integrity of every foreign key.              *)
TypeOK ==
    /\ lead \subseteq Ids /\ DOMAIN contact \subseteq Ids /\ lead \cap DOMAIN contact = {}
    /\ \A c \in DOMAIN contact : contact[c] \in Companies
    /\ DOMAIN request \subseteq Reqs /\ DOMAIN deal \subseteq DOMAIN request
    /\ DOMAIN mail \subseteq MailIds /\ \A m \in DOMAIN mail : m[1] \in DOMAIN request
    /\ \A r \in DOMAIN request : Refers(request[r]) /\ (request[r].deal => r \in DOMAIN deal)
    /\ \A r \in DOMAIN deal : Refers(deal[r])
                              /\ deal[r].partner \in DOMAIN contact \cup {Nobody}
    /\ \A m \in DOMAIN mail : Refers(mail[m]) /\ (mail[m].deal => m[1] \in DOMAIN deal)

(* The deal of a request is with the client of the request, whoever         *)
(* changes the client, converts it or removes a duplicate of it, unless an  *)
(* outdated or emptied form was posted (requestadmin.py:331), or the lead   *)
(* its deal had kept is converted when there are two contacts, after a race.*)
(* While a duplicate is removed it is as good as the original.              *)
SameClient == \A r \in DOMAIN deal \ (stale \cup late) : \A k \in Kinds :
    request[r][k] # Nobody =>
        \/ deal[r][k] = request[r][k]
        \/ merge.kind = k /\ {deal[r][k], request[r][k]} = {merge.dup, merge.orig}
        \/ raced /\ r \in kept

(* A deal is shown on its request, which is no longer pending: a second     *)
(* "Create deal" finds it (requestadmin.py:317), unless an outdated form    *)
(* was posted.                                                              *)
DealShown == \A r \in DOMAIN deal \ stale : request[r].deal /\ ~request[r].pending

(* The mails of a request that has a deal are filed under the deal; only    *)
(* the ones a thread had read before and saved afterwards are not           *)
(* (requestadmin.py:325).                                                   *)
MailsFollow == \A m \in DOMAIN mail :
    m[1] \in DOMAIN deal => mail[m].deal \/ mail[m].late

(* A processed request has a client, or at least a company                  *)
(* (request.py:376), unless the client was removed as a duplicate while the *)
(* request was saved.                                                       *)
Served == \A r \in DOMAIN request \ late :
    ~request[r].pending => HasClient(request[r]) \/ request[r].company # NoCompany

\* A request, its client, its deal and its mails stay together, whichever forms,
\* conversions, merges and mail threads overlap.
DealsFollow ==
    /\ TypeOK
    /\ SameClient
    /\ DealShown
    /\ MailsFollow
    /\ Served

(* Nobody is entered twice: a request makes a client only if there is none, *)
(* a conversion a contact only if there is no contact, or the search was    *)
(* outdated when it was used (request.py:376, leadadmin.py:225).            *)
NoNewDouble ==
    [][/\ Cardinality(Clients') > Cardinality(Clients) => Clients = {} \/ raced'
       /\ DOMAIN contact' \subseteq DOMAIN contact \/ DOMAIN contact = {} \/ raced']_vars

(* Converting a lead and removing a duplicate lose no request, deal or      *)
(* mail, except those saved with the duplicate while it was being removed   *)
(* and those of a deal it is the partner contact of                         *)
(* (delete_duplicate_object.py:88).                                         *)
NothingVanishes ==
    [][\A r \in Reqs \ late :
          (r \in DOMAIN deal => deal[r].partner = Nobody \/ deal[r].partner \in DOMAIN contact')
          => /\ r \in DOMAIN request => r \in DOMAIN request'
             /\ r \in DOMAIN deal => r \in DOMAIN deal'
             /\ \A k \in {"inquiry", "reply"} : <<r, k>> \in DOMAIN mail => <<r, k>> \in DOMAIN mail'
      ]_vars
=============================================================================
