------------------------------ MODULE Companies ------------------------------
(***************************************************************************)
(* Companies, their contacts, and the deal and the request of a company:   *)
(* the forms (crm/site/companyadmin.py, crm/site/contactadmin.py,          *)
(* crm/forms/admin_forms.py), the view that gives companies another owner  *)
(* (crm/views/change_owner_companies.py), the one that merges a duplicate  *)
(* into the original (crm/views/delete_duplicate_object.py) and the import *)
(* of companies from a file (crm/utils/create_objects.py).                 *)
(*                                                                         *)
(* A form is a transaction: it loads rows and checks, writes, which locks  *)
(* the rows, and commits.  The views and the import commit every statement.*)
(* "Who" is the owner and the department, which a contact has from his     *)
(* company.  The import sets no name, as the settings list columns         *)
(* ("name") that companies do not have; imports of contacts and leads end  *)
(* before they save anything, for the same reason.                         *)
(***************************************************************************)
EXTENDS Integers, Sequences, FiniteSets, Functions

CONSTANTS Owners, Teams,
          MaxCompanies,   \* bound: companies
          MaxContacts,    \* bound: contacts
          MaxEdits          \* bound: forms, views and imports started

Papers == {"deal", "request"}
Nobody == "nobody"

ASSUME CompaniesAssumption ==
    /\ IsFiniteSet(Owners) /\ IsFiniteSet(Teams) /\ Nobody \notin Teams
    /\ MaxCompanies \in Nat /\ MaxContacts \in Nat /\ MaxEdits \in Nat

VARIABLES
    companies,   \* rows: who, with a name or without
    contacts,    \* rows: the company, who, whether he is the person users enter
    papers,      \* of the deal and the request: the company
    tx,          \* the form each user is in the middle of
    import,      \* the import each user has started
    view,        \* the change of owners in progress
    merge,       \* the removal of a duplicate in progress
    edits,
    apart,       \* history: contacts that were moved, or written when the row of
                 \* the contact or of his company had been read before it changed
    raced,       \* history: somebody was entered twice at the same time, or an
                 \* outdated copy that was saved brought somebody back
    late         \* history: rows linked to a duplicate after the others were moved

rows == <<companies, contacts, papers>>
history == <<apart, raced, late>>
companyVars == <<rows, tx, import, view, merge, edits, history>>

Idle == [step |-> "idle", locks |-> {}]
NoView == [step |-> "none"]
NoMerge == [step |-> "none"]
Company(who, named) == [who |-> who, named |-> named, live |-> TRUE]
Contact(firm, who) == [firm |-> firm, who |-> who, person |-> TRUE, live |-> TRUE]

CompaniesInit ==
    /\ \E f \in [1..2 -> Teams] : companies = [c \in 1..2 |-> Company(f[c], TRUE)]
    /\ contacts = <<[Contact(2, companies[2].who) EXCEPT !.person = FALSE]>>
    /\ papers = [p \in Papers |-> [firm |-> 2, live |-> TRUE]]
    /\ tx = [u \in Owners |-> Idle] /\ import = [u \in Owners |-> "none"]
    /\ view = NoView /\ merge = NoMerge /\ edits = 0
    /\ apart = {} /\ raced = FALSE /\ late = {}

Live(t) == {i \in DOMAIN t : t[i].live}
Of(c) == {i \in Live(contacts) : contacts[i].firm = c}
Persons == {i \in Live(contacts) : contacts[i].person}
Nameless == {c \in Live(companies) : ~companies[c].named}
\* A copy that is saved brings back a person who was deleted, or takes away the
\* name a company has been given.
PersonBack(i, row) == row.person /\ i \notin Persons
NamelessBack(c, row) == ~row.named /\ c \notin Nameless
Use == edits < MaxEdits /\ edits' = edits + 1
Free(u) == tx[u] = Idle /\ import[u] = "none"
Unlocked(keys) == \A u \in Owners : tx[u].locks \cap keys = {}
C(S) == {"company"} \X S
P(S) == {"contact"} \X S
\* Rows linked to company c, when its own have been moved away.
Late(c, kind, S) == IF merge.step # "none" /\ merge.dup = c /\ kind \in merge.moved THEN S ELSE {}
-----------------------------------------------------------------------------
(* The forms.                                                              *)

Tx(kind, id, old, new, firm, inline, seen) ==
    [step |-> "checked", kind |-> kind, id |-> id, old |-> old, new |-> new, firm |-> firm,
     inline |-> inline, seen |-> seen, there |-> {}, locks |-> {}]
Begin(u, t) ==
    /\ Free(u) /\ Use /\ tx' = [tx EXCEPT ![u] = t]
    /\ UNCHANGED <<rows, import, view, merge, history>>

\* The form of a company, or of a new one: it may change who, and add a contact
\* or change one in a line of its own, which nobody compares with others.
BeginCompany(u, c) == \E who \in Teams, lines \in SUBSET (Of(c) \cup {0}) :
    /\ Cardinality(lines) <= 1
    /\ LET old == IF c = 0 THEN Company(who, TRUE) ELSE companies[c]
           new == [old EXCEPT !.who = who, !.named = TRUE]
           inline == [i \in lines |-> IF i = 0 THEN [Contact(c, who) EXCEPT !.person = FALSE]
                                               ELSE contacts[i]]
       IN  Begin(u, Tx("company", c, old, new, <<>>, inline, {}))
\* Others with the name and an address.
Alike(i) == Persons \ {i}
\* The form of a contact, or of a new one, asks for the company.
BeginContact(u, i) == \E c \in Live(companies) :
    LET old == IF i = 0 THEN Contact(c, companies[c].who) ELSE contacts[i]
    IN  /\ old.person => Alike(i) = {}
        /\ Begin(u, Tx("contact", i, old, [old EXCEPT !.firm = c], companies[c], <<>>, Persons))
BeginPaper(u, p) == \E c \in Live(companies) :
    /\ papers[p].live
    /\ Begin(u, Tx("paper", p, papers[p], [papers[p] EXCEPT !.firm = c], <<>>, <<>>, {}))

Mutant_Followers(t) == {}   \* the contacts keep who
\* The contacts that change with their company.
Followers(t) == IF t.new.who # t.old.who THEN Of(t.id) ELSE {}
KeysOf(t) == CASE t.kind = "company" -> C({t.id}) \cup P(Followers(t) \cup DOMAIN t.inline)
               [] t.kind = "contact" -> P({t.id}) [] OTHER -> {<<"paper", t.id>>}
NewKeys == C({0}) \cup P({0})
Linked(t) == t.kind # "company" => t.new.firm \in Live(companies)
Write(u, t) ==
    /\ t.step = "checked" /\ Linked(t) /\ Unlocked(KeysOf(t))
    /\ tx' = [tx EXCEPT ![u] = [t EXCEPT !.step = "written", !.locks = KeysOf(t) \ NewKeys,
                                  !.there = IF t.kind = "company" THEN Of(t.id) ELSE {},
                                  !.seen = IF t.kind = "company" THEN Followers(t) ELSE @]]
    /\ UNCHANGED <<rows, import, view, merge, edits, history>>
\* The company of a contact or a deal is deleted meanwhile.
Refuse(u, t) ==
    /\ t.step = "checked" /\ ~Linked(t) /\ tx' = [tx EXCEPT ![u] = Idle]
    /\ UNCHANGED <<rows, import, view, merge, edits, history>>

\* A row that was deleted meanwhile is inserted again.
CommitCompany(u, t) ==
    LET c == IF t.id = 0 THEN Len(companies) + 1 ELSE t.id
        line(i) == [t.inline[i] EXCEPT !.firm = c, !.who = t.new.who, !.live = TRUE]
        new == 0 \in DOMAIN t.inline
        changed == [i \in DOMAIN contacts |->
                      CASE i \in DOMAIN t.inline -> line(i)
                        [] i \notin DOMAIN t.inline /\ i \in t.seen -> [contacts[i] EXCEPT !.who = t.new.who]
                        [] OTHER -> contacts[i]]
    IN  /\ t.kind = "company" /\ c <= MaxCompanies
        /\ companies' = IF t.id = 0 THEN Append(companies, t.new)
                        ELSE [companies EXCEPT ![c] = [t.new EXCEPT !.live = TRUE]]
        /\ contacts' = IF new THEN Append(changed, line(0)) ELSE changed
        /\ apart' = apart \cup (IF t.new.who # t.old.who THEN Of(t.id) \ t.there ELSE {})
                          \cup (IF t.id # 0 /\ companies[t.id].who # t.old.who THEN Of(t.id) ELSE {})
        /\ late' = late \cup Late(t.id, "contact", {<<"contact", i>> : i \in
                           (DOMAIN t.inline \ {0}) \cup IF new THEN {Len(contacts) + 1} ELSE {}})
        /\ raced' = (raced \/ \E i \in DOMAIN t.inline : PersonBack(i, t.inline[i]))
        /\ UNCHANGED papers

\* parse_contacts_name, and who, from the company.
Saved(t) == [t.new EXCEPT !.who = t.firm.who, !.live = TRUE]
CommitContact(u, t) ==
    LET i == IF t.id = 0 THEN Len(contacts) + 1 ELSE t.id
    IN  /\ t.kind = "contact"
        /\ contacts' = IF t.id = 0 THEN Append(contacts, Saved(t)) ELSE [contacts EXCEPT ![i] = Saved(t)]
        /\ apart' = IF companies[t.new.firm].who # t.firm.who THEN apart \cup {i} ELSE apart
        /\ raced' = (raced \/ (t.new.person /\ ~(Persons \subseteq t.seen \cup {i})))
        /\ late' = late \cup Late(t.new.firm, "contact", P({i}))
        /\ UNCHANGED <<companies, papers>>
CommitPaper(u, t) ==
    /\ t.kind = "paper"
    /\ papers' = [papers EXCEPT ![t.id] = [t.new EXCEPT !.live = TRUE]]
    /\ late' = late \cup Late(t.new.firm, t.id, {<<"paper", t.id>>})
    /\ UNCHANGED <<companies, contacts, apart, raced>>
Commit(u, t) ==
    /\ t.step = "written" /\ (CommitCompany(u, t) \/ CommitContact(u, t) \/ CommitPaper(u, t))
    /\ Len(contacts') <= MaxContacts /\ tx' = [tx EXCEPT ![u] = Idle]
    /\ UNCHANGED <<import, view, merge, edits>>
-----------------------------------------------------------------------------
(* change_owner_companies.  Rows are loaded together and saved one by one. *)

Rest(f) == Restrict(f, DOMAIN f \ {CHOOSE i \in DOMAIN f : \A j \in DOMAIN f : i <= j})
First(f) == CHOOSE i \in DOMAIN f : \A j \in DOMAIN f : i <= j
StartView == \E who \in Teams, S \in (SUBSET Live(companies)) \ {{}} :
    /\ view = NoView /\ Use
    /\ view' = [step |-> "companies", who |-> who, ids |-> S, todo |-> [c \in S |-> companies[c]]]
    /\ UNCHANGED <<rows, tx, import, merge, history>>
ViewCompany == LET c == First(view.todo) IN
    /\ view.step = "companies" /\ view.todo # <<>> /\ Unlocked(C({c}))
    /\ companies' = [companies EXCEPT ![c] = [view.todo[c] EXCEPT !.who = view.who]]
    /\ view' = [view EXCEPT !.todo = Rest(@)]
    /\ raced' = (raced \/ NamelessBack(c, view.todo[c]))
    /\ UNCHANGED <<contacts, papers, tx, import, merge, edits, apart, late>>
\* The contacts of companies.
PersonsOf(S) == {i \in Live(contacts) : contacts[i].firm \in S}
LoadContacts ==
    /\ view.step = "companies" /\ view.todo = <<>>
    /\ view' = [view EXCEPT !.step = "contacts", !.todo = [i \in PersonsOf(view.ids) |-> contacts[i]]]
    /\ UNCHANGED <<rows, tx, import, merge, edits, history>>
ViewContact == LET i == First(view.todo)  row == [view.todo[i] EXCEPT !.who = view.who] IN
    /\ view.step = "contacts" /\ view.todo # <<>> /\ Unlocked(P({i})) /\ row.firm \in Live(companies)
    /\ contacts' = [contacts EXCEPT ![i] = row]
    /\ view' = [view EXCEPT !.todo = Rest(@)]
    /\ apart' = IF contacts[i] # view.todo[i] \/ companies[row.firm].who # view.who
                THEN apart \cup {i} ELSE apart
    /\ late' = late \cup Late(row.firm, "contact", P({i}))
    /\ raced' = (raced \/ PersonBack(i, row))
    /\ UNCHANGED <<companies, papers, tx, import, merge, edits>>
\* The last contact is saved, or the company of one has been deleted.
EndView ==
    /\ view.step = "contacts"
    /\ (view.todo # <<>>) => view.todo[First(view.todo)].firm \notin Live(companies)
    /\ view' = NoView
    /\ apart' = IF view.todo = <<>> THEN apart ELSE apart \cup DOMAIN view.todo
    /\ UNCHANGED <<rows, tx, import, merge, edits, raced, late>>
-----------------------------------------------------------------------------
(* DeleteDuplicateObject, for companies.                                   *)

StartMerge == \E d, o \in Live(companies) :
    /\ merge = NoMerge /\ d # o /\ Use
    /\ merge' = [step |-> "move", dup |-> d, orig |-> o, row |-> companies[o],
                  from |-> companies[d], moved |-> {}, gone |-> {}]
    /\ UNCHANGED <<rows, tx, import, view, history>>
Mutant_Order == <<"deal", "contact">>   \* the requests are forgotten
Order == <<"deal", "contact", "request">>
\* The kind of rows to be moved next, or none.
NextKind == IF Cardinality(merge.moved) < Len(Order) THEN Order[Cardinality(merge.moved) + 1] ELSE "none"
PapersOf(c) == {p \in Papers : papers[p].live /\ papers[p].firm = c}
Moves == IF NextKind = "contact" THEN P(Of(merge.dup))
         ELSE {<<"paper", p>> : p \in PapersOf(merge.dup) \cap {NextKind}}
\* The original of rows that are moved must be there.
CanMove == Moves = {} \/ merge.orig \in Live(companies)
Move ==
    /\ merge.step = "move" /\ NextKind # "none" /\ CanMove /\ Unlocked(Moves)
    /\ contacts' = [i \in DOMAIN contacts |-> IF <<"contact", i>> \in Moves
                      THEN [contacts[i] EXCEPT !.firm = merge.orig] ELSE contacts[i]]
    /\ papers' = [p \in Papers |-> IF <<"paper", p>> \in Moves
                      THEN [papers[p] EXCEPT !.firm = merge.orig] ELSE papers[p]]
    /\ apart' = apart \cup {i \in DOMAIN contacts : <<"contact", i>> \in Moves}
    /\ merge' = [merge EXCEPT !.moved = @ \cup {NextKind}]
    /\ UNCHANGED <<companies, tx, import, view, edits, raced, late>>
\* update_fields: the original takes what it lacks and the copy of the duplicate
\* has, and is saved whole.
Filled == [merge.row EXCEPT !.named = @ \/ merge.from.named]
Fill ==
    /\ merge.step = "move" /\ NextKind = "none" /\ Unlocked(C({merge.orig}))
    /\ companies' = [companies EXCEPT ![merge.orig] = Filled]
    /\ raced' = (raced \/ NamelessBack(merge.orig, Filled))
    /\ apart' = IF companies[merge.orig].who # merge.row.who THEN apart \cup Of(merge.orig) ELSE apart
    /\ merge' = [merge EXCEPT !.step = "filled"]
    /\ UNCHANGED <<contacts, papers, tx, import, view, edits, late>>
\* What still refers to the duplicate goes with it.
Referring == P(Of(merge.dup)) \cup {<<"paper", p>> : p \in PapersOf(merge.dup)}
Collect ==
    /\ merge.step = "filled" /\ merge' = [merge EXCEPT !.step = "collected", !.gone = Referring]
    /\ UNCHANGED <<rows, tx, import, view, edits, history>>
Pending(u) == tx[u].step = "written" /\ tx[u].kind # "company" /\ tx[u].new.firm = merge.dup
DeleteDuplicate ==
    /\ merge.step = "collected" /\ Referring \subseteq merge.gone
    /\ Unlocked(C({merge.dup}) \cup merge.gone) /\ \A u \in Owners : ~Pending(u)
    /\ companies' = [companies EXCEPT ![merge.dup].live = FALSE]
    /\ contacts' = [i \in DOMAIN contacts |-> IF <<"contact", i>> \in merge.gone
                      THEN [contacts[i] EXCEPT !.live = FALSE] ELSE contacts[i]]
    /\ papers' = [p \in Papers |-> IF <<"paper", p>> \in merge.gone
                      THEN [papers[p] EXCEPT !.live = FALSE] ELSE papers[p]]
    /\ merge' = NoMerge
    /\ UNCHANGED <<tx, import, view, edits, history>>
\* The original is not there, it takes the name that the duplicate still has, or
\* a row has been linked to the duplicate since what goes with it was collected.
FailMerge ==
    /\ \/ merge.step = "move" /\ NextKind # "none" /\ ~CanMove
       \/ merge.step = "move" /\ NextKind = "none" /\ Filled # merge.row /\ companies[merge.dup].named
       \/ merge.step = "collected" /\ ~(Referring \subseteq merge.gone)
    /\ merge' = NoMerge
    /\ UNCHANGED <<rows, tx, import, view, edits, history>>
-----------------------------------------------------------------------------
(* create_objects, of companies.                                           *)

Known == Nameless
Check(u) ==
    /\ Free(u) /\ Use /\ Known = {} /\ import' = [import EXCEPT ![u] = "new"]
    /\ UNCHANGED <<rows, tx, view, merge, history>>
Save(u) ==
    /\ import[u] = "new" /\ Len(companies) < MaxCompanies
    /\ companies' = Append(companies, Company(Nobody, FALSE))
    /\ import' = [import EXCEPT ![u] = "none"]
    /\ raced' = (raced \/ \E v \in Owners \ {u} : import[v] = "new")
    /\ UNCHANGED <<contacts, papers, tx, view, merge, edits, apart, late>>
-----------------------------------------------------------------------------
CompaniesNext ==
    \/ \E u \in Owners :
        \/ \E c \in Live(companies) \cup {0} : BeginCompany(u, c)
        \/ \E i \in Live(contacts) \cup {0} : BeginContact(u, i)
        \/ \E p \in Papers : BeginPaper(u, p)
        \/ Write(u, tx[u]) \/ Refuse(u, tx[u]) \/ Commit(u, tx[u]) \/ Check(u) \/ Save(u)
    \/ StartView \/ ViewCompany \/ LoadContacts \/ ViewContact \/ EndView
    \/ StartMerge \/ Move \/ Fill \/ Collect \/ DeleteDuplicate \/ FailMerge

CompaniesSpec == CompaniesInit /\ [][CompaniesNext]_companyVars
-----------------------------------------------------------------------------
CompaniesTypeOK ==
    /\ \A c \in DOMAIN companies : companies[c].who \in Teams \cup {Nobody}
    /\ \A i \in Live(contacts) : contacts[i].firm \in Live(companies)
    /\ \A p \in Papers : papers[p].live => papers[p].firm \in Live(companies)
    /\ late \subseteq P(DOMAIN contacts) \cup ({"paper"} \X Papers)

\* A contact has the owner and the department of his company, through changes of
\* either in forms and in the view of superusers: except while that view runs,
\* and for contacts a merge has moved or somebody wrote from outdated rows.
OwnerFollows == \A i \in Live(contacts) \ apart :
    \/ contacts[i].who = companies[contacts[i].firm].who
    \/ view # NoView /\ contacts[i].firm \in view.ids

\* The person is entered once and companies without a name are imported once,
\* unless two users do it at the same time, or a form, the view of superusers or
\* a merge saves a copy of the row from before it was deleted or got its name;
\* lines of a company's form are not compared.
NoTwins == raced \/ (Cardinality(Persons) <= 1 /\ Cardinality(Nameless) <= 1)

\* Companies, their contacts and papers stay consistent through forms, the view
\* of superusers, imports and merges.
CompaniesSound ==
    /\ CompaniesTypeOK
    /\ OwnerFollows
    /\ NoTwins

\* The removal of a duplicate loses no contact, deal or request, unless it was
\* linked to the duplicate after the rows of its kind had been moved.
MergeKeeps ==
    [][/\ \A i \in DOMAIN contacts : contacts[i].live /\ ~contacts'[i].live => <<"contact", i>> \in late
       /\ \A p \in Papers : papers[p].live /\ ~papers'[p].live => <<"paper", p>> \in late]_companyVars
=============================================================================
