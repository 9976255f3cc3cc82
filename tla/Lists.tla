------------------------------- MODULE Lists -------------------------------
(***************************************************************************)
(* The lists of the admin site: what a user finds in them, the choices     *)
(* their filters offer him and what a choice shows (crm/utils/admfilters.py*)
(* tasks/utils/admfilters.py, crm/site/crmmodeladmin.py,                   *)
(* tasks/site/tasksbasemodeladmin.py), the department of his session and   *)
(* his roles (common/utils/usermiddleware.py), and the numbers on the      *)
(* index page (common/site/crmsite.py).                                    *)
(*                                                                         *)
(* A page is made of the rows as they are when it is asked for; the user   *)
(* follows one of its links later, when other users have saved rows and    *)
(* another tab of his has changed the department of the session.           *)
(*                                                                         *)
(* There are lists of deals, of mails and of tasks.  The parent of a deal  *)
(* is its company, of a mail the deal, of a task its main task.            *)
(***************************************************************************)
EXTENDS Integers, FiniteSets

CONSTANTS Staff,
          Depts,
          Groups,     \* the names of the groups of each user
          Member,     \* the departments each user is in
          Rows0,      \* the rows at first, by kind of list
          Cities, Tags, Products,
          Sold,       \* the departments that sell each product
          MaxSaves,   \* bound: rows saved
          MaxPages    \* bound: pages asked for

None == "none"
Absent == "absent"     \* a parameter the address does not have (0: no parent)
Kinds == {"deals", "mails", "tasks"}

\* The columns of the rows of each kind, and what they hold.
Fields == [deals |-> {"owner", "co", "dept", "active", "city", "tags", "products", "parent"},
           mails |-> {"owner", "dept", "incoming", "sent", "trash", "parent"},
           tasks |-> {"owner", "co", "responsible", "subscribers", "active", "hides", "parent"}]
Column == [owner |-> Staff \cup {None}, co |-> Staff \cup {None}, dept |-> Depts \cup {None},
           active |-> BOOLEAN, city |-> Cities \cup {None}, tags |-> SUBSET Tags,
           products |-> SUBSET Products, incoming |-> BOOLEAN, sent |-> BOOLEAN,
           trash |-> BOOLEAN, responsible |-> SUBSET Staff, subscribers |-> SUBSET Staff,
           hides |-> BOOLEAN, parent |-> Nat]
IsRow(k, row) == DOMAIN row = Fields[k] /\ \A c \in Fields[k] : row[c] \in Column[c]

\* The ids of users, departments, ... are none of the words of the addresses, and
\* the main task of a task is there.
ASSUME ListsAssumption ==
    /\ Groups \in [Staff -> SUBSET {"superusers", "chiefs", "superoperators", "operators",
                                    "managers", "accountants", "task_operators",
                                    "department heads"}]
    /\ Member \in [Staff -> SUBSET Depts] /\ Sold \in [Products -> SUBSET Depts]
    /\ {None, Absent, "all", "IsNull", "All"}
         \cap (Staff \cup Depts \cup Cities \cup Tags \cup Products) = {}
    /\ \A k \in Kinds : \A s \in Rows0[k] : 0 \notin DOMAIN s /\ \A r \in DOMAIN s :
         IsRow(k, s[r]) /\ (k = "tasks" => s[r].parent \in {0} \cup DOMAIN s)
    /\ MaxSaves \in Nat /\ MaxPages \in Nat

VARIABLES
    kind,      \* the model the lists are of
    rows,      \* the rows of the model, by id
    session,   \* the department in the session of each user
    page,      \* the page in front of somebody
    saves, pages

listVars == <<kind, rows, session, page, saves, pages>>
-----------------------------------------------------------------------------
(* Roles.  An operator of several departments is a superoperator.          *)

Superoperator(u) == \/ "superoperators" \in Groups[u]
                    \/ "operators" \in Groups[u] /\ Cardinality(Member[u]) > 1
Superuser(u) == "superusers" \in Groups[u]
InSession(u) == Superuser(u) \/ "chiefs" \in Groups[u] \/ Superoperator(u)
                             \/ "accountants" \in Groups[u]
Chief(u) == "chiefs" \in Groups[u]
SeesAll(u) == InSession(u) \/ "task_operators" \in Groups[u]

\* The department of a request: that of the address or of the session, or the
\* one the user belongs to.
Department(u, p) ==
    IF InSession(u)
    THEN LET d == IF p.department # Absent THEN p.department ELSE session[u]
         IN  IF d \in Depts THEN d ELSE None
    ELSE IF Member[u] = {} THEN None ELSE CHOOSE d \in Member[u] : TRUE
-----------------------------------------------------------------------------
(* What a user finds.                                                      *)

Ids == DOMAIN rows
\* Mails have no co-owner.
PeopleOf(row) == {row[c] : c \in {"owner", "co"} \cap DOMAIN row} \ {None}
People(r) == PeopleOf(rows[r])

FindsInCrm(u, p) ==
    IF Department(u, p) # None THEN {r \in Ids : rows[r].dept = Department(u, p)}
    ELSE IF Superoperator(u) THEN {r \in Ids : rows[r].dept \in Member[u]}
    ELSE Ids

\* The rule for heads of departments is never reached: a class is compared
\* with the class of a class.
Takes(u, r) == u \in rows[r].responsible \cup rows[r].subscribers
\* Mutant: the rule is reached.
Mutant_FindsInTasks(u, p) ==
    IF Superuser(u) \/ Chief(u) \/ "task_operators" \in Groups[u] THEN Ids
    ELSE {r \in Ids : \/ u \in People(r) \/ Takes(u, r)
                      \/ rows[r].parent # 0 /\ u \in rows[rows[r].parent].subscribers
                      \/ /\ p.parent # 0 /\ "department heads" \in Groups[u]
                         /\ \E v \in rows[r].responsible : Member[v] \cap Member[u] # {}}
FindsInTasks(u, p) ==
    IF Superuser(u) \/ Chief(u) \/ "task_operators" \in Groups[u] THEN Ids
    ELSE {r \in Ids : \/ u \in People(r) \/ Takes(u, r)
                      \/ rows[r].parent # 0 /\ u \in rows[rows[r].parent].subscribers}

Finds(u, p) == IF kind = "tasks" THEN FindsInTasks(u, p) ELSE FindsInCrm(u, p)

\* A task can be opened by those who take part in it, in one of its subtasks or
\* in its main task.
MayView(u, r) ==
    \/ u \in People(r) \/ Superuser(u) \/ Chief(u) \/ "task_operators" \in Groups[u]
    \/ \E x \in Ids : (x = r \/ rows[x].parent = r \/ x = rows[r].parent) /\ Takes(u, x)
-----------------------------------------------------------------------------
(* Filters: the choices, each with its value and what it says it shows, and*)
(* the rows of S it leaves.  S is the list before the filter, Q the list   *)
(* without any filter.                                                     *)

Choice(v, s) == [value |-> v, shows |-> s]
Of(u, S) == {r \in S : u \in People(r)}
WithParent(p, S) == IF p.parent = 0 THEN S ELSE {r \in S : rows[r].parent = p.parent}
Ownerless(S) == {r \in S : rows[r].owner = None}
Owners(S) == UNION {People(r) : r \in S}
NoneOf(S) == IF Ownerless(S) # {} THEN {Choice("IsNull", None)} ELSE {}
Named(p, u, cs) == p.owner \in {c.shows : c \in cs}

\* ByOwnerFilter of the CRM: the list of the mails of a deal shows them all.
OfDeal(p) == kind = "mails" /\ p.parent # 0
OwnerChoices(u, p, Q) ==
    LET S == IF OfDeal(p) THEN WithParent(p, Q) ELSE Q
        all == SeesAll(u) \/ OfDeal(p)
        others == IF all THEN S ELSE S \ Of(u, S)
    IN  (IF all THEN {Choice(Absent, "All")} ELSE {Choice("all", "All"), Choice(Absent, u)})
        \cup {Choice(x, x) : x \in Owners(others)} \cup NoneOf(others)
ByOwner(u, p, Q, S) ==
    IF ~SeesAll(u) /\ p.owner = Absent /\ ~OfDeal(p) THEN Of(u, S)
    ELSE IF Named(p, u, OwnerChoices(u, p, Q)) THEN Of(p.owner, S)
    ELSE IF p.owner = "IsNull" THEN Ownerless(S)
    ELSE S

\* ByOwnerFilter of the tasks
TaskOwnerChoices(u, p, Q) ==
    LET S == WithParent(p, Q)
        mine == {r \in S : rows[r].owner = u}
    IN  {IF Chief(u) THEN Choice("all", "All") ELSE Choice(Absent, "All")}
        \cup {Choice(x, x) : x \in Owners(S \ Of(u, S))} \cup NoneOf(S)
        \cup (IF mine = {} THEN {} ELSE {IF Chief(u) THEN Choice(Absent, u) ELSE Choice(u, u)})
ByTaskOwner(u, p, Q, S) ==
    IF Chief(u) /\ p.owner = Absent /\ p.parent = 0 THEN Of(u, S)
    ELSE IF Named(p, u, TaskOwnerChoices(u, p, Q)) THEN Of(p.owner, S)
    ELSE IF p.owner = "IsNull" THEN Ownerless(S)
    ELSE S

Does(x, S) == {r \in S : x \in rows[r].responsible}
ResponsibleChoices(u, p, Q) ==
    LET S0 == WithParent(p, Q)
        S == IF p.owner = Absent THEN S0 ELSE {r \in S0 : rows[r].owner = p.owner}
        them == UNION {rows[r].responsible : r \in S}
        me == IF u \notin them \/ p.parent # 0 THEN {}
              ELSE {IF Chief(u) THEN Choice(u, u) ELSE Choice(Absent, u)}
    IN  {IF p.parent # 0 \/ Chief(u) THEN Choice(Absent, "All") ELSE Choice("all", "All")}
        \cup {Choice(x, x) : x \in them \ {u}} \cup me
        \cup (IF \E r \in S : rows[r].responsible = {} THEN {Choice("IsNull", None)} ELSE {})
ByResponsible(u, p, S0) ==
    LET S == WithParent(p, S0)
    IN  IF p.responsible = Absent
        THEN IF p.parent = 0 /\ Does(u, S) # {} THEN Does(u, S) ELSE S
        ELSE IF p.responsible = "all" THEN S
        ELSE IF p.responsible = "IsNull" THEN {r \in S : rows[r].responsible = {}}
        ELSE Does(p.responsible, S)

\* hide_main_tasks
Hidden(u) == {r \in Ids : /\ rows[r].parent = 0
                          /\ \E x \in Ids : /\ rows[x].parent = r /\ rows[x].hides
                                            /\ ~rows[x].active /\ u \in rows[x].responsible
                          /\ ~\E x \in Ids : /\ rows[x].parent = r /\ rows[x].active
                                             /\ u \in rows[x].responsible}
\* The deals of a company, closed ones too
OfCompany(p) == kind = "deals" /\ p.parent # 0
ActiveChoices(p) ==
    {Choice("no", "No")} \cup
    (IF OfCompany(p) THEN {Choice(Absent, "All"), Choice("yes", "Yes")}
                     ELSE {Choice("all", "All"), Choice(Absent, "Yes")})
Active(S) == {r \in S : rows[r].active}
ByActive(u, p, S) ==
    IF p.active = Absent /\ OfCompany(p) THEN S
    ELSE IF p.active = Absent THEN IF kind = "tasks" THEN Active(S) \ Hidden(u) ELSE Active(S)
    ELSE IF p.active = "no" THEN S \ Active(S)
    ELSE S

\* The list already has the department of the request.
DepartmentChoices(u) ==
    {Choice("all", "All")} \cup {Choice(d, d) : d \in
        {x \in (IF Superoperator(u) THEN Member[u] ELSE Depts) :
            \E v \in Staff : x \in Member[v] /\ "managers" \in Groups[v]}}
DepartmentValue(u, p) == IF p.department = Absent THEN Department(u, p) ELSE p.department
ByDepartment(u, p, S) ==
    LET d == DepartmentValue(u, p)
    IN  IF d \in {"all", None} THEN S ELSE {r \in S : rows[r].dept = d}

CityChoices(p, Q) ==
    LET here == {rows[r].city : r \in Q}
    IN  {Choice(Absent, "All")} \cup {Choice(c, c) : c \in (here \cup {p.city}) \cap Cities}
        \cup (IF None \in here \/ p.city = "IsNull" THEN {Choice("IsNull", None)} ELSE {})
ByCity(p, S) ==
    IF p.city = Absent THEN S
    ELSE IF p.city = "IsNull" THEN {r \in S : rows[r].city = None}
    ELSE {r \in S : rows[r].city = p.city}

\* The tags of the rows of one owner, his who asks if the address has none.
TagChoices(u, p, Q) ==
    LET S == IF p.owner = "IsNull" THEN Ownerless(Q)
             ELSE IF p.owner \in Staff THEN {r \in Q : rows[r].owner = p.owner}
             ELSE IF Superuser(u) \/ Chief(u) \/ p.owner # Absent THEN Q
             ELSE {r \in Q : rows[r].owner = u}
    IN  {Choice(Absent, "All")} \cup {Choice(t, t) : t \in UNION {rows[r].tags : r \in S}}
ByTag(p, S) == IF p.tag = Absent THEN S ELSE {r \in S : p.tag \in rows[r].tags}

\* Products of the department of the list
ProductChoices(u, p) ==
    LET d == IF p.department # Absent THEN p.department ELSE Department(u, p)
    IN  {Choice(Absent, "All")} \cup
        {Choice(x, x) : x \in {y \in Products : d \in {"all", None} \/ d \in Sold[y]}}
ByProduct(p, S) == IF p.product = Absent THEN S ELSE {r \in S : p.product \in rows[r].products}

MailboxChoices == {Choice(Absent, "All")} \cup
                  {Choice(b, b) : b \in {"inbox", "sent", "outbox", "trash"}}
InBox(b) == {r \in Ids : CASE b = "inbox" -> rows[r].incoming /\ ~rows[r].trash
                           [] b = "sent" -> rows[r].sent /\ ~rows[r].trash
                           [] b = "outbox" -> ~rows[r].sent /\ ~rows[r].incoming /\ ~rows[r].trash
                           [] b = "trash" -> rows[r].trash}
ByMailbox(p, S) == IF p.mailbox = Absent THEN S ELSE S \cap InBox(p.mailbox)
\* The number in the name of the outbox.
OutboxNumber(u, p, Q) ==
    LET d == Department(u, p)
        S == {r \in Q \cap InBox("outbox") : d = None \/ rows[r].dept = d}
        one == p.owner \notin {Absent, "all", "IsNull"}
    IN  Cardinality({r \in S :
          IF one THEN (d = None \/ d \in Member[p.owner]) => rows[r].owner = p.owner
          ELSE Superuser(u) \/ Chief(u) \/ rows[r].owner = u})
\* The tasks that the index page counts.
ForMe(u) == (Active(Ids) \cap Does(u, Ids)) \ Hidden(u)
-----------------------------------------------------------------------------
(* A page: the filters of the list one after the other.                    *)

Filters == [deals |-> {"department", "active", "owner", "product", "city", "tag"},
            mails |-> {"department", "mailbox", "owner"},
            tasks |-> {"owner", "responsible", "active"}]
Params == {"department", "active", "owner", "product", "city", "tag", "mailbox", "responsible",
           "parent"}
NoParams == [f \in Params |-> IF f = "parent" THEN 0 ELSE Absent]
\* The filter by city is shown when there is one country; the one by tag when a
\* department is chosen, that by department to those with a session department.
Has(u, p, f) ==
    /\ f \in Filters[kind]
    /\ f = "department" => InSession(u)
    /\ f = "tag" => Department(u, p) # None \/ p.department # Absent

ChoicesOf(f, u, p, Q) ==
    CASE f = "department"  -> DepartmentChoices(u)
      [] f = "active"      -> ActiveChoices(p)
      [] f = "owner"       -> IF kind = "tasks" THEN TaskOwnerChoices(u, p, Q)
                              ELSE OwnerChoices(u, p, Q)
      [] f = "responsible" -> ResponsibleChoices(u, p, Q)
      [] f = "city"        -> CityChoices(p, Q)
      [] f = "product"     -> ProductChoices(u, p)
      [] f = "tag"         -> TagChoices(u, p, Q)
      [] f = "mailbox"     -> MailboxChoices

Shown(u, p) ==
    LET Q == Finds(u, p)
        S == WithParent(p, Q)
        D(X) == IF Has(u, p, "department") THEN ByDepartment(u, p, X) ELSE X
        A(X) == ByActive(u, p, X)
        T(X) == IF Has(u, p, "tag") THEN ByTag(p, X) ELSE X
    IN  CASE kind = "deals" -> T(ByCity(p, ByProduct(p, ByOwner(u, p, Q, A(D(S))))))
          [] kind = "mails" -> ByOwner(u, p, Q, ByMailbox(p, D(S)))
          [] kind = "tasks" -> A(ByResponsible(u, p, ByTaskOwner(u, p, Q, S)))

NoPage == [u |-> None]
PageOf(u, p) ==
    LET Q == Finds(u, p)
    IN  [u |-> u, p |-> p, shown |-> Shown(u, p), found |-> WithParent(p, Q),
         hidden |-> IF kind = "tasks" THEN Hidden(u) ELSE {},
         at |-> rows, dept |-> Department(u, p),
         number |-> IF kind = "mails" THEN OutboxNumber(u, p, Q) ELSE 0,
         outbox |-> IF kind = "mails" THEN Shown(u, [p EXCEPT !.mailbox = "outbox"]) ELSE {},
         choices |-> [f \in {g \in Filters[kind] : Has(u, p, g)} |-> ChoicesOf(f, u, p, Q)]]
Render(u, p) ==
    /\ page' = PageOf(u, p)
    /\ session' = IF InSession(u) THEN [session EXCEPT ![u] = Department(u, p)] ELSE session
    /\ pages < MaxPages /\ pages' = pages + 1
    /\ UNCHANGED <<kind, rows, saves>>
-----------------------------------------------------------------------------
Init ==
    /\ kind \in Kinds /\ rows \in Rows0[kind]
    /\ session = [u \in Staff |-> None]
    /\ page = NoPage /\ saves = 0 /\ pages = 0

\* A list is opened, that of a deal or a main task from its page.
Open(u) == \E x \in {0} \cup {rows[r].parent : r \in Ids} :
    page = NoPage /\ Render(u, [NoParams EXCEPT !.parent = x])

\* A link of the page is followed.
Click(f) == \E c \in page.choices[f] :
    Render(page.u, [page.p EXCEPT ![f] = c.value])

\* The session gets another department in another tab.
Elsewhere(u, d) ==
    /\ InSession(u) /\ page.u = u /\ session[u] # d /\ pages < MaxPages /\ pages' = pages + 1
    /\ session' = [session EXCEPT ![u] = d]
    /\ UNCHANGED <<kind, rows, page, saves>>

\* A form changes a column of a row.
Save(r) ==
    /\ saves < MaxSaves /\ saves' = saves + 1
    /\ \E c \in DOMAIN rows[r] \ {"incoming", "hides", "parent"} : \E v \in Column[c] :
         rows[r][c] # v /\ rows' = [rows EXCEPT ![r][c] = v]
    /\ UNCHANGED <<kind, session, page, pages>>

ListsNext ==
    \/ \E u \in Staff : Open(u) \/ \E d \in Depts \cup {None} : Elsewhere(u, d)
    \/ page # NoPage /\ \E f \in DOMAIN page.choices : Click(f)
    \/ \E r \in Ids : Save(r)

Spec == Init /\ [][ListsNext]_listVars
-----------------------------------------------------------------------------
ListsTypeOK ==
    /\ kind \in Kinds /\ session \in [Staff -> Depts \cup {None}]
    /\ page = NoPage \/ (page.shown \subseteq page.found /\ page.found \subseteq Ids
                        /\ page.dept \in Depts \cup {None})

Value(f) == IF f # "department" THEN page.p[f]
            ELSE IF page.p[f] # Absent THEN page.p[f]
            ELSE IF page.dept = None THEN "all" ELSE page.dept
Selected(f) == {c \in page.choices[f] : c.value = Value(f)}
\* What a choice says of a row, as it was when the page was made.  In the list of
\* the subtasks of a main task the choice of himself shows a chief all of them.
Fits(f, s, r) ==
    LET row == page.at[r]
    IN  s = "All" \/
        CASE f = "department" -> row.dept = s
          [] f = "active" -> IF s = "No" THEN ~row.active
                             ELSE page.p.active = "yes" \/ (row.active /\ r \notin page.hidden)
          [] f = "owner" -> \/ IF s = None THEN row.owner = None ELSE s \in PeopleOf(row)
                            \/ /\ kind = "tasks" /\ page.p.parent # 0
                               /\ Chief(page.u) /\ page.p.owner = Absent
          [] f = "responsible" -> IF s = None THEN row.responsible = {} ELSE s \in row.responsible
          [] f = "city" -> row.city = s
          [] f = "tag" -> s \in row.tags
          [] f = "product" -> s \in row.products
          [] f = "mailbox" -> (s = "trash") = row.trash /\
               CASE s = "inbox" -> row.incoming [] s = "sent" -> row.sent
                 [] s = "outbox" -> ~row.sent /\ ~row.incoming [] OTHER -> TRUE

\* A page shows what its selected choices say it shows, whatever page and tab the
\* user comes from and whoever saved rows meanwhile - except that "All" shows a
\* chief his own tasks, if there are some, that his own name shows him all the
\* subtasks of a main task, and that "Yes" shows inactive deals of a company too.
SelectedShown ==
    page # NoPage /\ (\A f \in DOMAIN page.choices : Selected(f) # {})
      /\ ~(/\ kind = "tasks" /\ Chief(page.u) /\ page.p.parent = 0 /\ page.p.responsible = Absent
           /\ \E r \in Ids : page.u \in page.at[r].responsible)
    => page.shown = {r \in page.found :
                       \A f \in DOMAIN page.choices : \A c \in Selected(f) : Fits(f, c.shows, r)}

\* Whoever finds a task in a list can open it, though the list and the permission
\* to view are written down twice.
ListedOpens ==
    kind = "tasks" => \A u \in Staff, x \in {0} \cup Ids :
        \A r \in Finds(u, [NoParams EXCEPT !.parent = x]) : MayView(u, r)

\* The number of tasks on the index page is that of the tasks in the list that
\* opens behind it, for everybody but a chief.
TasksCounted ==
    kind = "tasks" => \A u \in Staff :
        ~Chief(u) /\ ForMe(u) # {} => Shown(u, NoParams) = ForMe(u)

\* The number in the name of the outbox is that of the mails it shows to those
\* whose lists show their own mails and to those who see all, unless all owners
\* or none are chosen, or one of another department.
OutboxCounted ==
    kind = "mails" /\ page # NoPage =>
        LET u == page.u
            x == page.p.owner
        IN  /\ ~SeesAll(u) \/ Superuser(u) \/ Chief(u)
            /\ x \notin {"all", "IsNull"} /\ Selected("owner") # {}
            /\ x \in Staff => page.dept \in {None} \cup Member[x]
            /\ page.p.parent = 0
            => page.number = Cardinality(page.outbox)

\* What a list shows, what it says it shows, what may be opened and the numbers
\* beside it agree.
ListsRight ==
    /\ ListsTypeOK
    /\ SelectedShown
    /\ ListedOpens
    /\ TasksCounted
    /\ OutboxCounted
=============================================================================
