--------------------------------- MODULE Chat ---------------------------------
(***************************************************************************)
(* Messages of users about an object (chat/site/chatmessageadmin.py,       *)
(* chat/forms/chatmessageform.py, chat/models.py).  A message is addressed *)
(* to users and unread by some of them: "recipients" are those that have   *)
(* not read it, "to" is whoever it was addressed to.  The list of messages *)
(* takes the reader off every message of the page it shows, an answer off  *)
(* the message it answers, and editing a message addresses it anew and     *)
(* makes the editor its owner.                                             *)
(***************************************************************************)
EXTENDS Notices

CONSTANTS MaxMessages,   \* bound: messages
          Participants,  \* the users concerned with the object
          Leaders,       \* chiefs and superusers: they see every message
          PageSize       \* a list that needs pages cannot be filtered

ASSUME ChatAssumption ==
    /\ Participants \subseteq CrmUsers /\ Leaders \subseteq CrmUsers
    /\ PageSize \in Nat \ {0} /\ MaxMessages \in Nat

VARIABLES
    chat,    \* the messages, by id
    lastId   \* ids are not used again, bounded by MaxMessages

chatVars == <<chat, lastId>>

None == 0
Exists(m) == m \in DOMAIN chat
InitChat == chat = <<>> /\ lastId = 0

\* Whom a user can address: the users of the message that is answered, or
\* those concerned with the object and the leaders.
Addressees(u, answer) ==
    IF answer # None THEN (chat[answer].to \ {u}) \cup {chat[answer].owner}
    ELSE (Participants \cup Leaders) \ {u}
Visible(u) == {m \in DOMAIN chat : u \in Leaders \cup {chat[m].owner} \cup chat[m].to}

\* A post begins: the recipients are told one after the other.
BeginPost(u, kind, to, m, answers) ==
    /\ to # {} /\ tx[u] = Idle /\ Cardinality(Flying) < MaxFlight
    /\ (kind = "new" => lastId < MaxMessages)
    /\ Use /\ notices' = notices + 1
    /\ \E list \in Orders(to) :
         tx' = [tx EXCEPT ![u] = [Idle EXCEPT !.kind = "notify", !.how = "one",
                   !.todo = list, !.notice = notices + 1,
                   !.about = [kind |-> kind, to |-> to, id |-> m, answers |-> answers]]]
    /\ UNCHANGED <<stored, shown, chat, lastId>> /\ UNCHANGED mailVars

PostMessage(u) ==
    /\ \E answer \in {None} \cup Visible(u) : \E to \in SUBSET Addressees(u, answer) :
         BeginPost(u, "new", to, None, answer)
EditMessage(u) ==
    /\ \E m \in Visible(u) : \E to \in SUBSET Addressees(u, None) :
         BeginPost(u, "edit", to, m, chat[m].answers)

Done(u) == /\ tx[u].kind = "notify" /\ tx[u].how = "one"
           /\ tx[u].todo = <<>> /\ tx[u].told = <<>>
\* The answered message is read by who answers.
Answered(m, u) == [chat[m] EXCEPT !.unread = @ \ {u}]
\* The form saves its recipients in both lists; whoever saves is the owner.
Addressed(u, t) == [owner |-> u, to |-> t.to, unread |-> t.to, answers |-> t.answers]
\* A message edited while it was deleted is inserted again.
CommitMessage(u) ==
    /\ Done(u)
    /\ LET t == tx[u].about   new == t.kind = "new"   m == IF new THEN lastId + 1 ELSE t.id
       IN /\ t.answers # None => Exists(t.answers)
          /\ m <= MaxMessages
          /\ lastId' = IF new THEN m ELSE lastId
          /\ chat' = Put(IF new /\ t.answers # None
                         THEN Put(chat, t.answers, Answered(t.answers, u)) ELSE chat,
                         m, Addressed(u, t))
    /\ Commit(u)
\* The message it answers is gone: the key is refused.
AbortMessage(u) ==
    /\ Done(u) /\ tx[u].about.answers # None /\ ~Exists(tx[u].about.answers)
    /\ tx' = [tx EXCEPT ![u] = Idle]
    /\ UNCHANGED <<stored, shown, notices, uses, chat, lastId>> /\ UNCHANGED mailVars

\* The list: one page can be read, a longer list raises an error.
ReadMessages(u) ==
    /\ Cardinality(Visible(u)) <= PageSize
    /\ \E m \in Visible(u) : u \in chat[m].unread
    /\ chat' = [m \in DOMAIN chat |->
                  IF m \in Visible(u) THEN [chat[m] EXCEPT !.unread = @ \ {u}] ELSE chat[m]]
    /\ UNCHANGED <<lastId, noticeVars>>

\* A message goes with its answers and theirs.
WithAnswers(S) == \A a \in DOMAIN chat : chat[a].answers \in S => a \in S
Answers(m) == {a \in DOMAIN chat : \A S \in SUBSET DOMAIN chat :
                                      m \in S /\ WithAnswers(S) => a \in S}
DeleteMessage(u) ==
    /\ \E m \in Visible(u) : chat' = Restrict(chat, DOMAIN chat \ Answers(m))
    /\ UNCHANGED <<lastId, noticeVars>>

ChatNext == \E u \in CrmUsers : \/ PostMessage(u) \/ EditMessage(u) \/ CommitMessage(u)
                                \/ AbortMessage(u) \/ ReadMessages(u) \/ DeleteMessage(u)
=============================================================================
