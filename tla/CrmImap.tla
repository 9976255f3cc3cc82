------------------------------- MODULE CrmImap -------------------------------
(***************************************************************************)
(* The shared IMAP connection of one email account, with                   *)
(* REUSE_IMAP_CONNECTION = True: CrmIMAP objects in the crmimap_storage of *)
(* the CrmImapManager, lock() and release(), the threads that borrow the   *)
(* connection (web requests, ImportEmails), and the manager's own thread   *)
(* that keeps it alive (crm/utils/crm_imap.py, crm/utils/manage_imaps.py). *)
(*                                                                         *)
(* The code tests a flag, the dictionary or the lock, in one statement and *)
(* sets it in a later one: each is a step.  Accounts do not interact; the  *)
(* dictionary is what it holds under the key of this one.                  *)
(***************************************************************************)
EXTENDS Naturals, FiniteSets

CONSTANTS Clients,     \* threads that call get_crmimap
          Keeper,      \* the thread CrmImapManager
          Objects,     \* CrmIMAP objects; one that nobody refers to is used anew
          None,        \* no object
          MaxFailures  \* bound: commands and logins that fail

Threads == Clients \cup {Keeper}

ASSUME ImapAssumption ==
    /\ Keeper \notin Clients /\ None \notin Objects
    /\ IsFiniteSet(Clients)
    /\ MaxFailures \in Nat

VARIABLES
    stored,    \* crmimap_storage.get(email_host_user)
    locked,    \* the attribute of each object
    error,     \* objects whose error is set
    closed,    \* objects whose connection was closed and logged out
    pc,        \* where each thread is
    obj,       \* its reference to an object
    failures,  \* failures so far, bounded by MaxFailures
    left,      \* history: objects whose user went without release()
    shared     \* history: a test was out of date when its statement ran, or
               \* a connection was released twice

imapVars == <<stored, locked, error, closed, pc, obj, failures, left, shared>>
-----------------------------------------------------------------------------
Fresh == {o \in Objects : o # stored /\ \A t \in Threads : obj[t] # o}
Working == {"check", "drop", "login", "use"}

Goto(t, l) == pc' = [pc EXCEPT ![t] = l]
Refer(t, o) == obj' = [obj EXCEPT ![t] = o]
Lock(o) == locked' = [locked EXCEPT ![o] = TRUE]

ImapInit ==
    /\ stored = None
    /\ locked = [o \in Objects |-> FALSE]
    /\ error = {} /\ closed = {}
    /\ pc = [t \in Threads |-> "idle"]
    /\ obj = [t \in Threads |-> None]
    /\ failures = 0
    /\ left = {} /\ shared = FALSE

Fails == failures < MaxFailures /\ failures' = failures + 1

\* An exception, or a return, leaves get_crmimap or the caller: the lock stays
\* as it is, for good when the thread had the connection.
Raise(t) ==
    /\ Goto(t, "idle") /\ Refer(t, None)
    /\ UNCHANGED <<stored, locked, closed>>
Leave(t) == Raise(t) /\ left' = left \cup {obj[t]}
-----------------------------------------------------------------------------
(* get_crmimap in a client, and the reconnection both kinds of thread use. *)

Get(t) ==
    /\ t \in Clients /\ pc[t] = "idle"
    /\ IF stored = None THEN Goto(t, "make") /\ UNCHANGED obj
                        ELSE Goto(t, "lock") /\ Refer(t, stored)
    /\ UNCHANGED <<stored, locked, error, closed, failures, left, shared>>

Mutant_LockWait(t) ==                   \* after 60 seconds the lock comes free
    /\ pc[t] = "lock"
    /\ IF locked[obj[t]]
       THEN /\ locked' = [locked EXCEPT ![obj[t]] = FALSE]
            /\ Goto(t, "idle") /\ Refer(t, None) /\ UNCHANGED <<stored, closed>>
       ELSE Goto(t, "set") /\ UNCHANGED <<stored, locked, closed, obj>>
    /\ UNCHANGED <<error, failures, left, shared>>

\* CrmIMAP.lock: sees the flag down, or waits at most 60 seconds for it.
LockWait(t) ==
    /\ pc[t] = "lock"
    /\ IF locked[obj[t]] THEN Raise(t)
       ELSE Goto(t, "set") /\ UNCHANGED <<stored, locked, closed, obj>>
    /\ UNCHANGED <<error, failures, left, shared>>

LockSet(t) ==
    /\ pc[t] = "set"
    /\ Lock(obj[t])
    /\ shared' = (shared \/ locked[obj[t]])
    /\ Goto(t, "check")
    /\ UNCHANGED <<stored, error, closed, obj, failures, left>>

\* An object with an error, or one that does not answer to NOOP, is replaced.
Noop(t) ==
    /\ pc[t] = "check"
    /\ Goto(t, IF obj[t] \in error THEN "drop" ELSE "use")
    /\ UNCHANGED <<stored, locked, error, closed, obj, failures, left, shared>>

NoopFails(t) ==
    /\ pc[t] = "check" /\ obj[t] \notin error
    /\ Fails
    /\ error' = error \cup {obj[t]}
    /\ Goto(t, "drop")
    /\ UNCHANGED <<stored, locked, closed, obj, left, shared>>

\* _del_crmimap deletes what is under the key, whatever object that is;
\* KeyError when there is nothing.

Drop(t) ==
    /\ pc[t] = "drop"
    /\ IF stored = None THEN Raise(t)
       ELSE /\ stored' = None
            /\ closed' = closed \cup {obj[t]}
            /\ Goto(t, "make") /\ Refer(t, None)
            /\ UNCHANGED locked
    /\ shared' = (shared \/ stored # obj[t])
    /\ UNCHANGED <<error, failures, left>>

\* _create_crmimap: a new object is locked from the start; who finds the key
\* taken uses the object that is there, or fails when it is gone again.
Mutant_Make(t) ==                       \* __init__ without "locked = True"
    /\ pc[t] = "make"
    /\ IF stored = None
       THEN /\ Fresh # {}
            /\ LET o == CHOOSE x \in Fresh : TRUE IN
                 /\ Refer(t, o) /\ locked' = [locked EXCEPT ![o] = FALSE]
                 /\ error' = error \ {o} /\ closed' = closed \ {o}
                 /\ left' = left \ {o}
            /\ Goto(t, "put")
       ELSE Goto(t, "adopt") /\ UNCHANGED <<obj, locked, error, closed, left>>
    /\ UNCHANGED <<stored, failures, shared>>

Make(t) ==
    /\ pc[t] = "make"
    /\ IF stored = None
       THEN /\ Fresh # {}
            /\ LET o == CHOOSE x \in Fresh : TRUE IN
                 /\ Refer(t, o) /\ Lock(o)
                 /\ error' = error \ {o} /\ closed' = closed \ {o}
                 /\ left' = left \ {o}
            /\ Goto(t, "put")
       ELSE Goto(t, "adopt") /\ UNCHANGED <<obj, locked, error, closed, left>>
    /\ UNCHANGED <<stored, failures, shared>>

Store(t) ==
    /\ pc[t] = "put"
    /\ stored' = obj[t]
    /\ shared' = (shared \/ stored # None)
    /\ Goto(t, "login")
    /\ UNCHANGED <<locked, error, closed, obj, failures, left>>

Adopt(t) ==
    /\ pc[t] = "adopt"
    /\ IF stored = None THEN Raise(t)
       ELSE Goto(t, "use") /\ Refer(t, stored) /\ UNCHANGED <<stored, locked, closed>>
    /\ shared' = TRUE
    /\ UNCHANGED <<error, failures, left>>

\* get_in: connect, log in and list the boxes, with or without success.
Login(t) ==
    /\ pc[t] = "login"
    /\ \/ UNCHANGED <<error, failures>>
       \/ Fails /\ error' = error \cup {obj[t]}
    /\ Goto(t, "use")
    /\ UNCHANGED <<stored, locked, closed, obj, left, shared>>

\* A command of the borrower fails: the error stays on the object.
CommandFails(t) ==
    /\ pc[t] = "use" /\ obj[t] \notin error
    /\ Fails
    /\ error' = error \cup {obj[t]}
    /\ UNCHANGED <<stored, locked, closed, pc, obj, left, shared>>

Release(t) ==
    /\ pc[t] = "use"
    /\ locked' = [locked EXCEPT ![obj[t]] = FALSE]
    /\ \/ Goto(t, "idle") /\ Refer(t, None)
       \/ t \in Clients /\ Goto(t, "again") /\ UNCHANGED obj
    /\ UNCHANGED <<stored, error, closed, failures, left, shared>>

\* view_original_email: update_eml_uid has released the connection, and on an
\* error the view releases it a second time.
ReleaseAgain(t) ==
    /\ pc[t] = "again"
    /\ locked' = [locked EXCEPT ![obj[t]] = FALSE]
    /\ shared' = (shared \/ locked[obj[t]])
    /\ Goto(t, "idle") /\ Refer(t, None)
    /\ UNCHANGED <<stored, error, closed, failures, left>>

\* view_original_email: a command that failed has returned None for the data,
\* and data[0] raises before release() is reached.
Abandon(t) ==
    /\ t \in Clients /\ pc[t] = "use" /\ obj[t] \in error
    /\ Leave(t)
    /\ UNCHANGED <<error, failures, shared>>

\* get_email_headers_page: the inbox is empty, there is nothing to fetch, and
\* the page is returned with no error and without release().
EmptyPage(t) ==
    /\ t \in Clients /\ pc[t] = "use" /\ obj[t] \notin error
    /\ Leave(t)
    /\ UNCHANGED <<error, failures, shared>>

\* _open_lockfile raises RuntimeError after 20 seconds, during NOOP, LOGIN or
\* any other command: nobody on the way out calls release().
LockfileTimeout(t) ==
    /\ pc[t] \in {"check", "login", "use"}
    /\ Fails
    /\ Leave(t)
    /\ UNCHANGED <<error, shared>>
-----------------------------------------------------------------------------
(* The manager's thread: every IMAP_NOOP_PERIOD seconds it looks at each   *)
(* key, tests the flag of its object, locks it and sends NOOP when the     *)
(* connection has not been used for a while.                               *)

ListKeys ==
    /\ pc[Keeper] = "idle" /\ stored # None
    /\ Goto(Keeper, "look")
    /\ UNCHANGED <<stored, locked, error, closed, obj, failures, left, shared>>

\* getattr(None, 'locked') and storage[key] are outside the try.
Look ==
    /\ pc[Keeper] = "look"
    /\ Goto(Keeper, IF stored = None THEN "dead"
                    ELSE IF locked[stored] THEN "idle" ELSE "mark")
    /\ UNCHANGED <<stored, locked, error, closed, obj, failures, left, shared>>

Mark ==
    /\ pc[Keeper] = "mark"
    /\ IF stored = None
       THEN Goto(Keeper, "dead") /\ UNCHANGED <<locked, shared>>
       ELSE /\ shared' = (shared \/ locked[stored])
            /\ Lock(stored)
            /\ Goto(Keeper, "serve")
    /\ UNCHANGED <<stored, error, closed, obj, failures, left>>

\* _serve_crmimap: KeyError is caught.
Serve ==
    /\ pc[Keeper] = "serve"
    /\ IF stored = None THEN Goto(Keeper, "idle") /\ UNCHANGED obj
       ELSE /\ Refer(Keeper, stored)
            /\ \/ Goto(Keeper, "use")
               \/ Goto(Keeper, IF stored \in error THEN "drop" ELSE "check")
    /\ UNCHANGED <<stored, locked, error, closed, failures, left, shared>>
-----------------------------------------------------------------------------
Connect(t) ==
    Drop(t) \/ Make(t) \/ Store(t) \/ Adopt(t) \/ Login(t)

Step(t) ==
    LockWait(t) \/ LockSet(t) \/ Noop(t) \/ Connect(t) \/ Release(t) \/ ReleaseAgain(t)

ImapFailure(t) == NoopFails(t) \/ CommandFails(t) \/ LockfileTimeout(t) \/ Abandon(t) \/ EmptyPage(t)

KeepInTouch == ListKeys \/ Look \/ Mark \/ Serve

ImapNext ==
    \/ \E t \in Threads : Get(t) \/ Step(t) \/ ImapFailure(t)
    \/ KeepInTouch

ImapSpec == ImapInit /\ [][ImapNext]_imapVars

-----------------------------------------------------------------------------
(* What must hold.                                                         *)

\* Every variable has its type, and a thread at work has an object.
ImapTypeOK ==
    /\ stored \in Objects \cup {None}
    /\ locked \in [Objects -> BOOLEAN]
    /\ error \subseteq Objects /\ closed \subseteq Objects
    /\ pc \in [Threads -> Working \cup {"idle", "lock", "set", "make", "put", "adopt", "again",
                                        "look", "mark", "serve", "dead"}]
    /\ obj \in [Threads -> Objects \cup {None}]
    /\ \A t \in Threads : pc[t] \in Working \cup {"lock", "set", "put", "again"} => obj[t] \in Objects
    /\ failures \in Nat
    /\ left \subseteq Objects /\ shared \in BOOLEAN

At(o) == {t \in Threads : obj[t] = o /\ pc[t] \in Working}

\* One thread at a time talks over a connection, as long as no test was out of
\* date and none was released twice: the cases of shared are the only ways to
\* share it.
ExclusiveUse == ~shared => \A o \in Objects : Cardinality(At(o)) <= 1

\* Nobody talks over a connection that somebody else has closed.
OpenInUse ==
    ~shared => \A t \in Threads : pc[t] \in {"check", "use"} => obj[t] \notin closed

\* A locked connection has a user, who goes on to release it, or is one that
\* its user left on one of the ways out that call no release(): those keep the
\* account's mail from everybody, since nothing unlocks them, but never let two
\* in (crm/utils/import_emails.py:149-181, crm/views/view_original_email.py:35,
\* crm/utils/crm_imap.py:355-402).
LockedByOne ==
    ~shared =>
        /\ stored # None /\ locked[stored] =>
              At(stored) # {} \/ pc[Keeper] = "serve" \/ stored \in left
        /\ \A o \in left : locked[o] /\ At(o) = {}

\* One thread at a time has a connection, an open one, and one that is locked
\* has a user or was left (crm/utils/manage_imaps.py, crm/utils/crm_imap.py).
Exclusive ==
    /\ ImapTypeOK
    /\ ExclusiveUse
    /\ OpenInUse
    /\ LockedByOne

\* The thread that has the connection in the storage of the manager.
Owner == IF stored # None /\ At(stored) # {} THEN CHOOSE t \in At(stored) : TRUE
         ELSE IF pc[Keeper] = "serve" THEN Keeper
         ELSE IF stored # None /\ locked[stored] THEN "lost" ELSE None
L == INSTANCE Lock WITH Nobody <- None, Lost <- "lost", owner <- Owner, accident <- shared

\* Flags, objects and the dictionary together are a lock: who has the
\* connection is the only one to give it back.
Locking == L!Spec
=============================================================================
