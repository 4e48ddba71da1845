-------------------------------- MODULE Pool ---------------------------------
(***************************************************************************)
(* What a request takes hold of on its way: a thread of the server, one of *)
(* the pool's connections, and the two advisory locks of PostgreSQL.  Each *)
(* kind of request is a program of such steps; a request that fails undoes *)
(* what it holds, in the order of the context managers it is in.  Work     *)
(* that takes hold of nothing is left out.                                 *)
(***************************************************************************)
EXTENDS Integers, FiniteSets, SequencesExt

CONSTANTS
  Requests, Kinds,          \* who asks, and the kinds of requests they make
  Conns, Breakable,         \* the connections there may be (pool_size); those
                            \* of them that the server may end
  MaxWaiting,               \* requests that may wait for one (pool_max_waiting)
  Threads,                  \* threads for handlers and dependencies
  None

(* What is assumed of the constants.                                       *)
SizesAssumption == {MaxWaiting, Threads} \subseteq Nat \ {0}
KindsAssumption == Kinds \subseteq {"read", "write", "login", "register", "profile", "pass"}
NoneAssumption == None \notin Conns

VARIABLES
  todo,            \* the steps each request has before it
  running, lobby,  \* who has a thread; who waits for one
  has,             \* the connection of each request
  queue,           \* who waits for a connection
  idle, returned,  \* connections to be taken; those the pool's worker has to reset
  tx, short, dead, \* connections in a transaction, with a 100 ms limit, lost
  lock             \* the connections at each lock: its holder is the first

vars == <<todo, running, lobby, has, queue, idle, returned, tx, short, dead, lock>>

-----------------------------------------------------------------------------
(* META = WRITE_LOCK + 1 is taken by operational_transaction, LEDGER =     *)
(* WRITE_LOCK by whoever writes to the financial tables.                   *)
Locks == {"META", "LEDGER"}

Check == <<"thread", "take", "touch", "give", "leave">>
Operation == <<"take", "META", "commit", "give">>
Look == <<"take", "give">>
NewUserInside == <<"take", "META", "LEDGER", "take", "give", "commit", "give">> \* variant
NewUser == <<"take", "META", "LEDGER", "commit", "give">>

(* Reading and writing hold a connection of the dependency's from before   *)
(* the handler's thread to after it; the others open their own.            *)
Held(work) == Check \o <<"thread", "take", "leave", "thread">> \o work \o <<"leave", "give">>
Login == <<"thread">> \o Look \o Operation \o Operation \o <<"leave">>
Register == <<"thread">> \o Operation \o Operation \o Look \o NewUser \o Look \o <<"leave">>
Profile == Check \o <<"thread">> \o Look \o <<"leave">>
Pass == <<"take", "LEDGER", "commit", "LEDGER", "commit", "give">> \o Look

Program(kind) ==
  CASE kind = "read" -> Held(<<>>)
    [] kind = "write" -> Held(<<"LEDGER", "commit">>)
    [] kind = "login" -> Login
    [] kind = "register" -> Register
    [] kind = "profile" -> Profile
    [] kind = "pass" -> Pass

At(r, step) == todo[r] # <<>> /\ Head(todo[r]) = step
Done(r) == todo' = [todo EXCEPT ![r] = Tail(@)]

Made == idle \cup returned \cup {has[r] : r \in {x \in Requests : has[x] # None}}
Without(s, e) ==
  IF Contains(s, e) THEN RemoveAt(s, CHOOSE i \in DOMAIN s : s[i] = e) ELSE s
Unlocked(c) == lock' = [l \in Locks |-> Without(lock[l], c)]
WithThread == <<running, lobby>>
WithPool == <<has, queue, idle, returned>>
InServer == <<tx, short, dead, lock>>

(* What is left of a request that fails: leaving the context managers.  A  *)
(* handler's thread is inside of the dependency's connection.              *)
ThreadInside(r) ==
  \E i \in DOMAIN todo[r] : /\ todo[r][i] = "leave"
                            /\ \A j \in 1..(i - 1) : todo[r][j] # "give"
Unwound(r) ==
  LET thread == IF r \in running THEN <<"leave">> ELSE <<>>
  IN IF has[r] = None THEN thread
     ELSE IF ThreadInside(r) THEN <<"leave", "give">> ELSE <<"give">> \o thread
Unwind(r) == todo' = [todo EXCEPT ![r] = Unwound(r)]

-----------------------------------------------------------------------------
Arrive(r) ==
  /\ todo[r] = <<>>
  /\ \E k \in Kinds : todo' = [todo EXCEPT ![r] = Program(k)]
  /\ UNCHANGED <<WithThread, WithPool, InServer>>

LineUp(r) ==
  /\ At(r, "thread") /\ ~Contains(lobby, r)
  /\ lobby' = Append(lobby, r)
  /\ UNCHANGED <<todo, running, WithPool, InServer>>

Admit(r) ==
  /\ lobby # <<>> /\ r = Head(lobby) /\ Cardinality(running) < Threads
  /\ running' = running \cup {r} /\ lobby' = Tail(lobby)
  /\ Done(r)
  /\ UNCHANGED <<WithPool, InServer>>

Leave(r) ==
  /\ At(r, "leave")
  /\ running' = running \ {r}
  /\ Done(r)
  /\ UNCHANGED <<lobby, WithPool, InServer>>

(* getconn: an idle connection that answers, a place in the queue, or the  *)
(* refusal that becomes a 503.                                             *)
Alive == idle \ dead
UnboundedRoom == TRUE                                  \* variant: no max_waiting
Room == Len(queue) < MaxWaiting

TakeIdle(r) ==
  /\ At(r, "take") /\ ~Contains(queue, r)
  /\ \E c \in Alive : has' = [has EXCEPT ![r] = c] /\ idle' = idle \ {c}
  /\ Done(r)
  /\ UNCHANGED <<WithThread, queue, returned, InServer>>

Wait(r) ==
  /\ At(r, "take") /\ ~Contains(queue, r)
  /\ Alive = {} /\ Room
  /\ queue' = Append(queue, r)
  /\ idle' = {} /\ dead' = dead \ idle
  /\ UNCHANGED <<todo, WithThread, has, returned, tx, short, lock>>

Refuse(r) ==
  /\ At(r, "take") /\ ~Contains(queue, r)
  /\ Alive = {} /\ ~Room
  /\ Unwind(r)
  /\ idle' = {} /\ dead' = dead \ idle
  /\ UNCHANGED <<WithThread, has, queue, returned, tx, short, lock>>

NoTimeLimit == FALSE                                   \* variant: timeout=None
TimeLimit == TRUE

PoolTimeOut(r) ==
  /\ Contains(queue, r) /\ TimeLimit
  /\ queue' = Without(queue, r)
  /\ Unwind(r)
  /\ UNCHANGED <<WithThread, has, idle, returned, InServer>>

(* The pool's worker: a connection goes to who has waited longest.         *)
Hand(c) ==
  \/ /\ queue = <<>>
     /\ idle' = idle \cup {c}
     /\ UNCHANGED <<todo, has, queue>>
  \/ /\ queue # <<>>
     /\ has' = [has EXCEPT ![Head(queue)] = c]
     /\ queue' = Tail(queue)
     /\ Done(Head(queue))
     /\ UNCHANGED idle

Grow(c) ==
  /\ c \notin Made /\ queue # <<>>
  /\ Hand(c)
  /\ UNCHANGED <<WithThread, returned, InServer>>

(* _reset_connection: no transaction, and the session's settings as new.   *)
ResetKeepingSettings(c) == UNCHANGED short            \* variant: DISCARD ALL left out
ResetSettings(c) == short' = short \ {c}

Reset(c) ==
  /\ c \in returned /\ c \notin dead
  /\ returned' = returned \ {c}
  /\ tx' = tx \ {c} /\ Unlocked(c) /\ ResetSettings(c)
  /\ Hand(c)
  /\ UNCHANGED <<WithThread, dead>>

Discard(c) ==
  /\ c \in returned \cap dead
  /\ returned' = returned \ {c} /\ dead' = dead \ {c} /\ short' = short \ {c}
  /\ UNCHANGED <<todo, WithThread, has, queue, idle, tx, lock>>

-----------------------------------------------------------------------------
(* Work on the connection.  The session check may record that the session  *)
(* was seen, for which it waits 100 ms at most.                            *)
Touch(r) ==
  /\ At(r, "touch") /\ has[r] \notin dead
  /\ short' \in {short, short \cup {has[r]}}
  /\ Done(r)
  /\ UNCHANGED <<WithThread, WithPool, tx, dead, lock>>

Ask(r, l) ==
  /\ At(r, l) /\ has[r] \notin dead /\ ~Contains(lock[l], has[r])
  /\ lock' = [lock EXCEPT ![l] = Append(@, has[r])]
  /\ tx' = tx \cup {has[r]}
  /\ UNCHANGED <<todo, WithThread, WithPool, short, dead>>

Obtain(r, l) ==
  /\ At(r, l) /\ lock[l] # <<>> /\ Head(lock[l]) = has[r]
  /\ Done(r)
  /\ UNCHANGED <<WithThread, WithPool, InServer>>

Commit(r) ==
  /\ At(r, "commit") /\ has[r] \notin dead
  /\ tx' = tx \ {has[r]} /\ Unlocked(has[r])
  /\ Done(r)
  /\ UNCHANGED <<WithThread, WithPool, short, dead>>

(* An error: of the work itself, of a connection that is lost, or of a     *)
(* lock that was waited for too long.                                      *)
ExitWithout(c) == UNCHANGED <<tx, lock>>         \* variant: left to connection()
Exit(c) == tx' = tx \ {c} /\ Unlocked(c)

Abandon(r) ==
  /\ Exit(has[r])
  /\ Unwind(r)
  /\ UNCHANGED <<WithThread, WithPool, short, dead>>

Fail(r) == (At(r, "touch") \/ At(r, "commit")) /\ Abandon(r)
NoticeLoss(r) ==
  has[r] \in dead /\ (At(r, "touch") \/ \E s \in Locks \cup {"commit"} : At(r, s)) /\ Abandon(r)
LockTimeOut(r, l) ==
  At(r, l) /\ Contains(lock[l], has[r]) /\ Head(lock[l]) # has[r] /\ Abandon(r)

(* connection(): rolled back, and to the pool whatever happened.           *)
Give(r) ==
  /\ At(r, "give")
  /\ tx' = tx \ {has[r]} /\ Unlocked(has[r])
  /\ returned' = returned \cup {has[r]} /\ has' = [has EXCEPT ![r] = None]
  /\ Done(r)
  /\ UNCHANGED <<WithThread, queue, idle, short, dead>>

(* The server ends a session, with its transaction and its locks.          *)
Break(c) ==
  /\ c \in (Made \ dead) \cap Breakable
  /\ dead' = dead \cup {c}
  /\ tx' = tx \ {c} /\ Unlocked(c)
  /\ UNCHANGED <<todo, WithThread, WithPool, short>>

-----------------------------------------------------------------------------
Init ==
  /\ todo = [r \in Requests |-> <<>>]
  /\ running = {} /\ lobby = <<>>
  /\ has = [r \in Requests |-> None] /\ queue = <<>>
  /\ idle = {} /\ returned = {} /\ tx = {} /\ short = {} /\ dead = {}
  /\ lock = [l \in Locks |-> <<>>]

Proceed(r) ==
  \/ LineUp(r) \/ Admit(r) \/ Leave(r)
  \/ TakeIdle(r) \/ Wait(r) \/ Refuse(r) \/ Give(r)
  \/ Touch(r) \/ Commit(r) \/ NoticeLoss(r)
  \/ \E l \in Locks : Ask(r, l) \/ Obtain(r, l)
Worker == \E c \in Conns : Grow(c) \/ Reset(c) \/ Discard(c)
TimeOut(r) == PoolTimeOut(r) \/ \E l \in Locks : LockTimeOut(r, l)

Next ==
  \/ \E r \in Requests : Arrive(r) \/ Proceed(r) \/ Fail(r) \/ TimeOut(r)
  \/ Worker
  \/ \E c \in Conns : Break(c)

Spec == Init /\ [][Next]_vars
(* Threads run, statements end (statement_timeout) and the pool's worker   *)
(* works.  Nobody is known to be saved by running out of time.             *)
LiveSpec == Spec /\ (\A r \in Requests : WF_vars(Proceed(r))) /\ WF_vars(Worker)

-----------------------------------------------------------------------------
(* Properties                                                              *)

TypeOK ==
  /\ running \subseteq Requests /\ Range(lobby) \subseteq Requests
  /\ has \in [Requests -> Conns \cup {None}]
  /\ Range(queue) \subseteq Requests
  /\ idle \cup returned \cup tx \cup short \cup dead \subseteq Conns
  /\ \A l \in Locks : Range(lock[l]) \subseteq Conns

(* Whoever gets a connection finds it as new, whatever its last user did   *)
(* with it: in no transaction, at no lock, with ten seconds for a lock and *)
(* not the tenth of one that the session check allows itself               *)
(* (test_database_capacity.py:32).                                         *)
TakenClean ==
  [][\A r \in Requests : has[r] = None /\ has'[r] # None =>
       /\ has'[r] \notin tx' \cup short'
       /\ \A l \in Locks : ~Contains(lock'[l], has'[r])
       /\ \A s \in Requests \ {r} : has'[s] # has'[r]]_vars

(* A lock is only ever held or waited for by somebody who is at work, also *)
(* after an error: it is not carried out of the handler, where the thread  *)
(* is given up before the connection, nor to the pool.                     *)
LocksAreWorkedOn ==
  \A l \in Locks : \A c \in Range(lock[l]) :
    \E r \in Requests : has[r] = c /\ \E s \in Locks \cup {"commit"} : At(r, s)

(* Every request ends, served or refused, and nobody has to run out of     *)
(* time for it: not for a connection, a lock or a thread.                  *)
Answered == \A r \in Requests : (todo[r] # <<>>) ~> (todo[r] = <<>>)
=============================================================================
