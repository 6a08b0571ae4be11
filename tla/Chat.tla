-------------------------------- MODULE Chat --------------------------------
(***************************************************************************)
(* The chat of one API process: app/routes/websocket.py,                   *)
(* app/services/websocket_service.py and app/services/chat_service.py.     *)
(*                                                                         *)
(* Every WebSocket has a handler, a coroutine of the one event loop: a     *)
(* step runs from one await to the next, and handlers interleave there.    *)
(* They share the table of active connections, one entry per user, and the *)
(* conversations and messages in MongoDB, which has no unique index and no *)
(* transaction here.  The table dies with the process, MongoDB does not.   *)
(***************************************************************************)
EXTENDS Naturals, Sequences, FiniteSets

CONSTANTS
  Users,
  Allowed,    \* verify_permissions: the pairs of users that may write
  None,
  MaxConns, MaxMessages, MaxFaults, MaxCrashes    \* bounds for TLC

ASSUME ChatAssumption ==
  /\ Allowed \subseteq Users \X Users
  /\ None \notin Users
  /\ MaxConns \in Nat /\ MaxMessages \in Nat /\ MaxFaults \in Nat
  /\ MaxCrashes \in Nat

VARIABLES
  conns,      \* the WebSockets ever opened, each with its handler
  table,      \* active_connections: the connection of each user, or 0
  convs,      \* conversations: the set of participants, in insertion order
  msgs,       \* messages, in insertion order
  removals,   \* entries ever deleted from active_connections
  ousted,     \* history: connections another handler's disconnect removed
  faults,     \* database errors so far
  crashes     \* deaths of the process so far

vars == <<conns, table, convs, msgs, removals, ousted, faults, crashes>>

\* dropped: an exception left connect, which nothing catches, or the process died;
\* over: after disconnect.
Places == {"join", "online", "listen", "find", "create", "save", "deliver",
           "notify", "echo", "leave", "offline", "over", "dropped"}

\* alive: the server does not know the socket to be closed.  size: of the table
\* when a broadcast began, and gone: the removals then.
Conn == [user : Users, at : Places, alive : BOOLEAN, to : Users \cup {None},
         conv : Nat, msg : Nat, size : Nat, gone : Nat]

\* fate is history: the receiver has been told, or nobody will tell it, because the
\* handler that would have ended (lost) or its process did (died).
Message == [conv : Nat, from : Users, to : Users,
            fate : {"pending", "told", "lost", "died"}]

TypeOK ==
  /\ conns \in Seq(Conn)
  /\ table \in [Users -> {0} \cup DOMAIN conns]
  /\ convs \in Seq(SUBSET Users)
  /\ msgs \in Seq(Message)
  /\ \A h \in DOMAIN conns : /\ conns[h].conv \in {0} \cup DOMAIN convs
                             /\ conns[h].msg \in {0} \cup DOMAIN msgs
  /\ removals \in Nat /\ ousted \subseteq DOMAIN conns
  /\ faults \in Nat /\ crashes \in Nat

Init ==
  /\ conns = <<>> /\ convs = <<>> /\ msgs = <<>>
  /\ table = [u \in Users |-> 0]
  /\ removals = 0 /\ ousted = {} /\ faults = 0 /\ crashes = 0

-----------------------------------------------------------------------------
At(h, place) == conns[h].at = place
User(h) == conns[h].user

Idle(h, place) == [conns[h] EXCEPT !.at = place, !.to = None, !.conv = 0,
                                  !.msg = 0, !.size = 0, !.gone = 0]

Become(h, conn) == conns' = [conns EXCEPT ![h] = conn]

Go(h, place) == Become(h, [conns[h] EXCEPT !.at = place])

\* The handler returns, and the server closes its socket.
Return(h, place) == Become(h, [Idle(h, place) EXCEPT !.alive = FALSE])

Online == {u \in Users : table[u] # 0}

\* send_personal_message raises when the user's socket is known to be closed.
Breaks(u) == table[u] # 0 /\ ~conns[table[u]].alive

\* mutant: whoever is being written to is forgotten
ForgetReceiver(h) ==
  [u \in Users |-> IF u \in {User(h), conns[h].to} THEN 0 ELSE table[u]]

\* disconnect looks for the user, not for the socket.
Forget(h) == [table EXCEPT ![User(h)] = 0]

Told(h, how) == msgs' = [msgs EXCEPT ![conns[h].msg].fate = how]

\* An exception inside the loop ends it; a message under way is lost.
Leave(h) ==
  /\ table' = Forget(h)
  /\ removals' = IF User(h) \in Online THEN removals + 1 ELSE removals
  /\ ousted' = ousted \cup ({table[User(h)]} \ {0, h})
  /\ Become(h, Idle(h, "leave"))
  /\ IF conns[h].at \in {"deliver", "notify"} THEN Told(h, "lost")
     ELSE UNCHANGED msgs

-----------------------------------------------------------------------------
(* connect and disconnect *)

Open(u) ==
  /\ Len(conns) < MaxConns
  /\ conns' = Append(conns, [user |-> u, at |-> "join", alive |-> TRUE,
                to |-> None, conv |-> 0, msg |-> 0, size |-> 0, gone |-> 0])
  /\ table' = [table EXCEPT ![u] = Len(conns) + 1]
  /\ UNCHANGED <<convs, msgs, removals, ousted, faults, crashes>>

Alone(h) == Online \subseteq {User(h)}

\* The event is logged, and the broadcast begins; with nobody else in the table
\* it does not wait.
AnnounceOnline(h) ==
  /\ At(h, "join")
  /\ IF Alone(h) THEN Go(h, "listen")
     ELSE Become(h, [conns[h] EXCEPT !.at = "online", !.size = Cardinality(Online),
                                     !.gone = removals])
  /\ UNCHANGED <<table, convs, msgs, removals, ousted, faults, crashes>>

\* The loop over the table raises when the size of the table has changed, or when an
\* entry it has passed was removed and added again behind it; nothing catches an
\* exception of connect.
Announced(h) ==
  /\ At(h, "online")
  /\ \/ conns[h].size = Cardinality(Online) /\ Become(h, Idle(h, "listen"))
     \/ /\ conns[h].size # Cardinality(Online) \/ conns[h].gone # removals
        /\ Return(h, "dropped")
  /\ UNCHANGED <<table, convs, msgs, removals, ousted, faults, crashes>>

AnnounceOffline(h) ==
  /\ At(h, "leave")
  /\ IF Alone(h) THEN Return(h, "over") ELSE Go(h, "offline")
  /\ UNCHANGED <<table, convs, msgs, removals, ousted, faults, crashes>>

\* Raising or not, the broadcast is the last thing a handler does.
AnnouncedOffline(h) ==
  /\ At(h, "offline")
  /\ Return(h, "over")
  /\ UNCHANGED <<table, convs, msgs, removals, ousted, faults, crashes>>

\* The client goes away; its handler hears of it when it listens.
ClientGone(h) ==
  /\ conns[h].alive
  /\ conns' = [conns EXCEPT ![h].alive = FALSE]
  /\ UNCHANGED <<table, convs, msgs, removals, ousted, faults, crashes>>

Hear(h) ==
  /\ At(h, "listen") /\ ~conns[h].alive
  /\ Leave(h)
  /\ UNCHANGED <<convs, faults, crashes>>

-----------------------------------------------------------------------------
(* The receive loop *)

Receive(h, u) ==
  /\ At(h, "listen") /\ conns[h].alive
  /\ <<User(h), u>> \in Allowed /\ Len(msgs) < MaxMessages
  /\ Become(h, [conns[h] EXCEPT !.at = "find", !.to = u])
  /\ UNCHANGED <<table, convs, msgs, removals, ousted, faults, crashes>>

\* A malformed or forbidden message is answered on the user's present socket.
Refuse(h) ==
  /\ At(h, "listen") /\ conns[h].alive /\ Breaks(User(h))
  /\ Leave(h)
  /\ UNCHANGED <<convs, faults, crashes>>

\* The participants are sorted: either side finds the same conversation.
Pair(h) == {User(h), conns[h].to}

\* mutant: the newest conversation is found
FindNewest(h) ==
  LET same == {c \in DOMAIN convs : convs[c] = Pair(h)} IN
  /\ At(h, "find")
  /\ \/ same = {} /\ Go(h, "create")
     \/ \E c \in same :
          /\ \A d \in same : c >= d
          /\ Become(h, [conns[h] EXCEPT !.at = "save", !.conv = c])
  /\ UNCHANGED <<table, convs, msgs, removals, ousted, faults, crashes>>

\* get_or_create_conversation: find_one, which scans in insertion order, and
\* insert_one an await later.
Find(h) ==
  LET same == {c \in DOMAIN convs : convs[c] = Pair(h)} IN
  /\ At(h, "find")
  /\ \/ same = {} /\ Go(h, "create")
     \/ \E c \in same :
          /\ \A d \in same : c <= d
          /\ Become(h, [conns[h] EXCEPT !.at = "save", !.conv = c])
  /\ UNCHANGED <<table, convs, msgs, removals, ousted, faults, crashes>>

\* mutant: the id is returned, and nothing inserted
CreateNothing(h) ==
  /\ At(h, "create")
  /\ Become(h, [conns[h] EXCEPT !.at = "save", !.conv = Len(convs) + 1])
  /\ UNCHANGED <<table, convs, msgs, removals, ousted, faults, crashes>>

Create(h) ==
  /\ At(h, "create")
  /\ convs' = Append(convs, Pair(h))
  /\ Become(h, [conns[h] EXCEPT !.at = "save", !.conv = Len(convs) + 1])
  /\ UNCHANGED <<table, msgs, removals, ousted, faults, crashes>>

Save(h) ==
  /\ At(h, "save") /\ Len(msgs) < MaxMessages
  /\ msgs' = Append(msgs, [conv |-> conns[h].conv, from |-> User(h),
                           to |-> conns[h].to, fate |-> "pending"])
  /\ Become(h, [conns[h] EXCEPT !.at = "deliver", !.msg = Len(msgs) + 1])
  /\ UNCHANGED <<table, convs, removals, ousted, faults, crashes>>

\* mutant: a receiver who is not connected is not notified
DeliverOnline(h) ==
  /\ At(h, "deliver")
  /\ \/ /\ conns[h].to \notin Online /\ Go(h, "echo")
        /\ UNCHANGED <<table, msgs, removals, ousted>>
     \/ /\ conns[h].to \in Online /\ ~Breaks(conns[h].to)
        /\ Told(h, "told") /\ Go(h, "echo")
        /\ UNCHANGED <<table, removals, ousted>>
     \/ Breaks(conns[h].to) /\ Leave(h)
  /\ UNCHANGED <<convs, faults, crashes>>

\* A receiver in the table is sent the message; when its socket is closed, the
\* sender's handler ends.  Others get a notification.
Deliver(h) ==
  /\ At(h, "deliver")
  /\ \/ /\ conns[h].to \notin Online /\ Go(h, "notify")
        /\ UNCHANGED <<table, msgs, removals, ousted>>
     \/ /\ conns[h].to \in Online /\ ~Breaks(conns[h].to)
        /\ Told(h, "told") /\ Go(h, "echo")
        /\ UNCHANGED <<table, removals, ousted>>
     \/ Breaks(conns[h].to) /\ Leave(h)
  /\ UNCHANGED <<convs, faults, crashes>>

\* create_in_app_notification: its own push may fail unnoticed.
Notify(h) ==
  /\ At(h, "notify")
  /\ Told(h, "told") /\ Go(h, "echo")
  /\ UNCHANGED <<table, convs, removals, ousted, faults, crashes>>

\* The sender's present socket gets a copy.
Echo(h) ==
  /\ At(h, "echo")
  /\ \/ Breaks(User(h)) /\ Leave(h)
     \/ /\ ~Breaks(User(h)) /\ Become(h, Idle(h, "listen"))
        /\ UNCHANGED <<table, msgs, removals, ousted>>
  /\ UNCHANGED <<convs, faults, crashes>>

\* A database refuses what a handler waits for.
Fault(h) ==
  /\ faults < MaxFaults
  /\ faults' = faults + 1
  /\ \/ /\ \/ At(h, "join") /\ Return(h, "dropped")
           \/ At(h, "leave") /\ Return(h, "over")
        /\ UNCHANGED <<table, msgs, removals, ousted>>
     \/ conns[h].at \in {"find", "create", "save", "notify"} /\ Leave(h)
  /\ UNCHANGED <<convs, crashes>>

\* The process dies and is started again: sockets, handlers and the table are gone,
\* and so is what a handler had stored and not told.
Restart ==
  /\ crashes < MaxCrashes
  /\ crashes' = crashes + 1
  /\ conns' = [h \in DOMAIN conns |-> [Idle(h, "dropped") EXCEPT !.alive = FALSE]]
  /\ table' = [u \in Users |-> 0]
  /\ msgs' = [m \in DOMAIN msgs |->
                IF msgs[m].fate = "pending" THEN [msgs[m] EXCEPT !.fate = "died"]
                ELSE msgs[m]]
  /\ UNCHANGED <<convs, removals, ousted, faults>>

Next ==
  \/ Restart
  \/ \E u \in Users : Open(u)
  \/ \E h \in DOMAIN conns :
       \/ AnnounceOnline(h) \/ Announced(h)
       \/ ClientGone(h) \/ Hear(h) \/ AnnounceOffline(h) \/ AnnouncedOffline(h)
       \/ Refuse(h) \/ \E u \in Users : Receive(h, u)
       \/ Find(h) \/ Create(h) \/ Save(h) \/ Deliver(h) \/ Notify(h) \/ Echo(h)
       \/ Fault(h)

Spec == Init /\ [][Next]_vars

-----------------------------------------------------------------------------
\* A connection whose handler listens is the one in the table, unless its user opened
\* a later one or the end of another connection of that same user took it out: a
\* message, a fault or an end of any other user's never does (disconnect).
ListenerReachable ==
  \A h \in DOMAIN conns :
    At(h, "listen") => \/ table[User(h)] = h
                       \/ \E g \in DOMAIN conns : User(g) = User(h) /\ g > h
                       \/ h \in ousted

\* No stored message is forgotten (routes/websocket.py): its receiver is told, or
\* a handler is about to tell it, or a connection of the receiver was found closed,
\* or the database of the notifications refused, or the process died first.
MessageTold ==
  \A m \in DOMAIN msgs :
    /\ msgs[m].fate = "pending" =>
         \E h \in DOMAIN conns : /\ conns[h].msg = m
                                 /\ conns[h].at \in {"deliver", "notify"}
    /\ msgs[m].fate = "lost" =>
         \/ faults > 0
         \/ \E g \in DOMAIN conns : User(g) = msgs[m].to /\ ~conns[g].alive

\* Two first messages may make two conversations of one pair of users
\* (get_or_create_conversation), but every later message of either goes to the
\* first: a second conversation holds at most the message it was made for.
OneThread ==
  \A c, d \in DOMAIN convs :
    c < d /\ convs[c] = convs[d]
      => Cardinality({m \in DOMAIN msgs : msgs[m].conv = d}) <= 1

-----------------------------------------------------------------------------
(* What the documentation says and the code does not keep *)

\* "manages active connections and presence updates": whoever listens on the newest
\* of a user's sockets is found in the table (websocket_service.disconnect).
NewestListens ==
  \A h \in DOMAIN conns :
    /\ At(h, "listen") /\ conns[h].alive
    /\ \A g \in DOMAIN conns : User(g) = User(h) => g <= h
    => table[User(h)] = h
=============================================================================
