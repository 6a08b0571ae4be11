------------------------------ MODULE ChatProofs ------------------------------
(***************************************************************************)
(* A listening user is in the table, no stored message is forgotten, and a *)
(* second conversation of a pair gets one message: for any number of       *)
(* users, connections, messages, database errors and deaths of the process.*)
(***************************************************************************)
EXTENDS Chat, SequenceTheorems, FiniteSetTheorems, TLAPS

-----------------------------------------------------------------------------
(* The invariant *)

Telling(h) == conns[h].at \in {"deliver", "notify"}

\* What a handler holds at each place; what it tells is addressed to its receiver.
HandlerSound(h) ==
  /\ conns[h].at \in {"find", "create", "save", "deliver", "notify"}
       => conns[h].to \in Users
  /\ At(h, "save") => conns[h].conv # 0
  /\ Telling(h) => conns[h].msg # 0

Typed ==
  /\ TypeOK
  /\ \A h \in DOMAIN conns : HandlerSound(h)
  /\ \A m \in DOMAIN msgs : msgs[m].conv \in DOMAIN convs
  /\ IsFiniteSet(Online)

\* The places between the entry into the table and its removal.
Registered(h) == conns[h].at \notin {"leave", "offline", "over", "dropped"}

\* No later connection of its user was opened, and none took it out of the table.
Newest(h) ==
  h \notin ousted /\ \A g \in DOMAIN conns : User(g) = User(h) => g <= h

\* The table holds a user's own connections, and the newest of every user that is
\* not leaving and was not taken out.
TableSound ==
  /\ \A u \in Users : table[u] # 0 => User(table[u]) = u
  /\ \A h \in DOMAIN conns : Registered(h) /\ Newest(h) => table[User(h)] = h

\* What a handler is about to tell is addressed to its receiver.
TellingSound ==
  \A h \in DOMAIN conns : Telling(h) => msgs[conns[h].msg].to = conns[h].to

\* A conversation that is not the first of its pair: find_one never returns it.
Second(d) == \E c \in DOMAIN convs : c < d /\ convs[c] = convs[d]

\* It has one message, or one handler that is going to save one.
SecondsSound ==
  \A d \in DOMAIN convs : Second(d) =>
    /\ \A m, n \in DOMAIN msgs : msgs[m].conv = d /\ msgs[n].conv = d => m = n
    /\ \A g, h \in DOMAIN conns :
         /\ At(g, "save") /\ conns[g].conv = d
         /\ At(h, "save") /\ conns[h].conv = d
         => g = h
    /\ \A h \in DOMAIN conns, m \in DOMAIN msgs :
         ~(At(h, "save") /\ conns[h].conv = d /\ msgs[m].conv = d)

ChatInv == Typed /\ TableSound /\ TellingSound /\ MessageTold /\ SecondsSound

-----------------------------------------------------------------------------
(* Rows of a table *)

LEMMA RowOfTable ==
  ASSUME NEW S, NEW rows \in Seq(S), NEW i \in DOMAIN rows
  PROVE  rows[i] \in S
BY LenProperties, ElementOfSeq

LEMMA InsertedRow ==
  ASSUME NEW S, NEW rows \in Seq(S), NEW e \in S
  PROVE  /\ Append(rows, e) \in Seq(S)
         /\ DOMAIN Append(rows, e) = DOMAIN rows \cup {Len(rows) + 1}
         /\ Len(rows) + 1 \notin DOMAIN rows /\ Len(rows) + 1 \in Nat \ {0}
         /\ \A j \in DOMAIN rows : j < Len(rows) + 1 /\ Append(rows, e)[j] = rows[j]
         /\ Append(rows, e)[Len(rows) + 1] = e
<1>1. Len(rows) \in Nat /\ DOMAIN rows = 1..Len(rows)
  BY LenProperties
<1>2. /\ Append(rows, e) \in Seq(S)
      /\ Len(Append(rows, e)) = Len(rows) + 1
      /\ \A j \in 1..Len(rows) : Append(rows, e)[j] = rows[j]
      /\ Append(rows, e)[Len(rows) + 1] = e
  BY AppendProperties
<1>3. DOMAIN Append(rows, e) = 1..(Len(rows) + 1)
  BY <1>2, LenProperties
<1>. QED
  BY <1>1, <1>2, <1>3

LEMMA UpdatedRow ==
  ASSUME NEW S, NEW rows \in Seq(S), NEW i \in DOMAIN rows, NEW e \in S
  PROVE  /\ [rows EXCEPT ![i] = e] \in Seq(S)
         /\ DOMAIN [rows EXCEPT ![i] = e] = DOMAIN rows
         /\ \A j \in DOMAIN rows :
              [rows EXCEPT ![i] = e][j] = IF j = i THEN e ELSE rows[j]
BY LenProperties, ExceptSeq

\* A table rewritten row by row.
LEMMA RewrittenRows ==
  ASSUME NEW S, NEW rows \in Seq(S), NEW f,
         f = [j \in DOMAIN rows |-> f[j]], \A j \in DOMAIN rows : f[j] \in S
  PROVE  f \in Seq(S)
<1>1. Len(rows) \in Nat /\ DOMAIN rows = 1..Len(rows)
  BY LenProperties
<1>2. f \in [1..Len(rows) -> S]
  BY <1>1
<1>. QED
  BY <1>1, <1>2, SeqDef

-----------------------------------------------------------------------------
(* What a step does to the handlers *)

LEMMA Facts ==
  ASSUME Typed
  PROVE  /\ conns \in Seq(Conn) /\ convs \in Seq(SUBSET Users) /\ msgs \in Seq(Message)
         /\ table \in [Users -> {0} \cup DOMAIN conns]
         /\ removals \in Nat /\ ousted \subseteq DOMAIN conns
         /\ faults \in Nat /\ crashes \in Nat
         /\ IsFiniteSet(Online)
         /\ \A h \in DOMAIN conns :
              /\ h \in Nat \ {0} /\ conns[h] \in Conn /\ HandlerSound(h)
              /\ conns[h].conv \in {0} \cup DOMAIN convs
              /\ conns[h].msg \in {0} \cup DOMAIN msgs
         /\ \A m \in DOMAIN msgs : /\ m \in Nat \ {0} /\ msgs[m] \in Message
                                   /\ msgs[m].conv \in DOMAIN convs
         /\ \A c \in DOMAIN convs : c \in Nat \ {0} /\ convs[c] \in SUBSET Users
<1>1. conns \in Seq(Conn) /\ convs \in Seq(SUBSET Users) /\ msgs \in Seq(Message)
  BY DEF Typed, TypeOK
<1>2. /\ \A h \in DOMAIN conns : h \in Nat \ {0}
      /\ \A h \in DOMAIN msgs : h \in Nat \ {0}
      /\ \A h \in DOMAIN convs : h \in Nat \ {0}
  BY <1>1, LenProperties
<1>3. /\ \A h \in DOMAIN conns : conns[h] \in Conn
      /\ \A h \in DOMAIN msgs : msgs[h] \in Message
      /\ \A h \in DOMAIN convs : convs[h] \in SUBSET Users
  BY <1>1, RowOfTable
<1>. QED
  BY <1>1, <1>2, <1>3 DEF Typed, TypeOK

\* Handler h alone has changed; it stays the user's, and a closed socket closed.
Only(h) ==
  /\ conns' \in Seq(Conn) /\ DOMAIN conns' = DOMAIN conns
  /\ \A g \in DOMAIN conns : g # h => conns'[g] = conns[g]
  /\ conns'[h].user = conns[h].user
  /\ ~conns[h].alive => ~conns'[h].alive

LEMMA BecomeFacts ==
  ASSUME Typed, NEW h \in DOMAIN conns, NEW x \in Conn, Become(h, x),
         x.user = conns[h].user, ~conns[h].alive => ~x.alive
  PROVE  Only(h) /\ conns'[h] = x
BY Facts, UpdatedRow DEF Become, Only

LEMMA GoFacts ==
  ASSUME Typed, NEW h \in DOMAIN conns, NEW place \in Places, Go(h, place)
  PROVE  /\ Only(h)
         /\ conns'[h].at = place /\ conns'[h].to = conns[h].to
         /\ conns'[h].conv = conns[h].conv /\ conns'[h].msg = conns[h].msg
<1>1. PICK y \in Conn : y = conns[h]
  BY Facts
<1>. DEFINE x == [y EXCEPT !.at = place]
<1>2. /\ x \in Conn /\ x.user = y.user /\ x.alive = y.alive
      /\ x.at = place /\ x.to = y.to /\ x.conv = y.conv /\ x.msg = y.msg
  BY DEF Conn
<1>3. Become(h, x)
  BY <1>1 DEF Go
<1>. HIDE DEF x
<1>. QED
  BY <1>1, <1>2, <1>3, BecomeFacts

LEMMA IdleFacts ==
  ASSUME Typed, NEW h \in DOMAIN conns, NEW place \in Places
  PROVE  /\ Idle(h, place) \in Conn
         /\ Idle(h, place).user = conns[h].user /\ Idle(h, place).alive = conns[h].alive
         /\ Idle(h, place).at = place
         /\ Idle(h, place).conv = 0 /\ Idle(h, place).msg = 0
<1>1. PICK y \in Conn : y = conns[h]
  BY Facts
<1>. DEFINE x == [y EXCEPT !.at = place, !.to = None, !.conv = 0, !.msg = 0, !.size = 0,
                            !.gone = 0]
<1>2. /\ x \in Conn /\ x.user = y.user /\ x.alive = y.alive
      /\ x.at = place /\ x.conv = 0 /\ x.msg = 0
  BY DEF Conn
<1>3. Idle(h, place) = x
  BY <1>1 DEF Idle
<1>. HIDE DEF x
<1>. QED
  BY <1>1, <1>2, <1>3

LEMMA BecomeIdle ==
  ASSUME Typed, NEW h \in DOMAIN conns, NEW place \in Places, Become(h, Idle(h, place))
  PROVE  /\ Only(h)
         /\ conns'[h].at = place /\ conns'[h].conv = 0 /\ conns'[h].msg = 0
<1>. DEFINE x == Idle(h, place)
<1>1. /\ x \in Conn /\ x.user = conns[h].user /\ x.alive = conns[h].alive
      /\ x.at = place /\ x.conv = 0 /\ x.msg = 0 /\ Become(h, x)
  BY IdleFacts
<1>. HIDE DEF x
<1>. QED
  BY <1>1, BecomeFacts

LEMMA ReturnFacts ==
  ASSUME Typed, NEW h \in DOMAIN conns, NEW place \in Places, Return(h, place)
  PROVE  /\ Only(h)
         /\ conns'[h].at = place /\ conns'[h].conv = 0 /\ conns'[h].msg = 0
<1>1. PICK y \in Conn : y = Idle(h, place)
  BY IdleFacts
<1>. DEFINE x == [y EXCEPT !.alive = FALSE]
<1>2. /\ x \in Conn /\ x.user = y.user /\ x.alive = FALSE
      /\ x.at = y.at /\ x.conv = y.conv /\ x.msg = y.msg
  BY DEF Conn
<1>3. Become(h, x)
  BY <1>1 DEF Return
<1>. HIDE DEF x
<1>. QED
  BY <1>1, <1>2, <1>3, BecomeFacts, IdleFacts

LEMMA OpenFacts ==
  ASSUME Typed, NEW u \in Users, Open(u)
  PROVE  LET n == Len(conns) + 1 IN
         /\ conns' \in Seq(Conn) /\ DOMAIN conns' = DOMAIN conns \cup {n}
         /\ n \notin DOMAIN conns /\ n \in Nat \ {0}
         /\ \A g \in DOMAIN conns : g < n /\ conns'[g] = conns[g]
         /\ conns'[n].user = u /\ conns'[n].at = "join"
         /\ conns'[n].conv = 0 /\ conns'[n].msg = 0
<1>. DEFINE x == [user |-> u, at |-> "join", alive |-> TRUE,
                  to |-> None, conv |-> 0, msg |-> 0, size |-> 0, gone |-> 0]
<1>1. /\ x \in Conn /\ x.user = u /\ x.at = "join" /\ x.conv = 0 /\ x.msg = 0
  BY DEF Conn, Places
<1>2. conns' = Append(conns, x)
  BY DEF Open
<1>. HIDE DEF x
<1>. QED
  BY <1>1, <1>2, Facts, InsertedRow

\* Only what the handler is doing has changed.
Same(h) ==
  /\ conns'[h].to = conns[h].to /\ conns'[h].conv = conns[h].conv
  /\ conns'[h].msg = conns[h].msg

LEMMA AnnounceOnlineFacts ==
  ASSUME Typed, NEW h \in DOMAIN conns, AnnounceOnline(h)
  PROVE  Only(h) /\ Same(h) /\ conns'[h].at \in {"listen", "online"}
<1>1. CASE Go(h, "listen")
  BY <1>1, GoFacts DEF Places, Same
<1>2. CASE ~Go(h, "listen")
  <2>1. PICK y \in Conn, n \in Nat, k \in Nat :
          y = conns[h] /\ n = Cardinality(Online) /\ k = removals
    BY Facts, FS_CardinalityType
  <2>. DEFINE x == [y EXCEPT !.at = "online", !.size = n, !.gone = k]
  <2>2. /\ x \in Conn /\ x.user = y.user /\ x.alive = y.alive
        /\ x.at = "online" /\ x.to = y.to /\ x.conv = y.conv /\ x.msg = y.msg
    BY DEF Conn, Places
  <2>3. Become(h, x)
    BY <1>2, <2>1 DEF AnnounceOnline
  <2>. HIDE DEF x
  <2>. QED
    BY <2>1, <2>2, <2>3, BecomeFacts DEF Same
<1>. QED
  BY <1>1, <1>2

LEMMA ClientGoneFacts ==
  ASSUME Typed, NEW h \in DOMAIN conns, ClientGone(h)
  PROVE  Only(h) /\ Same(h) /\ conns'[h].at = conns[h].at
<1>1. PICK y \in Conn : y = conns[h]
  BY Facts
<1>. DEFINE x == [y EXCEPT !.alive = FALSE]
<1>2. /\ x \in Conn /\ x.user = y.user /\ x.alive = FALSE
      /\ x.at = y.at /\ x.to = y.to /\ x.conv = y.conv /\ x.msg = y.msg
  BY DEF Conn
<1>3. Become(h, x)
  BY <1>1 DEF ClientGone, Become
<1>. HIDE DEF x
<1>. QED
  BY <1>1, <1>2, <1>3, BecomeFacts DEF Same

LEMMA ReceiveFacts ==
  ASSUME Typed, NEW h \in DOMAIN conns, NEW u \in Users, Receive(h, u)
  PROVE  Only(h) /\ conns'[h].at = "find" /\ conns'[h].to = u
         /\ conns'[h].conv = conns[h].conv /\ conns'[h].msg = conns[h].msg
<1>1. PICK y \in Conn : y = conns[h]
  BY Facts
<1>. DEFINE x == [y EXCEPT !.at = "find", !.to = u]
<1>2. /\ x \in Conn /\ x.user = y.user /\ x.alive = y.alive
      /\ x.at = "find" /\ x.to = u /\ x.conv = y.conv /\ x.msg = y.msg
  BY DEF Conn, Places
<1>3. Become(h, x)
  BY <1>1 DEF Receive
<1>. HIDE DEF x
<1>. QED
  BY <1>1, <1>2, <1>3, BecomeFacts

\* A conversation is taken up.
LEMMA ConvTaken ==
  ASSUME Typed, NEW h \in DOMAIN conns, NEW c \in Nat,
         Become(h, [conns[h] EXCEPT !.at = "save", !.conv = c])
  PROVE  Only(h) /\ conns'[h].at = "save" /\ conns'[h].conv = c
         /\ conns'[h].to = conns[h].to /\ conns'[h].msg = conns[h].msg
<1>1. PICK y \in Conn : y = conns[h]
  BY Facts
<1>. DEFINE x == [y EXCEPT !.at = "save", !.conv = c]
<1>2. /\ x \in Conn /\ x.user = y.user /\ x.alive = y.alive
      /\ x.at = "save" /\ x.to = y.to /\ x.conv = c /\ x.msg = y.msg
  BY DEF Conn, Places
<1>3. Become(h, x)
  BY <1>1
<1>. HIDE DEF x
<1>. QED
  BY <1>1, <1>2, <1>3, BecomeFacts

\* What is found is the first of its pair.
LEMMA FindFacts ==
  ASSUME Typed, NEW h \in DOMAIN conns, Find(h)
  PROVE  /\ Only(h)
         /\ conns'[h].to = conns[h].to /\ conns'[h].msg = conns[h].msg
         /\ \/ conns'[h].at = "create" /\ conns'[h].conv = conns[h].conv
            \/ /\ conns'[h].at = "save" /\ conns'[h].conv \in DOMAIN convs
               /\ ~Second(conns'[h].conv)
<1>1. CASE Go(h, "create")
  BY <1>1, GoFacts DEF Places
<1>2. CASE ~Go(h, "create")
  <2>1. PICK c \in DOMAIN convs :
          /\ convs[c] = Pair(h)
          /\ \A d \in DOMAIN convs : convs[d] = Pair(h) => c <= d
          /\ Become(h, [conns[h] EXCEPT !.at = "save", !.conv = c])
    BY <1>2 DEF Find
  <2>2. c \in Nat /\ \A d \in DOMAIN convs : d \in Nat
    BY Facts
  <2>3. ~Second(c)
    BY <2>1, <2>2 DEF Second
  <2>. QED
    BY <2>1, <2>2, <2>3, ConvTaken
<1>. QED
  BY <1>1, <1>2

LEMMA CreateFacts ==
  ASSUME Typed, NEW h \in DOMAIN conns, Create(h)
  PROVE  LET n == Len(convs) + 1 IN
         /\ Only(h)
         /\ conns'[h].at = "save" /\ conns'[h].conv = n
         /\ conns'[h].to = conns[h].to /\ conns'[h].msg = conns[h].msg
         /\ convs' \in Seq(SUBSET Users) /\ DOMAIN convs' = DOMAIN convs \cup {n}
         /\ n \notin DOMAIN convs /\ n \in Nat \ {0}
         /\ \A c \in DOMAIN convs : c < n /\ convs'[c] = convs[c]
<1>1. convs \in Seq(SUBSET Users) /\ Len(convs) + 1 \in Nat
  BY Facts, LenProperties
<1>2. conns[h] \in Conn /\ conns[h].to \in Users
  BY Facts DEF Create, HandlerSound, At
<1>3. Pair(h) \in SUBSET Users
  BY <1>2 DEF Pair, User, Conn
<1>4. convs' = Append(convs, Pair(h))
  BY DEF Create
<1>5. /\ convs' \in Seq(SUBSET Users) /\ DOMAIN convs' = DOMAIN convs \cup {Len(convs) + 1}
      /\ Len(convs) + 1 \notin DOMAIN convs /\ Len(convs) + 1 \in Nat \ {0}
      /\ \A c \in DOMAIN convs : c < Len(convs) + 1 /\ convs'[c] = convs[c]
  BY <1>1, <1>3, <1>4, InsertedRow
<1>. QED
  BY <1>1, <1>5, ConvTaken DEF Create

LEMMA SaveFacts ==
  ASSUME Typed, NEW h \in DOMAIN conns, Save(h)
  PROVE  LET n == Len(msgs) + 1 IN
         /\ Only(h)
         /\ conns'[h].at = "deliver" /\ conns'[h].msg = n
         /\ conns'[h].to = conns[h].to /\ conns'[h].conv = conns[h].conv
         /\ msgs' \in Seq(Message) /\ DOMAIN msgs' = DOMAIN msgs \cup {n}
         /\ n \notin DOMAIN msgs /\ n \in Nat \ {0}
         /\ \A m \in DOMAIN msgs : msgs'[m] = msgs[m]
         /\ msgs'[n].conv = conns[h].conv /\ msgs'[n].to = conns[h].to
         /\ msgs'[n].fate = "pending"
<1>1. PICK y \in Conn, n \in Nat : y = conns[h] /\ n = Len(msgs) + 1
  BY Facts, LenProperties
<1>. DEFINE x == [y EXCEPT !.at = "deliver", !.msg = n]
            m == [conv |-> y.conv, from |-> y.user, to |-> y.to, fate |-> "pending"]
<1>2. /\ x \in Conn /\ x.user = y.user /\ x.alive = y.alive
      /\ x.at = "deliver" /\ x.to = y.to /\ x.conv = y.conv /\ x.msg = n
  BY DEF Conn, Places
<1>3. Become(h, x)
  BY <1>1 DEF Save
<1>4. conns[h].to \in Users
  BY Facts DEF Save, HandlerSound, At
<1>5. m \in Message /\ m.conv = y.conv /\ m.to = y.to /\ m.fate = "pending"
  BY <1>1, <1>4 DEF Message, Conn
<1>6. msgs' = Append(msgs, m)
  BY <1>1 DEF Save, User
<1>. HIDE DEF x, m
<1>7. Only(h) /\ conns'[h] = x
  BY <1>1, <1>2, <1>3, BecomeFacts
<1>8. /\ msgs' \in Seq(Message) /\ DOMAIN msgs' = DOMAIN msgs \cup {Len(msgs) + 1}
      /\ Len(msgs) + 1 \notin DOMAIN msgs /\ Len(msgs) + 1 \in Nat \ {0}
      /\ \A i \in DOMAIN msgs : msgs'[i] = msgs[i]
      /\ msgs'[Len(msgs) + 1] = m
  BY <1>5, <1>6, Facts, InsertedRow
<1>. QED
  BY <1>1, <1>2, <1>5, <1>7, <1>8

\* The messages are the same, but for the fate of one.
LEMMA ToldFacts ==
  ASSUME Typed, NEW h \in DOMAIN conns, Telling(h), NEW how \in {"told", "lost"}, Told(h, how)
  PROVE  /\ conns[h].msg \in DOMAIN msgs
         /\ msgs' \in Seq(Message) /\ DOMAIN msgs' = DOMAIN msgs
         /\ \A m \in DOMAIN msgs :
              /\ msgs'[m].conv = msgs[m].conv /\ msgs'[m].to = msgs[m].to
              /\ msgs'[m].fate = IF m = conns[h].msg THEN how ELSE msgs[m].fate
<1>1. conns[h].msg \in DOMAIN msgs
  BY Facts DEF HandlerSound
<1>2. PICK y \in Message : y = msgs[conns[h].msg]
  BY <1>1, Facts
<1>. DEFINE x == [y EXCEPT !.fate = how]
<1>3. x \in Message /\ x.conv = y.conv /\ x.to = y.to /\ x.fate = how
  BY DEF Message
<1>4. msgs' = [msgs EXCEPT ![conns[h].msg] = x]
  BY <1>2 DEF Told
<1>. HIDE DEF x
<1>5. /\ msgs' \in Seq(Message) /\ DOMAIN msgs' = DOMAIN msgs
      /\ \A m \in DOMAIN msgs : msgs'[m] = IF m = conns[h].msg THEN x ELSE msgs[m]
  BY <1>1, <1>3, <1>4, Facts, UpdatedRow
<1>. QED
  BY <1>1, <1>2, <1>3, <1>5

\* The user is out of the table; what was being told is lost, and nothing else is.
LEMMA LeaveFacts ==
  ASSUME Typed, NEW h \in DOMAIN conns, Leave(h)
  PROVE  /\ Only(h)
         /\ conns'[h].at = "leave" /\ conns'[h].conv = 0 /\ conns'[h].msg = 0
         /\ table' \in [Users -> {0} \cup DOMAIN conns]
         /\ \A u \in Users : table'[u] = IF u = conns[h].user THEN 0 ELSE table[u]
         /\ removals' \in Nat /\ ousted' \subseteq DOMAIN conns
         /\ ousted' = ousted \cup ({table[conns[h].user]} \ {0, h})
         /\ msgs' \in Seq(Message) /\ DOMAIN msgs' = DOMAIN msgs
         /\ \A m \in DOMAIN msgs :
              /\ msgs'[m].conv = msgs[m].conv /\ msgs'[m].to = msgs[m].to
              /\ msgs'[m].fate = IF Telling(h) /\ m = conns[h].msg THEN "lost"
                                 ELSE msgs[m].fate
<1>1. Only(h) /\ conns'[h].at = "leave" /\ conns'[h].conv = 0 /\ conns'[h].msg = 0
  BY BecomeIdle DEF Leave, Places
<1>2. /\ table' \in [Users -> {0} \cup DOMAIN conns]
      /\ \A u \in Users : table'[u] = IF u = conns[h].user THEN 0 ELSE table[u]
  BY Facts DEF Leave, Forget, User
<1>3. removals' \in Nat
  BY Facts DEF Leave
<1>4. /\ ousted' = ousted \cup ({table[conns[h].user]} \ {0, h})
      /\ ousted' \subseteq DOMAIN conns
  BY Facts DEF Leave, User, Conn
<1>5. CASE Telling(h)
  BY <1>1, <1>2, <1>3, <1>4, <1>5, ToldFacts DEF Leave, Telling
<1>6. CASE ~Telling(h)
  BY <1>1, <1>2, <1>3, <1>4, <1>6, Facts DEF Leave, Telling
<1>. QED
  BY <1>5, <1>6

\* Every handler is gone, and the table; what was being told will not be.
LEMMA RestartFacts ==
  ASSUME Typed, Restart
  PROVE  /\ conns' \in Seq(Conn) /\ DOMAIN conns' = DOMAIN conns
         /\ \A h \in DOMAIN conns :
              /\ conns'[h].user = conns[h].user /\ conns'[h].alive = FALSE
              /\ conns'[h].at = "dropped" /\ conns'[h].conv = 0 /\ conns'[h].msg = 0
         /\ msgs' \in Seq(Message) /\ DOMAIN msgs' = DOMAIN msgs
         /\ \A m \in DOMAIN msgs :
              /\ msgs'[m].conv = msgs[m].conv /\ msgs'[m].to = msgs[m].to
              /\ msgs'[m].fate \in {msgs[m].fate, "died"} \ {"pending"}
<1>1. conns' = [h \in DOMAIN conns |-> [Idle(h, "dropped") EXCEPT !.alive = FALSE]]
  BY DEF Restart
<1>2. ASSUME NEW h \in DOMAIN conns
      PROVE  /\ conns'[h] \in Conn
             /\ conns'[h].user = conns[h].user /\ conns'[h].alive = FALSE
             /\ conns'[h].at = "dropped" /\ conns'[h].conv = 0 /\ conns'[h].msg = 0
  <2>1. PICK y \in Conn : y = Idle(h, "dropped")
    BY IdleFacts DEF Places
  <2>2. /\ y.user = conns[h].user /\ y.at = "dropped" /\ y.conv = 0 /\ y.msg = 0
    BY <2>1, IdleFacts DEF Places
  <2>3. conns'[h] = [y EXCEPT !.alive = FALSE]
    BY <1>1, <2>1
  <2>. QED
    BY <2>2, <2>3 DEF Conn
<1>3. conns' = [h \in DOMAIN conns |-> conns'[h]] /\ DOMAIN conns' = DOMAIN conns
  BY <1>1
<1>4. conns' \in Seq(Conn)
  BY <1>2, <1>3, Facts, RewrittenRows
<1>5. ASSUME NEW m \in DOMAIN msgs
      PROVE  /\ msgs'[m] \in Message
             /\ msgs'[m].conv = msgs[m].conv /\ msgs'[m].to = msgs[m].to
             /\ msgs'[m].fate \in {msgs[m].fate, "died"} \ {"pending"}
  <2>1. PICK y \in Message : y = msgs[m]
    BY Facts
  <2>2. msgs'[m] = IF y.fate = "pending" THEN [y EXCEPT !.fate = "died"] ELSE y
    BY <2>1 DEF Restart
  <2>. QED
    BY <2>1, <2>2 DEF Message
<1>6. msgs' = [m \in DOMAIN msgs |-> msgs'[m]] /\ DOMAIN msgs' = DOMAIN msgs
  BY DEF Restart
<1>7. msgs' \in Seq(Message)
  BY <1>5, <1>6, Facts, RewrittenRows
<1>. QED
  BY <1>2, <1>3, <1>4, <1>5, <1>6, <1>7

-----------------------------------------------------------------------------
(* Types *)

\* What is counted beside the handlers and the tables.
CountsTyped ==
  /\ removals' \in Nat /\ ousted' \subseteq DOMAIN conns
  /\ faults' \in Nat /\ crashes' \in Nat

Uncounted == UNCHANGED <<removals, ousted, faults, crashes>>

LEMMA NothingCounted ==
  ASSUME Typed, Uncounted
  PROVE  CountsTyped
BY Facts DEF Uncounted, CountsTyped

LEMMA TypedStep ==
  ASSUME Typed, NEW h \in DOMAIN conns, Only(h), HandlerSound(h)',
         convs' \in Seq(SUBSET Users), DOMAIN convs \subseteq DOMAIN convs',
         msgs' \in Seq(Message), DOMAIN msgs \subseteq DOMAIN msgs',
         conns'[h].conv \in {0} \cup DOMAIN convs', conns'[h].msg \in {0} \cup DOMAIN msgs',
         \A m \in DOMAIN msgs' : msgs'[m].conv \in DOMAIN convs',
         table' \in [Users -> {0} \cup DOMAIN conns],
         \A u \in Users : table'[u] \in {0, table[u]},
         CountsTyped
  PROVE  Typed'
<1>1. \A g \in DOMAIN conns' : /\ HandlerSound(g)'
                               /\ conns'[g].conv \in {0} \cup DOMAIN convs'
                               /\ conns'[g].msg \in {0} \cup DOMAIN msgs'
  BY Facts DEF Only, HandlerSound, Telling, At
<1>2. IsFiniteSet(Online')
  <2>1. Online' \in SUBSET Online
    BY DEF Online
  <2>. QED
    BY <2>1, Facts, FS_Subset
<1>3. TypeOK'
  BY <1>1 DEF TypeOK, Only, CountsTyped
<1>. QED
  BY <1>1, <1>2, <1>3 DEF Typed

\* The tables are as they were.
LEMMA TypedHandler ==
  ASSUME Typed, NEW h \in DOMAIN conns, Only(h), HandlerSound(h)',
         conns'[h].conv \in {0} \cup DOMAIN convs, conns'[h].msg \in {0} \cup DOMAIN msgs,
         UNCHANGED <<table, convs, msgs>>, CountsTyped
  PROVE  Typed'
BY Facts, TypedStep

LEMMA TypedReturn ==
  ASSUME Typed, NEW h \in DOMAIN conns, NEW place \in {"over", "dropped"}, Return(h, place),
         UNCHANGED <<table, convs, msgs>>, CountsTyped
  PROVE  Typed'
<1>1. /\ Only(h)
      /\ conns'[h].at = place /\ conns'[h].conv = 0 /\ conns'[h].msg = 0
  BY ReturnFacts DEF Places
<1>2. HandlerSound(h)'
  BY <1>1 DEF HandlerSound, Telling, At
<1>. QED
  BY <1>1, <1>2, TypedHandler

LEMMA TypedListen ==
  ASSUME Typed, NEW h \in DOMAIN conns, Become(h, Idle(h, "listen")),
         UNCHANGED <<table, convs, msgs>>, CountsTyped
  PROVE  Typed'
<1>1. Only(h) /\ conns'[h].at = "listen" /\ conns'[h].conv = 0 /\ conns'[h].msg = 0
  BY BecomeIdle DEF Places
<1>2. HandlerSound(h)'
  BY <1>1 DEF HandlerSound, Telling, At
<1>. QED
  BY <1>1, <1>2, TypedHandler

LEMMA TypedLeave ==
  ASSUME Typed, NEW h \in DOMAIN conns, Leave(h), UNCHANGED <<convs, crashes>>,
         faults' \in Nat
  PROVE  Typed'
<1>1. HandlerSound(h)'
  BY LeaveFacts DEF HandlerSound, Telling, At
<1>2. \A m \in DOMAIN msgs' : msgs'[m].conv \in DOMAIN convs'
  BY LeaveFacts, Facts
<1>3. CountsTyped
  BY LeaveFacts, Facts DEF CountsTyped
<1>. QED
  BY <1>1, <1>2, <1>3, LeaveFacts, Facts, TypedStep

\* A message is told, and its handler goes on to the echo.
LEMMA TypedTold ==
  ASSUME Typed, NEW h \in DOMAIN conns, Telling(h), Told(h, "told"), Go(h, "echo"),
         UNCHANGED <<table, convs>>, Uncounted
  PROVE  Typed'
<1>1. /\ Only(h) /\ conns'[h].at = "echo"
      /\ conns'[h].conv = conns[h].conv /\ conns'[h].msg = conns[h].msg
  BY GoFacts DEF Places
<1>2. HandlerSound(h)'
  BY <1>1 DEF HandlerSound, Telling, At
<1>3. \A m \in DOMAIN msgs' : msgs'[m].conv \in DOMAIN convs'
  BY ToldFacts, Facts
<1>. QED
  BY <1>1, <1>2, <1>3, NothingCounted, ToldFacts, Facts, TypedStep

LEMMA TypedOpen ==
  ASSUME Typed, NEW u \in Users, Open(u)
  PROVE  Typed'
<1>. DEFINE n == Len(conns) + 1
<1>1. /\ conns' \in Seq(Conn) /\ DOMAIN conns' = DOMAIN conns \cup {n}
      /\ \A g \in DOMAIN conns : conns'[g] = conns[g]
      /\ conns'[n].user = u /\ conns'[n].at = "join"
      /\ conns'[n].conv = 0 /\ conns'[n].msg = 0
      /\ UNCHANGED <<convs, msgs>> /\ Uncounted
      /\ table' = [table EXCEPT ![u] = n]
  BY OpenFacts DEF Open, Uncounted
<1>. HIDE DEF n
<1>2. \A g \in DOMAIN conns' : /\ HandlerSound(g)'
                               /\ conns'[g].conv \in {0} \cup DOMAIN convs'
                               /\ conns'[g].msg \in {0} \cup DOMAIN msgs'
  BY <1>1, Facts DEF HandlerSound, Telling, At
<1>3. table' \in [Users -> {0} \cup DOMAIN conns']
  BY <1>1, Facts
<1>4. IsFiniteSet(Online')
  <2>1. Online' \in SUBSET (Online \cup {u})
    BY <1>1, Facts DEF Online
  <2>2. IsFiniteSet(Online \cup {u})
    BY Facts, FS_AddElement
  <2>. QED
    BY <2>1, <2>2, FS_Subset
<1>. QED
  BY <1>1, <1>2, <1>3, <1>4, Facts DEF Typed, TypeOK, Uncounted

LEMMA TypedRestart ==
  ASSUME Typed, Restart
  PROVE  Typed'
<1>1. \A h \in DOMAIN conns' : /\ HandlerSound(h)'
                               /\ conns'[h].conv = 0 /\ conns'[h].msg = 0
  BY RestartFacts DEF HandlerSound, Telling, At
<1>2. Online' = {}
  BY DEF Restart, Online
<1>3. /\ conns' \in Seq(Conn) /\ DOMAIN conns' = DOMAIN conns
      /\ msgs' \in Seq(Message) /\ UNCHANGED <<convs, removals, ousted, faults>>
      /\ crashes' = crashes + 1 /\ table' = [u \in Users |-> 0]
  BY RestartFacts DEF Restart
<1>4. TypeOK'
  BY <1>1, <1>3, Facts DEF TypeOK
<1>. QED
  BY <1>1, <1>2, <1>3, <1>4, RestartFacts, Facts, FS_EmptySet DEF Typed

LEMMA TypedNext ==
  ASSUME Typed, Next
  PROVE  Typed'
<1>0. Uncounted => CountsTyped
  BY NothingCounted
<1>1. ASSUME NEW h \in DOMAIN conns, AnnounceOnline(h) PROVE Typed'
  <2>1. /\ Only(h) /\ Same(h) /\ conns'[h].at \in {"listen", "online"}
        /\ UNCHANGED <<table, convs, msgs>> /\ Uncounted
    BY <1>1, AnnounceOnlineFacts DEF AnnounceOnline, Uncounted
  <2>2. HandlerSound(h)'
    BY <2>1 DEF HandlerSound, Telling, At
  <2>. QED
    BY <1>0, <2>1, <2>2, Facts, TypedHandler DEF Same
<1>2. ASSUME NEW h \in DOMAIN conns, Announced(h) PROVE Typed'
  BY <1>0, <1>2, TypedListen, TypedReturn DEF Announced, Uncounted
<1>3. ASSUME NEW h \in DOMAIN conns, ClientGone(h) PROVE Typed'
  <2>1. /\ Only(h) /\ Same(h) /\ conns'[h].at = conns[h].at
        /\ UNCHANGED <<table, convs, msgs>> /\ Uncounted
    BY <1>3, ClientGoneFacts DEF ClientGone, Uncounted
  <2>2. HandlerSound(h)'
    BY <2>1, Facts DEF HandlerSound, Telling, At, Same
  <2>. QED
    BY <1>0, <2>1, <2>2, Facts, TypedHandler DEF Same
<1>4. ASSUME NEW h \in DOMAIN conns, Hear(h) \/ Refuse(h) PROVE Typed'
  BY <1>4, Facts, TypedLeave DEF Hear, Refuse
<1>5. ASSUME NEW h \in DOMAIN conns, AnnounceOffline(h) PROVE Typed'
  <2>1. CASE Return(h, "over")
    BY <1>0, <1>5, <2>1, TypedReturn DEF AnnounceOffline, Uncounted
  <2>2. CASE Go(h, "offline")
    <3>1. /\ Only(h) /\ Same(h) /\ conns'[h].at = "offline"
          /\ UNCHANGED <<table, convs, msgs>> /\ Uncounted
      BY <1>5, <2>2, GoFacts DEF AnnounceOffline, Places, Same, Uncounted
    <3>2. HandlerSound(h)'
      BY <3>1 DEF HandlerSound, Telling, At
    <3>. QED
      BY <1>0, <3>1, <3>2, Facts, TypedHandler DEF Same
  <2>. QED
    BY <1>5, <2>1, <2>2 DEF AnnounceOffline
<1>6. ASSUME NEW h \in DOMAIN conns, AnnouncedOffline(h) PROVE Typed'
  BY <1>0, <1>6, TypedReturn DEF AnnouncedOffline, Uncounted
<1>7. ASSUME NEW h \in DOMAIN conns, NEW u \in Users, Receive(h, u) PROVE Typed'
  <2>1. HandlerSound(h)'
    BY <1>7, ReceiveFacts DEF HandlerSound, Telling, At
  <2>. QED
    BY <1>0, <1>7, <2>1, ReceiveFacts, Facts, TypedHandler DEF Receive, Uncounted
<1>8. ASSUME NEW h \in DOMAIN conns, Find(h) PROVE Typed'
  <2>1. conns[h].to \in Users /\ \A c \in DOMAIN convs : c # 0
    BY <1>8, Facts DEF Find, HandlerSound, At
  <2>2. HandlerSound(h)'
    BY <1>8, <2>1, FindFacts DEF HandlerSound, Telling, At
  <2>. QED
    BY <1>0, <1>8, <2>2, FindFacts, Facts, TypedHandler DEF Find, Uncounted
<1>9. ASSUME NEW h \in DOMAIN conns, Create(h) PROVE Typed'
  <2>1. conns[h].to \in Users /\ UNCHANGED <<table, msgs>> /\ Uncounted
    BY <1>9, Facts DEF Create, HandlerSound, At, Uncounted
  <2>2. HandlerSound(h)'
    BY <1>9, <2>1, CreateFacts DEF HandlerSound, Telling, At
  <2>3. \A m \in DOMAIN msgs' : msgs'[m].conv \in DOMAIN convs'
    BY <1>9, <2>1, CreateFacts, Facts
  <2>. QED
    BY <1>0, <1>9, <2>1, <2>2, <2>3, CreateFacts, Facts, TypedStep
<1>10. ASSUME NEW h \in DOMAIN conns, Save(h) PROVE Typed'
  <2>1. /\ conns[h].to \in Users /\ conns[h].conv \in DOMAIN convs
        /\ UNCHANGED <<table, convs>> /\ Uncounted
    BY <1>10, Facts DEF Save, HandlerSound, At, Uncounted
  <2>2. HandlerSound(h)'
    BY <1>10, <2>1, SaveFacts DEF HandlerSound, Telling, At
  <2>3. \A m \in DOMAIN msgs' : msgs'[m].conv \in DOMAIN convs'
    <3>1. \A m \in DOMAIN msgs : msgs'[m] = msgs[m] /\ msgs[m].conv \in DOMAIN convs
      BY <1>10, SaveFacts, Facts
    <3>2. /\ DOMAIN msgs' = DOMAIN msgs \cup {Len(msgs) + 1}
          /\ msgs'[Len(msgs) + 1].conv = conns[h].conv
      BY <1>10, SaveFacts
    <3>. QED
      BY <2>1, <3>1, <3>2
  <2>. QED
    BY <1>0, <1>10, <2>1, <2>2, <2>3, SaveFacts, Facts, TypedStep
<1>11. ASSUME NEW h \in DOMAIN conns, Deliver(h) PROVE Typed'
  <2>0. Telling(h) /\ UNCHANGED <<convs, faults, crashes>>
    BY <1>11 DEF Deliver, Telling, At
  <2>1. CASE Go(h, "notify") /\ UNCHANGED <<table, msgs, removals, ousted>>
    <3>1. Only(h) /\ Same(h) /\ conns'[h].at = "notify"
      BY <2>1, GoFacts DEF Places, Same
    <3>2. HandlerSound(h)'
      BY <2>0, <3>1, Facts DEF HandlerSound, Telling, At, Same
    <3>3. CountsTyped
      BY <1>0, <2>0, <2>1 DEF Uncounted
    <3>. QED
      BY <2>0, <2>1, <3>1, <3>2, <3>3, Facts, TypedHandler DEF Same
  <2>2. CASE Told(h, "told") /\ Go(h, "echo") /\ UNCHANGED <<table, removals, ousted>>
    BY <2>0, <2>2, TypedTold DEF Uncounted
  <2>3. CASE Leave(h)
    BY <2>0, <2>3, Facts, TypedLeave
  <2>. QED
    BY <1>11, <2>1, <2>2, <2>3 DEF Deliver
<1>12. ASSUME NEW h \in DOMAIN conns, Notify(h) PROVE Typed'
  BY <1>12, TypedTold DEF Notify, Telling, At, Uncounted
<1>13. ASSUME NEW h \in DOMAIN conns, Echo(h) PROVE Typed'
  <2>1. CASE Leave(h)
    BY <1>13, <2>1, Facts, TypedLeave DEF Echo
  <2>2. CASE /\ Become(h, Idle(h, "listen"))
             /\ UNCHANGED <<table, msgs, removals, ousted>>
    BY <1>0, <1>13, <2>2, TypedListen DEF Echo, Uncounted
  <2>. QED
    BY <1>13, <2>1, <2>2 DEF Echo
<1>14. ASSUME NEW h \in DOMAIN conns, Fault(h) PROVE Typed'
  <2>1. faults' \in Nat /\ UNCHANGED <<convs, crashes>>
    BY <1>14, Facts DEF Fault
  <2>2. CASE Leave(h)
    BY <2>1, <2>2, TypedLeave
  <2>3. CASE \E place \in {"over", "dropped"} :
               Return(h, place) /\ UNCHANGED <<table, msgs, removals, ousted>>
    <3>1. CountsTyped
      BY <2>1, <2>3, Facts DEF CountsTyped
    <3>. QED
      BY <2>1, <2>3, <3>1, TypedReturn
  <2>. QED
    BY <1>14, <2>2, <2>3 DEF Fault
<1>15. ASSUME Restart PROVE Typed'
  BY <1>15, TypedRestart
<1>. QED
  BY <1>1, <1>2, <1>3, <1>4, <1>5, <1>6, <1>7, <1>8, <1>9, <1>10, <1>11, <1>12, <1>13,
     <1>14, <1>15, TypedOpen
  DEF Next

-----------------------------------------------------------------------------
(* The kinds of steps *)

\* The tables are as they were; who is in a table, tells, or saves did before, but
\* for what is found, which is no second conversation.
Quiet(h) ==
  /\ Only(h) /\ UNCHANGED <<table, convs, msgs, removals, ousted>>
  /\ Registered(h)' => Registered(h)
  /\ Telling(h)' <=> Telling(h)
  /\ Telling(h) => conns'[h].msg = conns[h].msg /\ conns'[h].to = conns[h].to
  /\ At(h, "save")' => \/ At(h, "save") /\ conns'[h].conv = conns[h].conv
                       \/ ~Second(conns'[h].conv)

\* A message is told.
Tells(h) ==
  /\ Telling(h) /\ Told(h, "told") /\ Go(h, "echo")
  /\ UNCHANGED <<table, convs, ousted, faults>>

\* The loop ends; a message under way is lost for a reason.
Leaves(h) ==
  /\ Leave(h) /\ UNCHANGED convs
  /\ Telling(h) => faults' > 0 \/ Breaks(conns[h].to)

LEMMA QuietReturn ==
  ASSUME Typed, NEW h \in DOMAIN conns, NEW place \in {"over", "dropped"}, Return(h, place),
         conns[h].at \in {"join", "online", "leave", "offline"},
         UNCHANGED <<table, convs, msgs, removals, ousted>>
  PROVE  Quiet(h)
<1>1. Only(h) /\ conns'[h].at = place
  BY ReturnFacts DEF Places
<1>. QED
  BY <1>1 DEF Quiet, Registered, Telling, At

LEMMA StepKinds ==
  ASSUME Typed, Next
  PROVE  /\ faults' \in Nat /\ faults' >= faults
         /\ \/ Restart
            \/ \E u \in Users : Open(u)
            \/ \E h \in DOMAIN conns : Quiet(h) \/ Create(h) \/ Save(h) \/ Tells(h) \/ Leaves(h)
<1>. DEFINE Goal(h) == /\ faults' \in Nat /\ faults' >= faults
                       /\ Quiet(h) \/ Create(h) \/ Save(h) \/ Tells(h) \/ Leaves(h)
<1>0. faults \in Nat
  BY Facts
<1>1. ASSUME NEW h \in DOMAIN conns, AnnounceOnline(h) PROVE Goal(h)
  <2>1. /\ Only(h) /\ conns'[h].at \in {"listen", "online"} /\ conns[h].at = "join"
        /\ UNCHANGED <<table, convs, msgs, removals, ousted, faults>>
    BY <1>1, AnnounceOnlineFacts DEF AnnounceOnline, At
  <2>. QED
    BY <1>0, <2>1 DEF Quiet, Registered, Telling, At
<1>2. ASSUME NEW h \in DOMAIN conns, Become(h, Idle(h, "listen")),
             conns[h].at \in {"online", "echo"}, UNCHANGED <<table, convs, msgs, removals, ousted>>
      PROVE  Quiet(h)
  <2>1. Only(h) /\ conns'[h].at = "listen"
    BY <1>2, BecomeIdle DEF Places
  <2>. QED
    BY <1>2, <2>1 DEF Quiet, Registered, Telling, At
<1>3. ASSUME NEW h \in DOMAIN conns, Announced(h) PROVE Goal(h)
  BY <1>0, <1>2, <1>3, QuietReturn DEF Announced, At
<1>4. ASSUME NEW h \in DOMAIN conns, ClientGone(h) PROVE Goal(h)
  <2>1. /\ Only(h) /\ Same(h) /\ conns'[h].at = conns[h].at
        /\ UNCHANGED <<table, convs, msgs, removals, ousted, faults>>
    BY <1>4, ClientGoneFacts DEF ClientGone
  <2>. QED
    BY <1>0, <2>1 DEF Quiet, Registered, Telling, At, Same
<1>5. ASSUME NEW h \in DOMAIN conns, Hear(h) \/ Refuse(h) PROVE Goal(h)
  BY <1>0, <1>5 DEF Hear, Refuse, Leaves, Telling, At
<1>6. ASSUME NEW h \in DOMAIN conns, AnnounceOffline(h) PROVE Goal(h)
  <2>0. At(h, "leave") /\ UNCHANGED <<table, convs, msgs, removals, ousted, faults>>
    BY <1>6 DEF AnnounceOffline
  <2>1. CASE Return(h, "over")
    BY <1>0, <2>0, <2>1, QuietReturn DEF At
  <2>2. CASE Go(h, "offline")
    <3>1. Only(h) /\ conns'[h].at = "offline"
      BY <2>2, GoFacts DEF Places
    <3>. QED
      BY <1>0, <2>0, <3>1 DEF Quiet, Registered, Telling, At
  <2>. QED
    BY <1>6, <2>1, <2>2 DEF AnnounceOffline
<1>7. ASSUME NEW h \in DOMAIN conns, AnnouncedOffline(h) PROVE Goal(h)
  BY <1>0, <1>7, QuietReturn DEF AnnouncedOffline, At
<1>8. ASSUME NEW h \in DOMAIN conns, NEW u \in Users, Receive(h, u) PROVE Goal(h)
  <2>1. /\ Only(h) /\ conns'[h].at = "find" /\ conns[h].at = "listen"
        /\ UNCHANGED <<table, convs, msgs, removals, ousted, faults>>
    BY <1>8, ReceiveFacts DEF Receive, At
  <2>. QED
    BY <1>0, <2>1 DEF Quiet, Registered, Telling, At
<1>9. ASSUME NEW h \in DOMAIN conns, Find(h) PROVE Goal(h)
  <2>1. /\ Only(h) /\ conns[h].at = "find"
        /\ \/ conns'[h].at = "create"
           \/ conns'[h].at = "save" /\ ~Second(conns'[h].conv)
        /\ UNCHANGED <<table, convs, msgs, removals, ousted, faults>>
    BY <1>9, FindFacts DEF Find, At
  <2>. QED
    BY <1>0, <2>1 DEF Quiet, Registered, Telling, At
<1>10. ASSUME NEW h \in DOMAIN conns, Create(h) \/ Save(h) PROVE Goal(h)
  BY <1>0, <1>10 DEF Create, Save
<1>11. ASSUME NEW h \in DOMAIN conns, Deliver(h) PROVE Goal(h)
  <2>0. Telling(h) /\ ~At(h, "save") /\ UNCHANGED <<convs, faults>>
    BY <1>11 DEF Deliver, Telling, At
  <2>1. CASE Go(h, "notify") /\ UNCHANGED <<table, msgs, removals, ousted>>
    <3>1. Only(h) /\ Same(h) /\ conns'[h].at = "notify"
      BY <2>1, GoFacts DEF Places, Same
    <3>. QED
      BY <1>0, <2>0, <2>1, <3>1 DEF Quiet, Registered, Telling, At, Same
  <2>2. CASE Told(h, "told") /\ Go(h, "echo") /\ UNCHANGED <<table, ousted>>
    BY <1>0, <2>0, <2>2 DEF Tells
  <2>3. CASE Breaks(conns[h].to) /\ Leave(h)
    BY <1>0, <2>0, <2>3 DEF Leaves
  <2>. QED
    BY <1>11, <2>1, <2>2, <2>3 DEF Deliver
<1>12. ASSUME NEW h \in DOMAIN conns, Notify(h) PROVE Goal(h)
  BY <1>0, <1>12 DEF Notify, Tells, Telling, At
<1>13. ASSUME NEW h \in DOMAIN conns, Echo(h) PROVE Goal(h)
  BY <1>0, <1>2, <1>13 DEF Echo, Leaves, Telling, At
<1>14. ASSUME NEW h \in DOMAIN conns, Fault(h) PROVE Goal(h)
  <2>1. faults' = faults + 1 /\ UNCHANGED convs
    BY <1>14 DEF Fault
  <2>. QED
    BY <1>0, <1>14, <2>1, QuietReturn DEF Fault, Leaves, At
<1>15. ASSUME NEW u \in Users, Open(u) PROVE faults' \in Nat /\ faults' >= faults
  BY <1>0, <1>15 DEF Open
<1>16. ASSUME Restart PROVE faults' \in Nat /\ faults' >= faults
  BY <1>0, <1>16 DEF Restart
<1>. HIDE DEF Goal
<1>17. Restart \/ (\E u \in Users : Open(u)) \/ \E h \in DOMAIN conns : Goal(h)
  BY <1>1, <1>3, <1>4, <1>5, <1>6, <1>7, <1>8, <1>9, <1>10, <1>11, <1>12, <1>13, <1>14
  DEF Next
<1>. QED
  BY <1>15, <1>16, <1>17 DEF Goal

-----------------------------------------------------------------------------
(* The table of active connections *)

LEMMA TableNext ==
  ASSUME Typed, TableSound, Next
  PROVE  TableSound'
<1>1. ASSUME NEW u \in Users, Open(u) PROVE TableSound'
  <2>. DEFINE n == Len(conns) + 1
  <2>1. /\ DOMAIN conns' = DOMAIN conns \cup {n} /\ n \notin DOMAIN conns
        /\ \A g \in DOMAIN conns : g < n /\ conns'[g] = conns[g]
        /\ conns'[n].user = u /\ n \in Nat /\ UNCHANGED ousted
        /\ \A v \in Users : table'[v] = IF v = u THEN n ELSE table[v]
    BY <1>1, OpenFacts, Facts DEF Open
  <2>2. \A g \in DOMAIN conns : conns[g].user \in Users
    BY Facts DEF Conn
  <2>3. \A v \in Users : table[v] \in {0} \cup DOMAIN conns
    BY Facts
  <2>. HIDE DEF n
  <2>4. ASSUME NEW v \in Users, table'[v] # 0 PROVE conns'[table'[v]].user = v
    BY <2>1, <2>3, <2>4 DEF TableSound, User
  <2>5. ASSUME NEW h \in DOMAIN conns', Registered(h)', Newest(h)'
        PROVE  table'[User(h)'] = h
    <3>1. CASE h = n
      BY <2>1, <3>1 DEF User
    <3>2. CASE h # n
      <4>1. h \in DOMAIN conns /\ conns'[h] = conns[h] /\ conns[h].user # u
        <5>1. h \in DOMAIN conns /\ conns'[h] = conns[h] /\ n \in DOMAIN conns' /\ h < n
          BY <2>1, <3>2
        <5>2. h \in Nat
          BY <5>1, Facts
        <5>. QED
          BY <2>1, <2>5, <5>1, <5>2 DEF User, Newest
      <4>2. Newest(h)
        BY <2>1, <2>5, <4>1 DEF User, Newest
      <4>3. table[conns[h].user] = h
        BY <2>5, <4>1, <4>2 DEF TableSound, User, Registered
      <4>. QED
        BY <2>1, <2>2, <4>1, <4>3 DEF User
    <3>. QED
      BY <3>1, <3>2
  <2>. QED
    BY <2>4, <2>5 DEF TableSound, User
<1>2. ASSUME NEW h \in DOMAIN conns, Only(h), UNCHANGED <<table, ousted>>, Registered(h)' => Registered(h)
      PROVE  TableSound'
  <2>1. \A g \in DOMAIN conns : User(g)' = User(g) /\ (Registered(g)' => Registered(g))
    BY <1>2 DEF Only, User, Registered
  <2>2. \A u \in Users : table[u] \in {0} \cup DOMAIN conns
    BY Facts
  <2>3. DOMAIN conns' = DOMAIN conns
    BY <1>2 DEF Only
  <2>4. \A u \in Users : table'[u] # 0 => conns'[table'[u]].user = u
    BY <1>2, <2>1, <2>2 DEF TableSound, User
  <2>5. ASSUME NEW g \in DOMAIN conns, Registered(g)', Newest(g)'
        PROVE  table'[User(g)'] = g
    BY <1>2, <2>1, <2>3, <2>5 DEF TableSound, Newest
  <2>. QED
    BY <2>3, <2>4, <2>5 DEF TableSound, User
<1>3. ASSUME NEW h \in DOMAIN conns, Leave(h) PROVE TableSound'
  <2>1. /\ Only(h) /\ conns'[h].at = "leave" /\ DOMAIN conns' = DOMAIN conns
        /\ \A u \in Users : table'[u] = IF u = conns[h].user THEN 0 ELSE table[u]
        /\ ousted' = ousted \cup ({table[conns[h].user]} \ {0, h})
    BY <1>3, LeaveFacts DEF Only
  <2>2. \A g \in DOMAIN conns : /\ User(g)' = User(g) /\ User(g) \in Users
                                /\ Registered(g)' => Registered(g) /\ g # h
    BY <2>1, Facts DEF Only, User, Registered, Conn
  <2>3. \A u \in Users : table[u] \in {0} \cup DOMAIN conns
    BY Facts
  <2>4. \A u \in Users : table'[u] # 0 => conns'[table'[u]].user = u
    BY <2>1, <2>2, <2>3 DEF TableSound, User
  <2>5. ASSUME NEW g \in DOMAIN conns, Registered(g)', Newest(g)'
        PROVE  table'[User(g)'] = g
    <3>1. Registered(g) /\ g # h /\ g # 0
      BY <2>2, <2>5, Facts
    <3>2. Newest(g)
      BY <2>1, <2>2, <2>5 DEF Newest
    <3>3. table[User(g)] = g
      BY <3>1, <3>2 DEF TableSound
    <3>4. conns[h].user # User(g)
      BY <2>1, <2>5, <3>1, <3>3 DEF Newest
    <3>. QED
      BY <2>1, <2>2, <3>3, <3>4
  <2>. QED
    BY <2>1, <2>4, <2>5 DEF TableSound, User
<1>4. ASSUME NEW h \in DOMAIN conns, Create(h) \/ Save(h) \/ Tells(h) PROVE TableSound'
  <2>1. UNCHANGED <<table, ousted>> /\ Registered(h)
    BY <1>4 DEF Create, Save, Tells, Registered, Telling, At
  <2>2. Only(h)
    BY <1>4, CreateFacts, SaveFacts, GoFacts DEF Tells, Places
  <2>. QED
    BY <1>2, <2>1, <2>2
<1>5. ASSUME Restart PROVE TableSound'
  <2>1. /\ \A u \in Users : table'[u] = 0
        /\ \A h \in DOMAIN conns' : ~Registered(h)'
    BY <1>5, RestartFacts DEF Restart, Registered
  <2>. QED
    BY <2>1 DEF TableSound
<1>. QED
  BY <1>1, <1>2, <1>3, <1>4, <1>5, StepKinds DEF Quiet, Leaves

-----------------------------------------------------------------------------
(* Messages *)

MessagesSound == TellingSound /\ MessageTold

\* A socket that is closed stays closed, whatever handler moves.
LEMMA ClosedStays ==
  ASSUME Typed, NEW h \in DOMAIN conns, Only(h)
  PROVE  /\ DOMAIN conns' = DOMAIN conns
         /\ \A g \in DOMAIN conns : /\ conns'[g].user = conns[g].user
                                    /\ ~conns[g].alive => ~conns'[g].alive
BY DEF Only

LEMMA OpenMessages ==
  ASSUME Typed, MessagesSound, NEW u \in Users, Open(u)
  PROVE  MessagesSound'
<1>. DEFINE n == Len(conns) + 1
<1>1. /\ DOMAIN conns' = DOMAIN conns \cup {n} /\ n \notin DOMAIN conns
      /\ \A g \in DOMAIN conns : conns'[g] = conns[g]
      /\ conns'[n].at = "join" /\ UNCHANGED <<msgs, faults>>
  BY OpenFacts DEF Open
<1>. HIDE DEF n
<1>2. TellingSound'
  BY <1>1 DEF MessagesSound, TellingSound, Telling
<1>3. MessageTold'
  BY <1>1 DEF MessagesSound, MessageTold, User
<1>. QED
  BY <1>2, <1>3 DEF MessagesSound

LEMMA QuietMessages ==
  ASSUME Typed, MessagesSound, NEW h \in DOMAIN conns, Only(h), UNCHANGED msgs,
         Telling(h)' <=> Telling(h),
         Telling(h) => conns'[h].msg = conns[h].msg /\ conns'[h].to = conns[h].to,
         faults' \in Nat, faults' >= faults
  PROVE  MessagesSound'
<1>1. /\ DOMAIN conns' = DOMAIN conns
      /\ \A g \in DOMAIN conns :
           /\ conns'[g].user = conns[g].user
           /\ ~conns[g].alive => ~conns'[g].alive
           /\ Telling(g)' <=> Telling(g)
           /\ Telling(g) => conns'[g].msg = conns[g].msg /\ conns'[g].to = conns[g].to
  BY ClosedStays DEF Only, Telling
<1>2. TellingSound'
  BY <1>1 DEF MessagesSound, TellingSound
<1>3. faults > 0 => faults' > 0
  BY Facts
<1>4. MessageTold'
  BY <1>1, <1>3 DEF MessagesSound, MessageTold, User, Telling
<1>. QED
  BY <1>2, <1>4 DEF MessagesSound

LEMMA SaveMessages ==
  ASSUME Typed, MessagesSound, NEW h \in DOMAIN conns, Save(h)
  PROVE  MessagesSound'
<1>. DEFINE n == Len(msgs) + 1
<1>1. /\ Only(h) /\ conns'[h].at = "deliver" /\ conns'[h].msg = n
      /\ conns'[h].to = conns[h].to
      /\ DOMAIN msgs' = DOMAIN msgs \cup {n} /\ n \notin DOMAIN msgs
      /\ \A m \in DOMAIN msgs : msgs'[m] = msgs[m]
      /\ msgs'[n].to = conns[h].to /\ msgs'[n].fate = "pending"
      /\ conns[h].at = "save" /\ UNCHANGED faults
  BY SaveFacts DEF Save, At
<1>. HIDE DEF n
<1>2. /\ DOMAIN conns' = DOMAIN conns
      /\ \A g \in DOMAIN conns :
           /\ conns'[g].user = conns[g].user
           /\ ~conns[g].alive => ~conns'[g].alive
           /\ g # h => conns'[g] = conns[g]
           /\ Telling(g) => g # h /\ conns[g].msg \in DOMAIN msgs
  BY <1>1, ClosedStays, Facts DEF Only, Telling, HandlerSound
<1>3. TellingSound'
  BY <1>1, <1>2 DEF MessagesSound, TellingSound, Telling
<1>4. ASSUME NEW m \in DOMAIN msgs', msgs'[m].fate = "pending"
      PROVE  \E g \in DOMAIN conns' : conns'[g].msg = m /\ Telling(g)'
  <2>1. CASE m = n
    BY <1>1, <1>2, <2>1 DEF Telling
  <2>2. CASE m # n
    BY <1>1, <1>2, <1>4, <2>2 DEF MessagesSound, MessageTold, Telling
  <2>. QED
    BY <2>1, <2>2
<1>5. ASSUME NEW m \in DOMAIN msgs', msgs'[m].fate = "lost"
      PROVE  \/ faults' > 0
             \/ \E g \in DOMAIN conns' : User(g)' = msgs'[m].to /\ ~conns'[g].alive
  BY <1>1, <1>2, <1>5 DEF MessagesSound, MessageTold, User
<1>. QED
  BY <1>3, <1>4, <1>5 DEF MessagesSound, MessageTold, Telling

\* The message of handler h is told or lost, and h does not tell any more.
LEMMA FateMessages ==
  ASSUME Typed, MessagesSound, NEW h \in DOMAIN conns, Only(h), ~Telling(h)',
         NEW how \in {"told", "lost"},
         DOMAIN msgs' = DOMAIN msgs,
         \A m \in DOMAIN msgs :
           /\ msgs'[m].to = msgs[m].to
           /\ msgs'[m].fate = IF Telling(h) /\ m = conns[h].msg THEN how ELSE msgs[m].fate,
         faults' \in Nat, faults' >= faults,
         how = "lost" /\ Telling(h) =>
           \/ faults' > 0
           \/ \E g \in DOMAIN conns : User(g) = conns[h].to /\ ~conns[g].alive
  PROVE  MessagesSound'
<1>1. /\ DOMAIN conns' = DOMAIN conns
      /\ \A g \in DOMAIN conns :
           /\ conns'[g].user = conns[g].user
           /\ ~conns[g].alive => ~conns'[g].alive
           /\ g # h => conns'[g] = conns[g]
           /\ Telling(g)' => Telling(g) /\ g # h
           /\ Telling(g) => conns[g].msg \in DOMAIN msgs
  BY ClosedStays, Facts DEF Only, Telling, HandlerSound
<1>2. TellingSound'
  BY <1>1 DEF MessagesSound, TellingSound
<1>3. faults > 0 => faults' > 0
  BY Facts
<1>4. ASSUME NEW m \in DOMAIN msgs, msgs'[m].fate = "pending"
      PROVE  \E g \in DOMAIN conns' : conns'[g].msg = m /\ Telling(g)'
  <2>1. msgs[m].fate = "pending" /\ ~(Telling(h) /\ m = conns[h].msg)
    BY <1>4
  <2>2. PICK g \in DOMAIN conns : conns[g].msg = m /\ Telling(g)
    BY <2>1 DEF MessagesSound, MessageTold, Telling
  <2>. QED
    BY <1>1, <2>1, <2>2 DEF Telling
<1>5. ASSUME NEW m \in DOMAIN msgs, msgs'[m].fate = "lost"
      PROVE  \/ faults' > 0
             \/ \E g \in DOMAIN conns' : User(g)' = msgs'[m].to /\ ~conns'[g].alive
  <2>1. CASE Telling(h) /\ m = conns[h].msg
    <3>1. how = "lost" /\ msgs'[m].to = conns[h].to
      BY <1>5, <2>1 DEF MessagesSound, TellingSound
    <3>. QED
      BY <1>1, <2>1, <3>1 DEF User
  <2>2. CASE ~(Telling(h) /\ m = conns[h].msg)
    BY <1>1, <1>3, <1>5, <2>2 DEF MessagesSound, MessageTold, User
  <2>. QED
    BY <2>1, <2>2
<1>. QED
  BY <1>2, <1>4, <1>5 DEF MessagesSound, MessageTold, Telling

LEMMA MessagesNext ==
  ASSUME Typed, TableSound, MessagesSound, Next
  PROVE  MessagesSound'
<1>0. faults' \in Nat /\ faults' >= faults
  BY StepKinds
<1>1. ASSUME NEW h \in DOMAIN conns, Quiet(h) PROVE MessagesSound'
  BY <1>0, <1>1, QuietMessages DEF Quiet
<1>2. ASSUME NEW h \in DOMAIN conns, Create(h) PROVE MessagesSound'
  <2>1. Only(h) /\ ~Telling(h)' /\ ~Telling(h) /\ UNCHANGED msgs
    BY <1>2, CreateFacts DEF Create, Telling, At
  <2>. QED
    BY <1>0, <2>1, QuietMessages
<1>3. ASSUME NEW h \in DOMAIN conns, Tells(h) PROVE MessagesSound'
  <2>1. Only(h) /\ ~Telling(h)'
    BY <1>3, GoFacts DEF Tells, Places, Telling
  <2>2. /\ DOMAIN msgs' = DOMAIN msgs
        /\ \A m \in DOMAIN msgs :
           /\ msgs'[m].to = msgs[m].to
           /\ msgs'[m].fate = IF Telling(h) /\ m = conns[h].msg THEN "told" ELSE msgs[m].fate
    BY <1>3, ToldFacts DEF Tells
  <2>. QED
    BY <1>0, <2>1, <2>2, FateMessages
<1>4. ASSUME NEW h \in DOMAIN conns, Leaves(h) PROVE MessagesSound'
  <2>1. /\ Only(h) /\ ~Telling(h)' /\ DOMAIN msgs' = DOMAIN msgs
        /\ \A m \in DOMAIN msgs :
           /\ msgs'[m].to = msgs[m].to
           /\ msgs'[m].fate = IF Telling(h) /\ m = conns[h].msg THEN "lost" ELSE msgs[m].fate
    BY <1>4, LeaveFacts DEF Leaves, Telling
  <2>2. ASSUME Telling(h)
        PROVE  \/ faults' > 0
               \/ \E g \in DOMAIN conns : User(g) = conns[h].to /\ ~conns[g].alive
    <3>1. conns[h].to \in Users
      BY <2>2, Facts DEF Telling, HandlerSound
    <3>2. table[conns[h].to] \in {0} \cup DOMAIN conns
      BY <3>1, Facts
    <3>3. Breaks(conns[h].to) => User(table[conns[h].to]) = conns[h].to
      BY <3>1 DEF Breaks, TableSound
    <3>. QED
      BY <1>4, <2>2, <3>2, <3>3 DEF Leaves, Breaks
  <2>. QED
    BY <1>0, <2>1, <2>2, FateMessages
<1>5. ASSUME Restart PROVE MessagesSound'
  <2>1. \A h \in DOMAIN conns' : ~Telling(h)'
    BY <1>5, RestartFacts DEF Telling
  <2>2. \A m \in DOMAIN msgs' : msgs'[m].fate # "pending"
    BY <1>5, RestartFacts
  <2>3. ASSUME NEW m \in DOMAIN msgs', msgs'[m].fate = "lost"
        PROVE  \/ faults' > 0
               \/ \E g \in DOMAIN conns' : User(g)' = msgs'[m].to /\ ~conns'[g].alive
    <3>1. m \in DOMAIN msgs /\ msgs[m].fate = "lost" /\ msgs'[m].to = msgs[m].to
      BY <1>5, <2>3, RestartFacts
    <3>2. /\ UNCHANGED faults /\ DOMAIN conns' = DOMAIN conns
          /\ \A g \in DOMAIN conns : User(g)' = User(g) /\ ~conns'[g].alive
      BY <1>5, RestartFacts DEF Restart, User
    <3>3. \/ faults > 0
          \/ \E g \in DOMAIN conns : User(g) = msgs[m].to /\ ~conns[g].alive
      BY <3>1 DEF MessagesSound, MessageTold
    <3>. QED
      BY <3>1, <3>2, <3>3
  <2>. QED
    BY <2>1, <2>2, <2>3 DEF MessagesSound, TellingSound, MessageTold
<1>. QED
  BY <1>1, <1>2, <1>3, <1>4, <1>5, OpenMessages, SaveMessages, StepKinds

-----------------------------------------------------------------------------
(* Conversations *)

\* No conversation and no message is new, and a handler is about to save to a second
\* conversation only if it was before.
LEMMA SecondsStay ==
  ASSUME Typed, SecondsSound, UNCHANGED convs, DOMAIN msgs' = DOMAIN msgs,
         \A m \in DOMAIN msgs : msgs'[m].conv = msgs[m].conv,
         \A g \in DOMAIN conns' :
           At(g, "save")' => \/ ~Second(conns'[g].conv)
                             \/ /\ g \in DOMAIN conns /\ At(g, "save")
                                /\ conns'[g].conv = conns[g].conv
  PROVE  SecondsSound'
<1>. SUFFICES ASSUME NEW d \in DOMAIN convs, Second(d)
              PROVE  /\ \A m, n \in DOMAIN msgs :
                          msgs[m].conv = d /\ msgs[n].conv = d => m = n
                     /\ \A g, h \in DOMAIN conns' :
                          /\ At(g, "save")' /\ conns'[g].conv = d
                          /\ At(h, "save")' /\ conns'[h].conv = d
                          => g = h
                     /\ \A h \in DOMAIN conns', m \in DOMAIN msgs :
                          ~(At(h, "save")' /\ conns'[h].conv = d /\ msgs[m].conv = d)
  BY DEF SecondsSound, Second
<1>1. \A g \in DOMAIN conns' : At(g, "save")' /\ conns'[g].conv = d =>
        g \in DOMAIN conns /\ At(g, "save") /\ conns[g].conv = d
  OBVIOUS
<1>. QED
  BY <1>1 DEF SecondsSound

\* The second conversation is new: only its handler knows of it.
LEMMA CreateSeconds ==
  ASSUME Typed, SecondsSound, NEW h \in DOMAIN conns, Create(h)
  PROVE  SecondsSound'
<1>. DEFINE n == Len(convs) + 1
<1>1. /\ Only(h) /\ conns'[h].at = "save" /\ conns'[h].conv = n /\ conns[h].at = "create"
      /\ DOMAIN convs' = DOMAIN convs \cup {n} /\ n \notin DOMAIN convs /\ n \in Nat \ {0}
      /\ \A c \in DOMAIN convs : c < n /\ convs'[c] = convs[c]
      /\ UNCHANGED msgs
  BY CreateFacts DEF Create, At
<1>. HIDE DEF n
<1>2. /\ DOMAIN conns' = DOMAIN conns
      /\ \A g \in DOMAIN conns : g # h => /\ conns'[g] = conns[g]
                                          /\ conns[g].conv \in {0} \cup DOMAIN convs
      /\ \A m \in DOMAIN msgs : msgs[m].conv \in DOMAIN convs
      /\ \A c \in DOMAIN convs : c \in Nat \ {0}
  BY <1>1, Facts DEF Only
<1>3. \A d \in DOMAIN convs : Second(d)' => Second(d)
  BY <1>1, <1>2 DEF Second
<1>4. ASSUME NEW d \in DOMAIN convs', Second(d)'
      PROVE  /\ \A m, k \in DOMAIN msgs : msgs[m].conv = d /\ msgs[k].conv = d => m = k
             /\ \A g, f \in DOMAIN conns :
                  /\ At(g, "save")' /\ conns'[g].conv = d
                  /\ At(f, "save")' /\ conns'[f].conv = d
                  => g = f
             /\ \A g \in DOMAIN conns, m \in DOMAIN msgs :
                  ~(At(g, "save")' /\ conns'[g].conv = d /\ msgs[m].conv = d)
  <2>1. CASE d = n
    BY <1>1, <1>2, <2>1
  <2>2. CASE d # n
    <3>1. d \in DOMAIN convs /\ Second(d)
      BY <1>1, <1>3, <1>4, <2>2
    <3>2. \A g \in DOMAIN conns : At(g, "save")' /\ conns'[g].conv = d =>
            At(g, "save") /\ conns[g].conv = d
      BY <1>1, <1>2, <2>2 DEF At
    <3>. QED
      BY <3>1, <3>2 DEF SecondsSound
  <2>. QED
    BY <2>1, <2>2
<1>. QED
  BY <1>1, <1>2, <1>4 DEF SecondsSound

\* The one handler of a second conversation saves its one message.
LEMMA SaveSeconds ==
  ASSUME Typed, SecondsSound, NEW h \in DOMAIN conns, Save(h)
  PROVE  SecondsSound'
<1>. DEFINE n == Len(msgs) + 1
<1>1. /\ Only(h) /\ conns'[h].at = "deliver" /\ At(h, "save")
      /\ DOMAIN msgs' = DOMAIN msgs \cup {n} /\ n \notin DOMAIN msgs
      /\ \A m \in DOMAIN msgs : msgs'[m] = msgs[m]
      /\ msgs'[n].conv = conns[h].conv /\ UNCHANGED convs
  BY SaveFacts DEF Save
<1>. HIDE DEF n
<1>2. /\ DOMAIN conns' = DOMAIN conns
      /\ \A g \in DOMAIN conns : At(g, "save")' => g # h /\ At(g, "save")
      /\ \A g \in DOMAIN conns : g # h => conns'[g] = conns[g]
  BY <1>1 DEF Only, At
<1>3. ASSUME NEW d \in DOMAIN convs, Second(d)
      PROVE  /\ \A m, k \in DOMAIN msgs' : msgs'[m].conv = d /\ msgs'[k].conv = d => m = k
             /\ \A g, f \in DOMAIN conns :
                  /\ At(g, "save")' /\ conns'[g].conv = d
                  /\ At(f, "save")' /\ conns'[f].conv = d
                  => g = f
             /\ \A g \in DOMAIN conns, m \in DOMAIN msgs' :
                  ~(At(g, "save")' /\ conns'[g].conv = d /\ msgs'[m].conv = d)
  <2>1. CASE conns[h].conv = d
    <3>1. \A m \in DOMAIN msgs : msgs[m].conv # d
      BY <1>1, <1>3, <2>1 DEF SecondsSound
    <3>2. \A g \in DOMAIN conns : ~(At(g, "save")' /\ conns'[g].conv = d)
      BY <1>1, <1>2, <1>3, <2>1 DEF SecondsSound
    <3>. QED
      BY <1>1, <3>1, <3>2
  <2>2. CASE conns[h].conv # d
    <3>1. \A m \in DOMAIN msgs' : msgs'[m].conv = d => m \in DOMAIN msgs /\ msgs[m].conv = d
      BY <1>1, <2>2
    <3>2. \A g \in DOMAIN conns : At(g, "save")' /\ conns'[g].conv = d =>
            At(g, "save") /\ conns[g].conv = d
      BY <1>2
    <3>. QED
      BY <1>3, <3>1, <3>2 DEF SecondsSound
  <2>. QED
    BY <2>1, <2>2
<1>. QED
  BY <1>1, <1>2, <1>3 DEF SecondsSound, Second

LEMMA SecondsNext ==
  ASSUME Typed, SecondsSound, Next
  PROVE  SecondsSound'
<1>1. ASSUME NEW u \in Users, Open(u) PROVE SecondsSound'
  <2>. DEFINE n == Len(conns) + 1
  <2>1. /\ DOMAIN conns' = DOMAIN conns \cup {n}
        /\ \A g \in DOMAIN conns : conns'[g] = conns[g]
        /\ conns'[n].at = "join" /\ UNCHANGED <<convs, msgs>>
    BY <1>1, OpenFacts DEF Open
  <2>. HIDE DEF n
  <2>. QED
    BY <2>1, SecondsStay DEF At
<1>2. ASSUME NEW h \in DOMAIN conns, Quiet(h) PROVE SecondsSound'
  BY <1>2, SecondsStay DEF Quiet, Only, At
<1>3. ASSUME NEW h \in DOMAIN conns, Tells(h) PROVE SecondsSound'
  <2>1. Only(h) /\ conns'[h].at = "echo" /\ UNCHANGED convs
    BY <1>3, GoFacts DEF Tells, Places
  <2>2. DOMAIN msgs' = DOMAIN msgs /\ \A m \in DOMAIN msgs : msgs'[m].conv = msgs[m].conv
    BY <1>3, ToldFacts DEF Tells
  <2>. QED
    BY <2>1, <2>2, SecondsStay DEF Only, At
<1>4. ASSUME NEW h \in DOMAIN conns, Leaves(h) PROVE SecondsSound'
  <2>1. /\ Only(h) /\ conns'[h].at = "leave" /\ UNCHANGED convs
        /\ DOMAIN msgs' = DOMAIN msgs
        /\ \A m \in DOMAIN msgs : msgs'[m].conv = msgs[m].conv
    BY <1>4, LeaveFacts DEF Leaves
  <2>. QED
    BY <2>1, SecondsStay DEF Only, At
<1>5. ASSUME Restart PROVE SecondsSound'
  BY <1>5, RestartFacts, SecondsStay DEF Restart, At
<1>. QED
  BY <1>1, <1>2, <1>3, <1>4, <1>5, CreateSeconds, SaveSeconds, StepKinds

-----------------------------------------------------------------------------
(* The invariant holds *)

LEMMA InvInit ==
  ASSUME Init
  PROVE  ChatInv
<1>1. /\ conns \in Seq(Conn) /\ convs \in Seq(SUBSET Users) /\ msgs \in Seq(Message)
      /\ DOMAIN conns = {} /\ DOMAIN convs = {} /\ DOMAIN msgs = {}
      /\ table = [u \in Users |-> 0]
      /\ removals = 0 /\ ousted = {} /\ faults = 0 /\ crashes = 0
  BY EmptySeq DEF Init
<1>2. Online = {}
  BY <1>1 DEF Online
<1>3. Typed
  BY <1>1, <1>2, FS_EmptySet DEF Typed, TypeOK
<1>. QED
  BY <1>1, <1>3 DEF ChatInv, TableSound, TellingSound, MessageTold, SecondsSound

LEMMA InvNext ==
  ASSUME ChatInv, [Next]_vars
  PROVE  ChatInv'
<1>1. CASE Next
  BY <1>1, TypedNext, TableNext, MessagesNext, SecondsNext DEF ChatInv, MessagesSound
<1>2. CASE UNCHANGED vars
  <2>. USE <1>2 DEF vars
  <2>1. Typed'
    BY DEF ChatInv, Typed, TypeOK, HandlerSound, Telling, At, Online
  <2>2. TableSound' /\ TellingSound' /\ MessageTold'
    BY DEF ChatInv, TableSound, TellingSound, MessageTold, User, Registered, Newest, Telling
  <2>3. SecondsSound'
    BY DEF ChatInv, SecondsSound, Second, At
  <2>. QED
    BY <2>1, <2>2, <2>3 DEF ChatInv
<1>. QED
  BY <1>1, <1>2

LEMMA ChatIsSound == Spec => []ChatInv
BY InvInit, InvNext, PTL DEF Spec

-----------------------------------------------------------------------------
\* Every variable of the chat stays in its type: handlers hold only conversations and
\* messages that are stored, and the table only connections that were opened.
THEOREM TypeCorrect == Spec => []TypeOK
<1>1. ChatInv => TypeOK
  BY DEF ChatInv, Typed
<1>. QED
  BY <1>1, ChatIsSound, PTL

\* disconnect removes a user, not a socket: still a handler that listens is found in
\* the table, until its user opens a later connection or the end of another one of
\* that user takes it out, whatever other users' handlers do.
THEOREM ListenersAreReachable == Spec => []ListenerReachable
<1>1. ASSUME ChatInv PROVE ListenerReachable
  <2>1. \A g, h \in DOMAIN conns : ~(g > h) => g <= h
    BY <1>1, Facts DEF ChatInv
  <2>2. \A h \in DOMAIN conns : At(h, "listen") => Registered(h)
    BY DEF At, Registered
  <2>. QED
    BY <1>1, <2>1, <2>2 DEF ChatInv, TableSound, Newest, ListenerReachable
<1>. QED
  BY <1>1, ChatIsSound, PTL

\* A message that was stored is told, is about to be told, or was lost to a closed
\* socket of its receiver, to the database or to the death of the process; no other
\* handler's end forgets it.
THEOREM MessagesAreTold == Spec => []MessageTold
<1>1. ChatInv => MessageTold
  BY DEF ChatInv
<1>. QED
  BY <1>1, ChatIsSound, PTL

\* get_or_create_conversation reads and inserts in two steps: what overlaps there
\* may make a second conversation of a pair, which gets one message and no more.
THEOREM SecondsStayShort == Spec => []OneThread
<1>1. ChatInv => OneThread
  <2>. SUFFICES ASSUME ChatInv, NEW c \in DOMAIN convs, NEW d \in DOMAIN convs,
                       c < d, convs[c] = convs[d]
                PROVE  Cardinality({m \in DOMAIN msgs : msgs[m].conv = d}) <= 1
    BY DEF OneThread
  <2>. DEFINE S == {m \in DOMAIN msgs : msgs[m].conv = d}
  <2>1. \A m, n \in S : m = n
    BY DEF ChatInv, SecondsSound, Second
  <2>2. S = {} \/ \E m : S = {m}
    BY <2>1
  <2>. HIDE DEF S
  <2>3. Cardinality(S) \in {0, 1}
    BY <2>2, FS_EmptySet, FS_Singleton
  <2>4. Cardinality(S) <= 1
    BY <2>3
  <2>. QED
    BY <2>4 DEF S
<1>. QED
  BY <1>1, ChatIsSound, PTL
=============================================================================
