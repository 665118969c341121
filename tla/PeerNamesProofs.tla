--------------------------- MODULE PeerNamesProofs ---------------------------
(* Theorems about PeerNames, for any clients, nicknames and commands.       *)
EXTENDS PeerNames, TLAPS, SequenceTheorems, WellFoundedInduction

-----------------------------------------------------------------------------
(* The invariant                                                           *)

Names == Nick \cup {Default}

\* Whoever has this id has had this nickname, and nobody will get the id.
Claim(n, nick) ==
    nick # Default => /\ n < m_next_id
                      /\ \A c \in Client : id[c] = n => nick \in bore[c]

Entries == {e \in Entry : Claim(e[1], e[2])}

RequestTypes == {"NONE", "CONNECT", "NICK_SET", "CLIENT_LIST", "PRIVATE"}

Requests == {p \in [type : RequestTypes, nick : Names, to : Nat] :
                p.type = "PRIVATE" => p.nick \in Nick /\ Claim(p.to, p.nick)}

Infos == [type : {"LIST", "PRIVATE", "KICK"}, list : SUBSET Entries]

\* Everything anybody has been told of ids and nicknames was once true.
Told ==
    /\ up \in [Client -> Seq(Requests)] /\ got \in [Client -> Requests]
    /\ down \in [Client -> Seq(Infos)]
    /\ peers \in [Client -> SUBSET Entries]
    /\ scan.read \in SUBSET Entries
    /\ order.op \in {"msgn", "kickn"} => Claim(order.id, order.nick)
    /\ order.op # "none" => order.nick \in Nick

\* Clients in the map have an id, each its own and none the next one.
Identities ==
    /\ \A c \in m_clients : id[c] # 0
    /\ \A c \in Client : id[c] < m_next_id
    /\ \A c, d \in Client : id[c] # 0 /\ id[c] = id[d] => c = d
    /\ \A c \in Client : nickname[c] # Default => nickname[c] \in bore[c]

\* Nobody scans the map without the mutex.
Scanning == mutex = Free => scan.unread = {}

Typed ==
    /\ m_next_id \in Nat \ {0} /\ m_clients \in SUBSET Client
    /\ id \in [Client -> Nat] /\ nickname \in [Client -> Names]
    /\ sock \in [Client -> Fd \cup {Free}] /\ fdTable \in [Fd -> Client \cup {Free}]
    /\ accepted \in Client \cup {Free} /\ rx \in [Client -> Client \cup {Free}]
    /\ handlerPc \in [Client -> {"none", "loop", "enter", "recv", "dispatch", "list",
                                 "listing", "remove", "done"}]
    /\ mutex \in Client \cup {Operator, Free}
    /\ scan.unread \in SUBSET m_clients
    /\ order \in [op : {"none", "scan", "msgn", "kickn"}, nick : Names, id : Nat]
    /\ kicked \in SUBSET Client /\ crossed \in SUBSET Client
    /\ status \in [Client -> {"off", "up", "gone"}]
    /\ typed \in 0..MaxCommands /\ ordered \in 0..MaxCommands
    /\ bore \in [Client -> SUBSET Names]

\* The threads: who is in the map, who holds the mutex, whose packet is handled.
Threads ==
    /\ \A c \in Client : c \in m_clients <=> handlerPc[c] \notin {"none", "done"}
    /\ \A c \in Client : mutex = c <=> handlerPc[c] = "listing"
    /\ \A c \in Client : handlerPc[c] \notin {"dispatch", "list", "listing"} => got[c].type = "NONE"
    /\ mutex = Free => scan = NoScan

\* A number denotes a connection that accept() returned under it and that the
\* server has not closed.  Only a kicked client's entry names a number that it
\* does not own, so only a newcomer that got such a number is met under another's.
Descriptors ==
    /\ accepted \in Client =>
          handlerPc[accepted] = "none" /\ sock[accepted] \in Fd /\ status[accepted] # "off"
    /\ \A c \in Client : handlerPc[c] # "none" => sock[c] \in Fd
    /\ \A c \in kicked : handlerPc[c] # "none" /\ \A f \in Fd : fdTable[f] # c
    /\ \A f \in Fd : fdTable[f] \in Client =>
          sock[fdTable[f]] = f /\ fdTable[f] \in m_clients \cup {accepted}
    /\ \A c \in Client : Clean(c) /\ c \in m_clients \cup {accepted} =>
          /\ fdTable[sock[c]] = c
          /\ \A e \in Client : e \in m_clients \cup {accepted} /\ sock[e] = sock[c] => e = c
    /\ \A k \in Client : rx[k] \in Client /\ rx[k] # k =>
          rx[k] \in crossed /\ ~ Clean(k)

\* What was meant for a nickname reached clients that have had it.
Reached ==
    /\ reached \subseteq [nick : Nick, entry : Client, conn : Client]
    /\ ReachesBearer

Inv == Typed /\ Identities /\ Scanning /\ Told /\ Threads /\ Descriptors /\ Reached

-----------------------------------------------------------------------------
(* Minima                                                                  *)

\* Every set of numbers has a least one.
LEMMA NatWellFounded == IsWellFoundedOn({s \in Nat \X Nat : s[1] < s[2]}, Nat)
<1>1. OpToRel(<, Nat) = {s \in Nat \X Nat : s[1] < s[2]}
  BY Zenon DEF OpToRel
<1> QED
  BY <1>1, NatLessThanWellFounded

LEMMA Least ==
  ASSUME NEW S, S \subseteq Nat, S # {}
  PROVE  \E x \in S : \A y \in S : x <= y
<1> DEFINE R == {s \in Nat \X Nat : s[1] < s[2]}
<1>1. IsWellFoundedOn(R, Nat)
  BY NatWellFounded
<1> HIDE DEF R
<1>2. PICK x \in S : \A y \in S : ~(<<y, x>> \in R)
  BY <1>1, WFMin
<1>3. ASSUME NEW y \in S PROVE x <= y
  <2>1. x \in Nat /\ y \in Nat
    OBVIOUS
  <2>2. <<y, x>> \in Nat \X Nat /\ ~(<<y, x>> \in R)
    BY <2>1, <1>2
  <2>3. y < x => <<y, x>> \in R
    BY <2>2 DEF R
  <2> QED
    BY <2>1, <2>2, <2>3
<1> QED
  BY <1>3

\* The client that is found bears the name in the list.
LEMMA FoundIsEntry ==
  ASSUME NEW list \in SUBSET Entries, NEW nick, Found(list, nick) # {}
  PROVE  <<Min(Found(list, nick)), nick>> \in Entries
<1>1. Found(list, nick) \subseteq Nat
  BY DEF Found, Entries, Entry
<1>2. Min(Found(list, nick)) \in Found(list, nick)
  BY <1>1, Least DEF Min
<1>3. PICK e \in list : e[2] = nick /\ e[1] = Min(Found(list, nick))
  BY <1>2 DEF Found
<1>4. e \in Entries /\ e = <<e[1], e[2]>>
  BY DEF Entries, Entry
<1> QED
  BY <1>3, <1>4

\* The entry that is read next is one of those not read yet.
LEMMA NextIsUnread ==
  ASSUME Typed, scan.unread # {}
  PROVE  (CHOOSE c \in scan.unread : \A d \in scan.unread : id[c] <= id[d]) \in scan.unread
<1>1. scan.unread \subseteq Client
  BY DEF Typed
<1>2. {id[c] : c \in scan.unread} \subseteq Nat
  BY <1>1 DEF Typed
<1>3. PICK n \in {id[c] : c \in scan.unread} : \A m \in {id[c] : c \in scan.unread} : n <= m
  BY <1>2, Least
<1>4. PICK c \in scan.unread : n = id[c]
  BY <1>3
<1>5. \A d \in scan.unread : id[c] <= id[d]
  BY <1>3, <1>4
<1> QED
  BY <1>5

-----------------------------------------------------------------------------
(* What was once true remains so                                           *)

\* Ids are handed out once and nicknames borne are never forgotten.
LEMMA ClaimsKept ==
  ASSUME Inv, [Next]_vars
  PROVE  /\ \A n \in Nat : \A nick : Claim(n, nick) => Claim(n, nick)'
         /\ Entries \subseteq Entries' /\ Requests \subseteq Requests' /\ Infos \subseteq Infos'
<1>1. ASSUME \E c \in Client : AcceptRegister(c)
      PROVE  \A n \in Nat : \A nick : Claim(n, nick) => Claim(n, nick)'
  <2>1. PICK c \in Client : AcceptRegister(c)
    BY <1>1
  <2>2. /\ id' = [id EXCEPT ![c] = m_next_id] /\ m_next_id' = m_next_id + 1 /\ bore' = bore
        /\ m_next_id \in Nat /\ id \in [Client -> Nat]
    BY <2>1 DEF AcceptRegister, NextId, history, Inv, Typed
  <2>3. \A n \in Nat : \A nick : Claim(n, nick) => Claim(n, nick)'
    BY <2>2 DEF Claim
  <2> QED
    BY <2>3
<1>2. ASSUME ~ \E c \in Client : AcceptRegister(c)
      PROVE  \A n \in Nat : \A nick : Claim(n, nick) => Claim(n, nick)'
  <2>1. /\ m_next_id' = m_next_id /\ id' = id
        /\ bore \in [Client -> SUBSET Names] /\ \A c \in Client : bore[c] \subseteq bore'[c]
    <3>0. bore \in [Client -> SUBSET Names]
      BY DEF Inv, Typed
    <3>1. ASSUME NEW c \in Client, Handler(c)
          PROVE  /\ m_next_id' = m_next_id /\ id' = id
                 /\ \A d \in Client : bore[d] \subseteq bore'[d]
      BY <3>0, <3>1 DEF Handler, HandlerTest, HandlerEnter, HandlerRecv, HandlerRecvFail, HandleName, HandlePrivate, ListBegin,
           ScanRead, ListSend, HandlerRemove, HandlerGoto, server, history
    <3>2. ASSUME NEW c \in Client, User(c) \/ Receive(c)
          PROVE  m_next_id' = m_next_id /\ id' = id /\ bore' = bore
      BY <3>2 DEF User, Connect, Type, TypeNick, TypeMsgn, TypeList, Quit, Ends, Receive, ReceiveKick, Dropped,
           ReceiveOther, ClientUnchanged, server
    <3>3. CASE Console
      BY <3>0, <3>3 DEF Console, OperatorFind, ScanRead, OperatorFound, OperatorAct, OperatorUnchanged,
           server, history
    <3>4. CASE UNCHANGED vars
      BY <3>0, <3>4 DEF vars, server, history
    <3>5. ASSUME NEW c \in Client, NEW f \in Fd, AcceptReturn(c, f)
          PROVE  m_next_id' = m_next_id /\ id' = id /\ bore' = bore
      BY <3>5 DEF AcceptReturn, server
    <3> QED
      BY <1>2, <3>0, <3>1, <3>2, <3>3, <3>4, <3>5 DEF Next
  <2> QED
    BY <2>1 DEF Claim
<1>3. \A n \in Nat : \A nick : Claim(n, nick) => Claim(n, nick)'
  BY <1>1, <1>2
<1>4. Entries \subseteq Entries'
  BY <1>3 DEF Entries, Entry
<1>5. Requests \subseteq Requests'
  BY <1>3 DEF Requests
<1>6. Infos \subseteq Infos'
  BY <1>4 DEF Infos
<1> QED
  BY <1>3, <1>4, <1>5, <1>6

\* What is not changed is as true as it was.
LEMMA ToldKept ==
  ASSUME Inv, [Next]_vars
  PROVE  /\ up \in [Client -> Seq(Requests')] /\ got \in [Client -> Requests']
         /\ down \in [Client -> Seq(Infos')]
         /\ peers \in [Client -> SUBSET Entries']
         /\ scan.read \in SUBSET Entries'
<1>1. PICK e, r, i : e = Entries' /\ r = Requests' /\ i = Infos'
  OBVIOUS
<1>2. Entries \subseteq e /\ Requests \subseteq r /\ Infos \subseteq i
  BY <1>1, ClaimsKept
<1>3. Seq(Requests) \subseteq Seq(r) /\ Seq(Infos) \subseteq Seq(i)
  BY <1>2
<1>4. /\ up \in [Client -> Seq(Requests)] /\ got \in [Client -> Requests]
      /\ down \in [Client -> Seq(Infos)] /\ peers \in [Client -> SUBSET Entries]
      /\ scan.read \in SUBSET Entries
  BY DEF Inv, Told
<1>5. /\ up \in [Client -> Seq(r)] /\ got \in [Client -> r] /\ down \in [Client -> Seq(i)]
      /\ peers \in [Client -> SUBSET e] /\ scan.read \in SUBSET e
  BY <1>2, <1>3, <1>4
<1> QED
  BY <1>1, <1>5

-----------------------------------------------------------------------------
(* Identities                                                              *)

\* Most steps leave the sessions alone.
LEMMA SessionsKept ==
  ASSUME [Next]_vars,
         ~ \E c \in Client : AcceptRegister(c) \/ HandleName(c) \/ HandlerRemove(c)
  PROVE  UNCHANGED <<m_next_id, m_clients, id, nickname, bore>>
<1>1. ASSUME NEW c \in Client, Handler(c)
      PROVE  UNCHANGED <<m_next_id, m_clients, id, nickname, bore>>
  BY <1>1 DEF Handler, HandlerTest, HandlerEnter, HandlerRecv, HandlerRecvFail, HandlePrivate,
     ListBegin, ScanRead, ListSend, HandlerGoto, server, history
<1>2. ASSUME NEW c \in Client, User(c) \/ Receive(c)
      PROVE  UNCHANGED <<m_next_id, m_clients, id, nickname, bore>>
  BY <1>2 DEF User, Connect, Type, TypeNick, TypeMsgn, TypeList, Quit, Ends, Receive, ReceiveKick, Dropped,
     ReceiveOther, ClientUnchanged, server
<1>3. CASE Console
  BY <1>3 DEF Console, OperatorFind, ScanRead, OperatorFound, OperatorAct, OperatorUnchanged,
     server, history
<1>4. CASE UNCHANGED vars
  BY <1>4 DEF vars, server, history
<1>5. ASSUME NEW c \in Client, NEW f \in Fd, AcceptReturn(c, f)
      PROVE  UNCHANGED <<m_next_id, m_clients, id, nickname, bore>>
  BY <1>5 DEF AcceptReturn, server
<1> QED
  BY <1>1, <1>2, <1>3, <1>4, <1>5 DEF Next

\* Registering, naming and removing a client keep the identities apart.
LEMMA IdentitiesStep ==
  ASSUME Inv, [Next]_vars
  PROVE  Identities'
<1>0. Typed /\ Identities /\ Told
  BY DEF Inv
<1>1. ASSUME NEW c \in Client, AcceptRegister(c) PROVE Identities'
  <2>1. /\ id' = [id EXCEPT ![c] = m_next_id] /\ m_next_id' = m_next_id + 1
        /\ m_clients' = m_clients \cup {c} /\ UNCHANGED <<nickname, bore>>
    BY <1>1 DEF AcceptRegister, NextId, history
  <2> QED
    BY <1>0, <2>1 DEF Typed, Identities
<1>2. ASSUME NEW c \in Client, HandleName(c) PROVE Identities'
  <2>1. /\ UNCHANGED <<m_next_id, m_clients, id>>
        /\ \/ UNCHANGED <<nickname, bore>>
           \/ /\ nickname' = [nickname EXCEPT ![c] = got[c].nick]
              /\ bore' = [bore EXCEPT ![c] = @ \cup {got[c].nick}]
    BY <1>2 DEF HandleName, HandlerGoto
  <2> QED
    BY <1>0, <2>1 DEF Typed, Identities
<1>3. ASSUME NEW c \in Client, HandlerRemove(c) PROVE Identities'
  <2>1. UNCHANGED <<m_next_id, id, nickname, bore>> /\ m_clients' = m_clients \ {c}
    BY <1>3 DEF HandlerRemove, HandlerGoto
  <2> QED
    BY <1>0, <2>1 DEF Identities
<1>4. CASE UNCHANGED <<m_next_id, m_clients, id, nickname, bore>>
  BY <1>0, <1>4 DEF Identities
<1> QED
  BY <1>1, <1>2, <1>3, <1>4, SessionsKept

-----------------------------------------------------------------------------
(* Types                                                                   *)

\* Closing numbers leaves a descriptor table.
LEMMA CloseTyped ==
  ASSUME Typed, NEW entries, Close(entries)
  PROVE  fdTable' \in [Fd -> Client \cup {Free}]
BY DEF Close, Typed

\* accept() keeps the types.
LEMMA AcceptTyped ==
  ASSUME Inv, NEW c \in Client, NEW f \in Fd, AcceptReturn(c, f)
  PROVE  Typed' /\ Scanning'
<1>0. Typed /\ Scanning
  BY DEF Inv
<1> QED
  BY <1>0 DEF AcceptReturn, server, handlers, locks, clients, Typed, Scanning

\* The handlers and accept_loop keep the types, and scan with the mutex.
LEMMA HandlerTyped ==
  ASSUME Inv, NEW c \in Client, AcceptRegister(c) \/ Handler(c)
  PROVE  Typed' /\ Scanning'
<1>0. Typed /\ Scanning /\ got \in [Client -> Requests]
  BY DEF Inv, Told
<1>1. CASE AcceptRegister(c)
  BY <1>0, <1>1 DEF AcceptRegister, NextId, history, locks, clients, Typed, Scanning
<1>2. CASE HandlerTest(c) \/ HandlerEnter(c) \/ HandlerRecv(c) \/ HandlerRecvFail(c)
  <2>1. Denotes(c) \in Client \cup {Free}
    BY <1>0 DEF Denotes, Typed
  <2>2. /\ rx' \in [Client -> Client \cup {Free}]
        /\ \E to \in {"remove", "enter", "recv", "dispatch"} : handlerPc' = [handlerPc EXCEPT ![c] = to]
        /\ UNCHANGED <<m_next_id, m_clients, id, nickname, sock, fdTable, accepted, crossed, mutex,
                       scan, order, kicked, status, typed, ordered, bore>>
    <3>1. rx' \in {rx, [rx EXCEPT ![c] = Denotes(c)], [rx EXCEPT ![c] = Free]}
      BY <1>2 DEF HandlerTest, HandlerEnter, HandlerRecv, HandlerRecvFail
    <3>2. rx' \in [Client -> Client \cup {Free}]
      BY <1>0, <2>1, <3>1 DEF Typed
    <3>3. \E to \in {"remove", "enter", "recv", "dispatch"} : handlerPc' = [handlerPc EXCEPT ![c] = to]
      BY <1>2 DEF HandlerTest, HandlerEnter, HandlerRecv, HandlerRecvFail, HandlerGoto
    <3> QED
      BY <1>2, <3>2, <3>3 DEF HandlerTest, HandlerEnter, HandlerRecv, HandlerRecvFail, HandlerGoto,
         locks, clients
  <2> QED
    BY <1>0, <2>2 DEF Typed, Scanning
<1>3. CASE HandleName(c)
  <2>1. got[c].nick \in Names
    BY <1>0 DEF Requests
  <2>2. /\ nickname' \in [Client -> Names] /\ bore' \in [Client -> SUBSET Names]
        /\ handlerPc' = [handlerPc EXCEPT ![c] = "list"]
        /\ UNCHANGED <<m_next_id, m_clients, id, sock, fdTable, accepted, rx, crossed, mutex, scan,
                       order, kicked, status, typed, ordered>>
    BY <1>0, <1>3, <2>1 DEF HandleName, HandlerGoto, locks, clients, Typed
  <2> QED
    BY <1>0, <2>2 DEF Typed, Scanning
<1>4. CASE HandlePrivate(c)
  BY <1>0, <1>4 DEF HandlePrivate, HandlerGoto, locks, clients, Typed, Scanning
<1>5. CASE ListBegin(c)
  BY <1>0, <1>5, NamesAssumption
  DEF ListBegin, ScanBegin, HandlerGoto, clients, Typed, Scanning
<1>6. CASE ScanRead(c)
  BY <1>0, <1>6 DEF ScanRead, server, sockets, handlers, clients, history, Typed, Scanning
<1>7. CASE ListSend(c)
  BY <1>0, <1>7 DEF ListSend, ScanEnd, NoScan, HandlerGoto, clients, Typed, Scanning
<1>8. CASE HandlerRemove(c)
  BY <1>0, <1>8, CloseTyped DEF HandlerRemove, MutexFree, HandlerGoto, locks, clients, Typed, Scanning
<1> QED
  BY <1>1, <1>2, <1>3, <1>4, <1>5, <1>6, <1>7, <1>8 DEF Handler

\* So does the operator's thread.
LEMMA ConsoleTyped ==
  ASSUME Inv, Console
  PROVE  Typed' /\ Scanning'
<1>0. Typed /\ Scanning /\ Told
  BY DEF Inv
<1>1. ASSUME NEW nick \in Nick, OperatorFind(nick) PROVE Typed' /\ Scanning'
  <2>1. /\ scan'.unread = m_clients /\ mutex' = Operator
        /\ order' = [op |-> "scan", nick |-> nick, id |-> 0]
        /\ ordered' = ordered + 1 /\ typed + ordered < MaxCommands
        /\ UNCHANGED <<m_next_id, m_clients, id, nickname, sock, fdTable, accepted, handlerPc, rx,
                       crossed, kicked, status, typed, bore>>
    BY <1>1 DEF OperatorFind, ScanBegin, OperatorUnchanged, server, handlers, clients
  <2>2. order' \in [op : {"none", "scan", "msgn", "kickn"}, nick : Names, id : Nat]
    BY <2>1 DEF Names
  <2>3. ordered' \in 0..MaxCommands
    BY <1>0, <2>1, NamesAssumption DEF Typed
  <2> QED
    BY <1>0, <2>1, <2>2, <2>3, NamesAssumption DEF Typed, Scanning
<1>2. CASE ScanRead(Operator)
  BY <1>0, <1>2 DEF ScanRead, server, sockets, handlers, clients, history, Typed, Scanning
<1>3. ASSUME NEW op \in {"msgn", "kickn"}, OperatorFound(op) PROVE Typed' /\ Scanning'
  <2>1. /\ scan'.unread = {} /\ mutex' = Free
        /\ UNCHANGED <<m_next_id, m_clients, id, nickname, sock, fdTable, accepted, handlerPc, rx,
                       crossed, kicked, status, typed, ordered, bore>>
    BY <1>3 DEF OperatorFound, ScanEnd, NoScan, OperatorUnchanged, server, handlers, clients
  <2>2. order' \in [op : {"none", "scan", "msgn", "kickn"}, nick : Names, id : Nat]
    <3>1. CASE Found(scan.read, order.nick) = {}
      BY <1>3, <3>1 DEF OperatorFound, NoOrder, Names
    <3>2. CASE Found(scan.read, order.nick) # {}
      <4>1. Min(Found(scan.read, order.nick)) \in Nat
        BY <1>0, <3>2, FoundIsEntry DEF Told, Entries, Entry
      <4> QED
        BY <1>0, <1>3, <3>2, <4>1 DEF OperatorFound, Typed
    <3> QED
      BY <3>1, <3>2
  <2> QED
    BY <1>0, <2>1, <2>2 DEF Typed, Scanning
<1>4. CASE OperatorAct
  <2>1. /\ order' = NoOrder /\ kicked' \in SUBSET Client
        /\ fdTable' \in [Fd -> Client \cup {Free}]
        /\ UNCHANGED <<m_next_id, m_clients, id, nickname, sock, accepted, handlerPc, rx, crossed,
                       mutex, scan, status, typed, ordered, bore>>
    BY <1>0, <1>4, CloseTyped DEF OperatorAct, WithId, OperatorUnchanged, server, handlers, clients, locks, Typed
  <2>2. NoOrder \in [op : {"none", "scan", "msgn", "kickn"}, nick : Names, id : Nat]
    BY DEF NoOrder, Names
  <2> QED
    BY <1>0, <2>1, <2>2 DEF Typed, Scanning
<1> QED
  BY <1>1, <1>2, <1>3, <1>4 DEF Console

\* So do the clients.
LEMMA ClientTyped ==
  ASSUME Inv, NEW c \in Client, User(c) \/ Receive(c)
  PROVE  Typed' /\ Scanning'
<1>0. Typed /\ Scanning
  BY DEF Inv
<1>1. /\ UNCHANGED <<m_next_id, m_clients, id, nickname, sock, fdTable, accepted, handlerPc, rx,
                     crossed, mutex, scan, order, ordered, kicked, bore>>
      /\ status' \in [Client -> {"off", "up", "gone"}]
      /\ typed' = typed \/ (typed' = typed + 1 /\ typed + ordered < MaxCommands)
  BY <1>0 DEF User, Connect, Type, TypeNick, TypeMsgn, TypeList, Quit, Ends, Receive,
     ReceiveKick, Dropped, ReceiveOther, ClientUnchanged, server, sockets, handlers, locks, Typed
<1>2. typed' \in 0..MaxCommands
  BY <1>0, <1>1, NamesAssumption DEF Typed
<1> QED
  BY <1>0, <1>1, <1>2 DEF Typed, Scanning

\* Every step keeps the types.
LEMMA TypedStep ==
  ASSUME Inv, [Next]_vars
  PROVE  Typed' /\ Scanning'
<1>1. CASE UNCHANGED vars
  BY <1>1 DEF Inv, vars, server, sockets, handlers, locks, clients, history, Typed, Scanning
<1> QED
  BY <1>1, AcceptTyped, HandlerTyped, ConsoleTyped, ClientTyped DEF Next

-----------------------------------------------------------------------------
(* What is told                                                            *)

\* An order that does not change rests on a claim that stays true.
LEMMA OrderKept ==
  ASSUME Inv, [Next]_vars, order' = order
  PROVE  /\ order'.op \in {"msgn", "kickn"} => Claim(order.id, order.nick)'
         /\ order'.op # "none" => order'.nick \in Nick
<1>1. PICK n, nick : n = order.id /\ nick = order.nick
  OBVIOUS
<1>2. /\ n \in Nat
      /\ order.op \in {"msgn", "kickn"} => Claim(n, nick)
      /\ order.op # "none" => nick \in Nick
  BY <1>1 DEF Inv, Typed, Told
<1>3. Claim(n, nick) => Claim(n, nick)'
  BY <1>2, ClaimsKept
<1>4. Claim(n, nick)' => Claim(order.id, order.nick)'
  BY <1>1 DEF Claim
<1> QED
  BY <1>1, <1>2, <1>3, <1>4

\* Delivering packets of a kind keeps the streams to that kind.
LEMMA Delivered ==
  ASSUME NEW I, NEW to, NEW packet \in I, down \in [Client -> Seq(I)], Deliver(to, packet)
  PROVE  down' \in [Client -> Seq(I)]
BY DEF Deliver

\* Messages and other packets without a list tell nothing.
LEMMA NothingTold ==
  /\ Info("PRIVATE", {}) \in Infos' /\ Info("KICK", {}) \in Infos'
  /\ NoPacket \in Requests'
BY DEF Info, Infos, NoPacket, Packet, Requests, RequestTypes, Names

\* The handlers and accept_loop tell what is true.
LEMMA HandlerTold ==
  ASSUME Inv, [Next]_vars, NEW c \in Client,
         AcceptRegister(c) \/ Handler(c) \/ \E f \in Fd : AcceptReturn(c, f)
  PROVE  Told'
<1>0. Typed /\ Identities /\ Scanning /\ Told
  BY DEF Inv
<1>1. PICK E, R, I : E = Entries' /\ R = Requests' /\ I = Infos'
  OBVIOUS
<1>2. /\ up \in [Client -> Seq(R)] /\ got \in [Client -> R] /\ down \in [Client -> Seq(I)]
      /\ peers \in [Client -> SUBSET E] /\ scan.read \in SUBSET E
      /\ NoPacket \in R /\ Info("PRIVATE", {}) \in I
  BY <1>1, ToldKept, NothingTold
<1>3. order' = order /\ peers' = peers
  BY DEF AcceptReturn, AcceptRegister, Handler, HandlerTest, HandlerEnter, HandlerRecv,
     HandlerRecvFail, HandleName, HandlePrivate, ListBegin, ScanRead, ListSend, HandlerRemove,
     HandlerGoto, clients
<1>4. /\ up' \in [Client -> Seq(R)] /\ got' \in [Client -> R]
      /\ down' \in [Client -> Seq(I)] /\ scan'.read \in SUBSET E
  <2>1. CASE AcceptRegister(c) \/ \E f \in Fd : AcceptReturn(c, f)
    BY <1>2, <2>1 DEF AcceptRegister, AcceptReturn, handlers, locks
  <2>2. CASE HandlerRecv(c)
    <3>0. rx[c] \in Client
      BY <1>0, <2>2 DEF HandlerRecv, Typed
    <3>1. up[rx[c]] \in Seq(R) /\ up[rx[c]] # <<>>
      BY <1>2, <2>2, <3>0 DEF HandlerRecv
    <3>2. Head(up[rx[c]]) \in R /\ Tail(up[rx[c]]) \in Seq(R)
      BY <3>1
    <3> QED
      BY <1>2, <2>2, <3>2 DEF HandlerRecv, locks
  <2>3. CASE HandlerTest(c) \/ HandlerEnter(c) \/ HandlerRecvFail(c) \/ HandleName(c) \/ HandlerRemove(c)
    BY <1>2, <2>3 DEF HandlerTest, HandlerEnter, HandlerRecvFail, HandleName, HandlerRemove, locks
  <2>4. CASE HandlePrivate(c)
    <3>1. down' \in [Client -> Seq(I)]
      BY <1>2, <2>4, Delivered DEF HandlePrivate
    <3> QED
      BY <1>2, <2>4, <3>1 DEF HandlePrivate, Handled, locks
  <2>5. CASE ListBegin(c)
    BY <1>2, <2>5 DEF ListBegin, ScanBegin
  <2>6. CASE ScanRead(c)
    <3>1. PICK d \in scan.unread : scan'.read = scan.read \cup {<<id[d], nickname[d]>>}
      BY <1>0, <2>6, NextIsUnread DEF ScanRead
    <3>2. <<id[d], nickname[d]>> \in Entries
      BY <1>0, <3>1 DEF Typed, Identities, Entries, Entry, Claim, Names
    <3>3. <<id[d], nickname[d]>> \in E
      BY <1>1, <3>2, ClaimsKept
    <3> QED
      BY <1>2, <2>6, <3>1, <3>3 DEF ScanRead, handlers
  <2>7. CASE ListSend(c)
    <3>1. Info("LIST", scan.read) \in I
      BY <1>1, <1>2 DEF Info, Infos
    <3>2. down' \in [Client -> Seq(I)]
      BY <1>2, <2>7, <3>1, Delivered DEF ListSend
    <3> QED
      BY <1>2, <2>7, <3>2 DEF ListSend, ScanEnd, NoScan, Handled
  <2> QED
    BY <2>1, <2>2, <2>3, <2>4, <2>5, <2>6, <2>7 DEF Handler
<1> QED
  BY <1>1, <1>2, <1>3, <1>4, OrderKept DEF Told

\* So does the operator's thread.
LEMMA ConsoleTold ==
  ASSUME Inv, [Next]_vars, Console
  PROVE  Told'
<1>0. Typed /\ Identities /\ Scanning /\ Told
  BY DEF Inv
<1>1. PICK E, R, I : E = Entries' /\ R = Requests' /\ I = Infos'
  OBVIOUS
<1>2. /\ up \in [Client -> Seq(R)] /\ got \in [Client -> R] /\ down \in [Client -> Seq(I)]
      /\ peers \in [Client -> SUBSET E] /\ scan.read \in SUBSET E
      /\ Info("PRIVATE", {}) \in I /\ Info("KICK", {}) \in I
  BY <1>1, ToldKept, NothingTold
<1>3. up' = up /\ got' = got /\ peers' = peers
  BY DEF Console, OperatorFind, ScanRead, OperatorFound, OperatorAct, OperatorUnchanged,
     handlers, clients
<1> DEFINE Goal == /\ down' \in [Client -> Seq(I)] /\ scan'.read \in SUBSET E
                   /\ order'.op \in {"msgn", "kickn"} => Claim(order.id, order.nick)'
                   /\ order'.op # "none" => order'.nick \in Nick
<1>4. Goal
  <2>1. ASSUME NEW nick \in Nick, OperatorFind(nick) PROVE Goal
    BY <1>2, <2>1 DEF OperatorFind, ScanBegin
  <2>2. CASE ScanRead(Operator)
    <3>1. PICK d \in scan.unread : scan'.read = scan.read \cup {<<id[d], nickname[d]>>}
      BY <1>0, <2>2, NextIsUnread DEF ScanRead
    <3>2. <<id[d], nickname[d]>> \in Entries
      BY <1>0, <3>1 DEF Typed, Identities, Entries, Entry, Claim, Names
    <3>3. <<id[d], nickname[d]>> \in E
      BY <1>1, <3>2, ClaimsKept
    <3>4. order' = order /\ down' = down
      BY <2>2 DEF ScanRead
    <3> QED
      BY <1>2, <3>1, <3>3, <3>4, OrderKept
  <2>3. ASSUME NEW op \in {"msgn", "kickn"}, OperatorFound(op) PROVE Goal
    <3>1. scan'.read = {} /\ down' = down /\ order.op = "scan" /\ order.nick \in Nick
      BY <1>0, <2>3 DEF OperatorFound, ScanEnd, NoScan, Told
    <3>2. CASE Found(scan.read, order.nick) = {}
      BY <1>2, <2>3, <3>1, <3>2 DEF OperatorFound, NoOrder
    <3>3. CASE Found(scan.read, order.nick) # {}
      <4>1. PICK n, nick : n = Min(Found(scan.read, order.nick)) /\ nick = order.nick
        OBVIOUS
      <4>2. n \in Nat /\ Claim(n, nick)
        <5>1. <<n, nick>> \in Entries
          BY <1>0, <3>3, <4>1, FoundIsEntry DEF Told
        <5> QED
          BY <5>1 DEF Entries, Entry
      <4>3. Claim(n, nick)'
        BY <4>2, ClaimsKept
      <4>4. order'.id = n /\ order'.nick = nick
        BY <1>0, <2>3, <3>3, <4>1 DEF OperatorFound, Typed
      <4>5. Claim(order.id, order.nick)'
        BY <4>3, <4>4 DEF Claim
      <4> QED
        BY <1>2, <3>1, <4>1, <4>4, <4>5
    <3> QED
      BY <3>2, <3>3
  <2>4. CASE OperatorAct
    <3>1. down' \in [Client -> Seq(I)]
      BY <1>2, <2>4, Delivered DEF OperatorAct
    <3> QED
      BY <1>2, <2>4, <3>1 DEF OperatorAct, NoOrder, locks
  <2> QED
    BY <2>1, <2>2, <2>3, <2>4 DEF Console
<1> QED
  BY <1>1, <1>2, <1>3, <1>4 DEF Told

\* And the clients: what they ask for is what they were told.
LEMMA ClientTold ==
  ASSUME Inv, [Next]_vars, NEW c \in Client, User(c) \/ Receive(c)
  PROVE  Told'
<1>0. Typed /\ Told
  BY DEF Inv
<1>1. PICK E, R, I : E = Entries' /\ R = Requests' /\ I = Infos'
  OBVIOUS
<1>2. /\ up \in [Client -> Seq(R)] /\ got \in [Client -> R] /\ down \in [Client -> Seq(I)]
      /\ peers \in [Client -> SUBSET E] /\ scan.read \in SUBSET E
  BY <1>1, ToldKept
<1>3. got' = got /\ scan' = scan /\ order' = order
  BY DEF User, Connect, Type, TypeNick, TypeMsgn, TypeList, Quit, Ends, Receive, ReceiveKick, Dropped,
     ReceiveOther, ClientUnchanged, handlers, locks
<1> DEFINE Goal == /\ up' \in [Client -> Seq(R)] /\ down' \in [Client -> Seq(I)]
                   /\ peers' \in [Client -> SUBSET E]
<1>4. Goal
  <2>0. ASSUME NEW p \in R, Send(c, p) PROVE up' \in [Client -> Seq(R)]
    BY <1>2, <2>0 DEF Send
  <2>1. CASE Connect(c)
    <3>1. Packet("CONNECT", Configured[c], 0) \in R
      BY <1>1, NamesAssumption DEF Packet, Requests, RequestTypes, Names
    <3>2. up' \in [Client -> Seq(R)]
      BY <2>0, <2>1, <3>1 DEF Connect
    <3> QED
      BY <1>2, <2>1, <3>2 DEF Connect
  <2>2. ASSUME NEW nick \in Nick, TypeNick(c, nick) PROVE Goal
    <3>1. Packet("NICK_SET", nick, 0) \in R
      BY <1>1 DEF Packet, Requests, RequestTypes, Names
    <3>2. up' \in [Client -> Seq(R)]
      BY <2>0, <2>2, <3>1 DEF TypeNick
    <3> QED
      BY <1>2, <2>2, <3>2 DEF TypeNick, Type
  <2>3. ASSUME NEW nick \in Nick, TypeMsgn(c, nick) PROVE Goal
    <3>1. <<Min(Found(peers[c], nick)), nick>> \in Entries
      BY <1>0, <2>3, FoundIsEntry DEF Told, TypeMsgn
    <3>2. Packet("PRIVATE", nick, Min(Found(peers[c], nick))) \in Requests
      BY <3>1 DEF Packet, Requests, RequestTypes, Entries, Entry, Names
    <3>3. Packet("PRIVATE", nick, Min(Found(peers[c], nick))) \in R
      BY <1>1, <3>2, ClaimsKept
    <3>4. up' \in [Client -> Seq(R)]
      BY <2>0, <2>3, <3>3 DEF TypeMsgn
    <3> QED
      BY <1>2, <2>3, <3>4 DEF TypeMsgn, Type
  <2>4. CASE TypeList(c)
    <3>1. Packet("CLIENT_LIST", Default, 0) \in R
      BY <1>1 DEF Packet, Requests, RequestTypes, Names
    <3>2. up' \in [Client -> Seq(R)]
      BY <2>0, <2>4, <3>1 DEF TypeList
    <3> QED
      BY <1>2, <2>4, <3>2 DEF TypeList, Type
  <2>5. CASE Quit(c) \/ ReceiveKick(c) \/ Dropped(c)
    <3>1. /\ up' = up /\ down' = [down EXCEPT ![c] = <<>>] /\ peers' = [peers EXCEPT ![c] = {}]
      BY <2>5 DEF Quit, ReceiveKick, Dropped, Ends
    <3>2. <<>> \in Seq(I) /\ {} \in SUBSET E
      OBVIOUS
    <3> QED
      BY <1>2, <3>1, <3>2
  <2>6. CASE ReceiveOther(c)
    <3>1. down[c] \in Seq(I) /\ down[c] # <<>>
      BY <1>2, <2>6 DEF ReceiveOther
    <3>2. Head(down[c]) \in I /\ Tail(down[c]) \in Seq(I)
      BY <3>1
    <3>3. Head(down[c]).list \in SUBSET E
      BY <1>1, <3>2 DEF Infos
    <3> QED
      BY <1>2, <2>6, <3>2, <3>3 DEF ReceiveOther
  <2> QED
    BY <2>1, <2>2, <2>3, <2>4, <2>5, <2>6 DEF User, Receive
<1> QED
  BY <1>1, <1>2, <1>3, <1>4, OrderKept DEF Told

\* Every step tells only what is, or was, true.
LEMMA ToldStep ==
  ASSUME Inv, [Next]_vars
  PROVE  Told'
<1>1. CASE UNCHANGED vars
  <2>1. UNCHANGED <<up, got, down, peers, scan, order>>
    BY <1>1 DEF vars, handlers, clients, locks
  <2> QED
    BY <2>1, ToldKept, OrderKept DEF Told
<1> QED
  BY <1>1, HandlerTold, ConsoleTold, ClientTold DEF Next

-----------------------------------------------------------------------------
(* Threads                                                                 *)

\* What a step says of a thread: its place, its packet, the mutex and the scan.
LEMMA ThreadsStep ==
  ASSUME Inv, [Next]_vars
  PROVE  Threads'
<1>0. Typed /\ Threads
  BY DEF Inv
<1>1. ASSUME NEW c \in Client, AcceptRegister(c) PROVE Threads'
  <2>1. /\ handlerPc[c] = "none" /\ handlerPc' = [handlerPc EXCEPT ![c] = "loop"]
        /\ m_clients' = m_clients \cup {c} /\ UNCHANGED <<got, mutex, scan>>
    BY <1>1 DEF AcceptRegister, locks, Inv, Descriptors
  <2> QED
    BY <1>0, <2>1 DEF Threads, Typed
<1>2. ASSUME NEW c \in Client, HandlerRecv(c) PROVE Threads'
  <2>1. /\ handlerPc[c] = "recv" /\ handlerPc' = [handlerPc EXCEPT ![c] = "dispatch"]
        /\ got' = [got EXCEPT ![c] = Head(up[rx[c]])] /\ UNCHANGED <<m_clients, mutex, scan>>
    BY <1>2 DEF HandlerRecv, HandlerGoto, locks
  <2> QED
    BY <1>0, <2>1 DEF Threads, Typed
<1>3. ASSUME NEW c \in Client, HandlerTest(c) \/ HandlerEnter(c) \/ HandlerRecvFail(c) PROVE Threads'
  <2>1. /\ handlerPc[c] \in {"loop", "enter", "recv"}
        /\ \E to \in {"enter", "recv", "remove"} : handlerPc' = [handlerPc EXCEPT ![c] = to]
        /\ UNCHANGED <<got, m_clients, mutex, scan>>
    BY <1>3 DEF HandlerTest, HandlerEnter, HandlerRecvFail, HandlerGoto, locks
  <2> QED
    BY <1>0, <2>1 DEF Threads, Typed
<1>4. ASSUME NEW c \in Client, HandleName(c) PROVE Threads'
  <2>1. /\ handlerPc[c] = "dispatch" /\ handlerPc' = [handlerPc EXCEPT ![c] = "list"]
        /\ UNCHANGED <<got, m_clients, mutex, scan>>
    BY <1>4 DEF HandleName, HandlerGoto, locks
  <2> QED
    BY <1>0, <2>1 DEF Threads, Typed
<1>5. ASSUME NEW c \in Client, HandlePrivate(c) PROVE Threads'
  <2>1. /\ handlerPc[c] = "dispatch" /\ handlerPc' = [handlerPc EXCEPT ![c] = "loop"]
        /\ got' = [got EXCEPT ![c] = NoPacket] /\ UNCHANGED <<m_clients, mutex, scan>>
    BY <1>5 DEF HandlePrivate, HandlerGoto, Handled, locks
  <2> QED
    BY <1>0, <2>1 DEF Threads, Typed, NoPacket, Packet, Inv, Told
<1>6. ASSUME NEW c \in Client, ListBegin(c) PROVE Threads'
  <2>1. /\ handlerPc[c] = "list" /\ handlerPc' = [handlerPc EXCEPT ![c] = "listing"]
        /\ mutex = Free /\ mutex' = c /\ UNCHANGED <<got, m_clients>>
    BY <1>6 DEF ListBegin, HandlerGoto, ScanBegin, MutexFree
  <2> QED
    BY <1>0, <2>1, NamesAssumption DEF Threads, Typed
<1>7. ASSUME NEW t, ScanRead(t), t # Free PROVE Threads'
  <2>1. mutex' # Free /\ UNCHANGED <<handlerPc, got, m_clients, mutex>>
    BY <1>7 DEF ScanRead, server, handlers
  <2> QED
    BY <1>0, <2>1 DEF Threads
<1>8. ASSUME NEW c \in Client, ListSend(c) PROVE Threads'
  <2>1. /\ handlerPc[c] = "listing" /\ handlerPc' = [handlerPc EXCEPT ![c] = "loop"]
        /\ mutex = c /\ mutex' = Free /\ scan' = NoScan
        /\ got' = [got EXCEPT ![c] = NoPacket] /\ UNCHANGED m_clients
    BY <1>8 DEF ListSend, HandlerGoto, ScanEnd, Handled
  <2> QED
    BY <1>0, <2>1, NamesAssumption DEF Threads, Typed, NoPacket, Packet, Inv, Told
<1>9. ASSUME NEW c \in Client, HandlerRemove(c) PROVE Threads'
  <2>1. /\ handlerPc[c] = "remove" /\ handlerPc' = [handlerPc EXCEPT ![c] = "done"]
        /\ m_clients' = m_clients \ {c} /\ UNCHANGED <<got, mutex, scan>>
    BY <1>9 DEF HandlerRemove, HandlerGoto, locks
  <2> QED
    BY <1>0, <2>1 DEF Threads, Typed
<1>10. CASE Console
  <2>1. ASSUME NEW nick \in Nick, OperatorFind(nick) PROVE Threads'
    <3>1. mutex = Free /\ mutex' = Operator /\ UNCHANGED <<handlerPc, got, m_clients>>
      BY <2>1 DEF OperatorFind, ScanBegin, MutexFree, OperatorUnchanged, handlers, server
    <3> QED
      BY <1>0, <3>1, NamesAssumption DEF Threads
  <2>2. CASE ScanRead(Operator)
    BY <1>7, <2>2, NamesAssumption
  <2>3. ASSUME NEW op, OperatorFound(op) PROVE Threads'
    <3>1. /\ mutex = Operator /\ mutex' = Free /\ scan' = NoScan
          /\ UNCHANGED <<handlerPc, got, m_clients>>
      BY <2>3 DEF OperatorFound, ScanEnd, OperatorUnchanged, handlers, server
    <3> QED
      BY <1>0, <3>1, NamesAssumption DEF Threads
  <2>4. CASE OperatorAct
    BY <1>0, <2>4 DEF OperatorAct, OperatorUnchanged, handlers, server, locks, Threads
  <2> QED
    BY <1>10, <2>1, <2>2, <2>3, <2>4 DEF Console
<1>11. ASSUME NEW c \in Client, User(c) \/ Receive(c) PROVE Threads'
  <2>1. UNCHANGED <<handlerPc, got, m_clients, mutex, scan>>
    BY <1>11 DEF User, Connect, Type, TypeNick, TypeMsgn, TypeList, Quit, Ends, Receive,
       ReceiveKick, Dropped, ReceiveOther, ClientUnchanged, server, handlers, locks
  <2> QED
    BY <1>0, <2>1 DEF Threads
<1>12. CASE UNCHANGED vars
  BY <1>0, <1>12 DEF vars, server, handlers, locks, Threads
<1>13. ASSUME NEW c \in Client, NEW f \in Fd, AcceptReturn(c, f) PROVE Threads'
  BY <1>0, <1>13 DEF AcceptReturn, server, handlers, locks, Threads
<1> QED
  BY <1>1, <1>2, <1>3, <1>4, <1>5, <1>6, <1>7, <1>8, <1>9, <1>10, <1>11, <1>12, <1>13, NamesAssumption
  DEF Next, Handler

-----------------------------------------------------------------------------
(* Descriptors                                                             *)

\* The number in an entry denotes the entry's own connection, or nothing, or
\* that of a newcomer that got it from a kicked client.
LEMMA OwnOrCrossed ==
  ASSUME Inv, NEW e \in m_clients
  PROVE  /\ Denotes(e) \in Client => Denotes(e) = e \/ (Denotes(e) \in crossed /\ ~ Clean(e))
         /\ Clean(e) => Denotes(e) = e
         /\ e \in Client /\ sock[e] \in Fd
<1>0. Typed /\ Threads /\ Descriptors
  BY DEF Inv
<1>1. e \in Client /\ handlerPc[e] # "none"
  BY <1>0 DEF Typed, Threads
<1>2. sock[e] \in Fd /\ Denotes(e) = fdTable[sock[e]]
  BY <1>0, <1>1 DEF Descriptors, Denotes
<1>3. Clean(e) => Denotes(e) = e
  BY <1>0, <1>1, <1>2 DEF Descriptors
<1>4. ASSUME NEW c \in Client, Denotes(e) = c, c # e PROVE c \in crossed
  <2>1. PICK f \in Fd : f = sock[e] /\ fdTable[f] = c
    BY <1>2, <1>4
  <2>2. sock[c] = f /\ c \in m_clients \cup {accepted}
    BY <1>0, <2>1 DEF Descriptors
  <2>3. c \notin kicked
    BY <1>0, <2>1 DEF Descriptors
  <2>4. Clean(c) => e = c
    BY <1>0, <1>1, <2>1, <2>2 DEF Descriptors
  <2> QED
    BY <1>4, <2>3, <2>4 DEF Clean
<1> QED
  BY <1>1, <1>2, <1>3, <1>4

\* Steps that leave the numbers, the map and the reads alone.
Quiet ==
    /\ UNCHANGED <<m_clients, sock, fdTable, accepted, rx, kicked, crossed>>
    /\ \A c \in Client : handlerPc'[c] = "none" <=> handlerPc[c] = "none"
    /\ \A c \in Client : status'[c] = "off" => status[c] = "off"

LEMMA OthersQuiet ==
  ASSUME Inv, [Next]_vars,
         ~ \E c \in Client : \/ AcceptRegister(c) \/ HandlerEnter(c) \/ HandlerRecv(c)
                             \/ HandlerRecvFail(c) \/ HandlerRemove(c)
                             \/ \E f \in Fd : AcceptReturn(c, f),
         ~ OperatorAct
  PROVE  Quiet
<1>0. /\ handlerPc \in [Client -> {"none", "loop", "enter", "recv", "dispatch", "list", "listing",
                                  "remove", "done"}]
      /\ status \in [Client -> {"off", "up", "gone"}]
  BY DEF Inv, Typed
<1>1. ASSUME NEW c \in Client, HandlerTest(c) \/ HandleName(c) \/ HandlePrivate(c) \/ ListBegin(c)
                               \/ ListSend(c)
      PROVE  Quiet
  <2>1. /\ UNCHANGED <<m_clients, sock, fdTable, accepted, rx, kicked, crossed, status>>
        /\ handlerPc[c] # "none"
        /\ \E to \in {"remove", "enter", "list", "loop", "listing"} :
              handlerPc' = [handlerPc EXCEPT ![c] = to]
    BY <1>1 DEF HandlerTest, HandleName, HandlePrivate, ListBegin, ListSend, HandlerGoto, clients
  <2> QED
    BY <1>0, <2>1 DEF Quiet
<1>2. ASSUME NEW t, ScanRead(t) PROVE Quiet
  BY <1>2 DEF ScanRead, server, sockets, handlers, clients, history, Quiet
<1>3. ASSUME NEW c \in Client, User(c) \/ Receive(c) PROVE Quiet
  BY <1>0, <1>3 DEF User, Connect, Type, TypeNick, TypeMsgn, TypeList, Quit, Ends, Receive, ReceiveKick,
     Dropped, ReceiveOther, ClientUnchanged, server, sockets, handlers, Quiet
<1>4. ASSUME NEW nick \in Nick, OperatorFind(nick) PROVE Quiet
  BY <1>4 DEF OperatorFind, OperatorUnchanged, server, handlers, clients, Quiet
<1>5. ASSUME NEW op, OperatorFound(op) PROVE Quiet
  BY <1>5 DEF OperatorFound, OperatorUnchanged, server, handlers, clients, Quiet
<1>6. CASE UNCHANGED vars
  BY <1>6 DEF vars, server, sockets, handlers, clients, history, Quiet
<1> QED
  BY <1>1, <1>2, <1>3, <1>4, <1>5, <1>6 DEF Next, Handler, Console

\* Numbers are given to connections, closed and reused as Descriptors says.
LEMMA DescriptorsStep ==
  ASSUME Inv, [Next]_vars
  PROVE  Descriptors'
<1>0. Typed /\ Threads /\ Descriptors
  BY DEF Inv
<1>1. ASSUME NEW c \in Client, NEW f \in Fd, AcceptReturn(c, f) PROVE Descriptors'
  <2>1. /\ sock[c] = Free /\ fdTable[f] = Free /\ accepted = Free /\ accepted' = c
        /\ sock' = [sock EXCEPT ![c] = f] /\ fdTable' = [fdTable EXCEPT ![f] = c]
        /\ crossed \subseteq crossed' /\ crossed' \subseteq crossed \cup {c}
        /\ (\E e \in m_clients : sock[e] = f) => c \in crossed'
        /\ UNCHANGED <<m_clients, handlerPc, rx, kicked, status>> /\ status[c] # "off"
    BY <1>1 DEF AcceptReturn, server, handlers, clients
  <2>2. handlerPc[c] = "none" /\ c \notin m_clients /\ c \notin kicked
    BY <1>0, <2>1, NamesAssumption DEF Descriptors, Threads
  <2>3. \A d \in Client : Clean(d)' => Clean(d)
    BY <2>1 DEF Clean
  <2>4. ASSUME NEW g \in Fd, fdTable'[g] \in Client
        PROVE  sock'[fdTable'[g]] = g /\ fdTable'[g] \in m_clients' \cup {accepted'}
    <3>1. CASE g = f
      BY <1>0, <2>1, <3>1 DEF Typed
    <3>2. CASE g # f
      <4>1. fdTable'[g] = fdTable[g] /\ sock[fdTable[g]] = g /\ fdTable[g] \in m_clients
        BY <1>0, <2>1, <2>4, <3>2, NamesAssumption DEF Typed, Descriptors
      <4> QED
        BY <1>0, <2>1, <2>2, <4>1 DEF Typed
    <3> QED
      BY <3>1, <3>2
  <2>5. ASSUME NEW d \in Client, Clean(d)', d \in m_clients' \cup {accepted'}
        PROVE  /\ fdTable'[sock'[d]] = d
               /\ \A e \in Client : e \in m_clients' \cup {accepted'} /\ sock'[e] = sock'[d] => e = d
    <3>1. CASE d = c
      <4>1. \A e \in m_clients : sock[e] # f
        BY <2>1, <2>5, <3>1 DEF Clean
      <4> QED
        BY <1>0, <2>1, <2>2, <3>1, <4>1 DEF Typed
    <3>2. CASE d # c
      <4>1. d \in m_clients /\ Clean(d)
        BY <2>1, <2>3, <2>5, <3>2
      <4>2. /\ sock[d] \in Fd /\ fdTable[sock[d]] = d
            /\ \A e \in m_clients : sock[e] = sock[d] => e = d
        BY <1>0, <4>1 DEF Descriptors, Threads, Typed
      <4>3. sock[d] # f
        BY <2>1, <4>2, NamesAssumption
      <4> QED
        BY <1>0, <2>1, <2>2, <3>2, <4>2, <4>3 DEF Typed
    <3> QED
      BY <3>1, <3>2
  <2>6. \A k \in kicked' : handlerPc'[k] # "none" /\ \A g \in Fd : fdTable'[g] # k
    BY <1>0, <2>1, <2>2 DEF Descriptors, Typed
  <2>7. \A k \in Client : rx'[k] \in Client /\ rx'[k] # k => rx'[k] \in crossed' /\ ~ Clean(k)'
    BY <1>0, <2>1, <2>3 DEF Descriptors
  <2>8. /\ accepted' \in Client =>
              handlerPc'[accepted'] = "none" /\ sock'[accepted'] \in Fd /\ status'[accepted'] # "off"
        /\ \A d \in Client : handlerPc'[d] # "none" => sock'[d] \in Fd
    BY <1>0, <2>1, <2>2 DEF Descriptors, Typed
  <2> QED
    BY <2>4, <2>5, <2>6, <2>7, <2>8 DEF Descriptors
<1>2. ASSUME NEW c \in Client, AcceptRegister(c) PROVE Descriptors'
  <2>1. /\ accepted = c /\ accepted' = Free /\ m_clients' = m_clients \cup {c}
        /\ handlerPc' = [handlerPc EXCEPT ![c] = "loop"]
        /\ UNCHANGED <<sock, fdTable, rx, kicked, crossed>>
    BY <1>2 DEF AcceptRegister, history
  <2>2. \A d \in Client : Clean(d)' <=> Clean(d)
    BY <2>1 DEF Clean
  <2>3. m_clients' \cup {accepted'} = m_clients \cup {c, Free} /\ Free \notin Client
    BY <2>1, NamesAssumption
  <2> QED
    BY <1>0, <2>1, <2>2, <2>3 DEF Descriptors, Typed
<1>3. ASSUME NEW c \in Client, HandlerEnter(c) \/ HandlerRecv(c) \/ HandlerRecvFail(c)
      PROVE  Descriptors'
  <2>1. /\ rx' = [rx EXCEPT ![c] = Denotes(c)] \/ rx' = [rx EXCEPT ![c] = Free]
        /\ handlerPc[c] \in {"enter", "recv"}
        /\ \E to \in {"recv", "dispatch", "remove"} : handlerPc' = [handlerPc EXCEPT ![c] = to]
        /\ UNCHANGED <<m_clients, sock, fdTable, accepted, kicked, crossed, status>>
    BY <1>3 DEF HandlerEnter, HandlerRecv, HandlerRecvFail, HandlerGoto, clients
  <2>2. \A d \in Client : Clean(d)' <=> Clean(d)
    BY <2>1 DEF Clean
  <2>3. c \in m_clients
    BY <1>0, <2>1 DEF Threads
  <2>4. \A k \in Client : rx'[k] \in Client /\ rx'[k] # k => rx'[k] \in crossed /\ ~ Clean(k)
    <3> SUFFICES ASSUME NEW k \in Client, rx'[k] \in Client, rx'[k] # k
                 PROVE  rx'[k] \in crossed /\ ~ Clean(k)
      OBVIOUS
    <3>1. CASE k = c
      BY <1>0, <2>1, <2>3, <3>1, OwnOrCrossed, NamesAssumption DEF Typed
    <3>2. CASE k # c
      BY <1>0, <2>1, <3>2 DEF Typed, Descriptors
    <3> QED
      BY <3>1, <3>2
  <2>5. \A d \in Client : handlerPc'[d] = "none" <=> handlerPc[d] = "none"
    BY <1>0, <2>1 DEF Typed
  <2>6. /\ accepted' \in Client =>
              handlerPc'[accepted'] = "none" /\ sock'[accepted'] \in Fd /\ status'[accepted'] # "off"
        /\ \A d \in Client : handlerPc'[d] # "none" => sock'[d] \in Fd
        /\ \A d \in kicked' : handlerPc'[d] # "none" /\ \A f \in Fd : fdTable'[f] # d
    BY <1>0, <2>1, <2>5 DEF Descriptors, Typed
  <2> QED
    BY <1>0, <2>1, <2>2, <2>4, <2>6 DEF Descriptors
<1>4. ASSUME NEW gone \in SUBSET m_clients, Close(gone),
             \/ m_clients' = m_clients \ gone /\ kicked' = kicked
             \/ m_clients' = m_clients /\ kicked' = kicked \cup gone,
             UNCHANGED <<sock, accepted, rx, crossed, status>>,
             \A c \in Client : handlerPc'[c] = "none" <=> handlerPc[c] = "none"
      PROVE  Descriptors'
  <2>1. /\ \A f \in Fd : fdTable'[f] = fdTable[f] \/ fdTable'[f] = Free
        /\ \A f \in Fd : (\E c \in gone : sock[c] = f) => fdTable'[f] = Free
        /\ \A f \in Fd : (\A c \in gone : sock[c] # f) => fdTable'[f] = fdTable[f]
        /\ m_clients' \subseteq m_clients /\ kicked \subseteq kicked' /\ Free \notin Client
    BY <1>4, NamesAssumption DEF Close
  <2>2. \A d \in Client : Clean(d)' => Clean(d)
    BY <1>4, <2>1 DEF Clean
  <2>3. ASSUME NEW f \in Fd, fdTable'[f] \in Client
        PROVE  sock'[fdTable'[f]] = f /\ fdTable'[f] \in m_clients' \cup {accepted'}
    <3>1. fdTable'[f] = fdTable[f] /\ \A c \in gone : sock[c] # f
      BY <2>1, <2>3
    <3>2. sock[fdTable[f]] = f /\ fdTable[f] \in m_clients \cup {accepted}
      BY <1>0, <2>3, <3>1 DEF Descriptors
    <3> QED
      BY <1>4, <3>1, <3>2
  <2>4. ASSUME NEW d \in Client, Clean(d)', d \in m_clients' \cup {accepted'}
        PROVE  /\ fdTable'[sock'[d]] = d
               /\ \A e \in Client : e \in m_clients' \cup {accepted'} /\ sock'[e] = sock'[d] => e = d
    <3>1. Clean(d) /\ d \in m_clients \cup {accepted}
      BY <1>4, <2>1, <2>2, <2>4
    <3>2. /\ fdTable[sock[d]] = d /\ sock[d] \in Fd
          /\ \A e \in Client : e \in m_clients \cup {accepted} /\ sock[e] = sock[d] => e = d
      BY <1>0, <3>1 DEF Descriptors, Threads
    <3>3. d \notin gone
      <4>1. d \in gone => d \notin m_clients' \/ d \in kicked'
        BY <1>4
      <4>2. d \in gone => d # accepted
        BY <1>0, <1>4 DEF Descriptors, Threads
      <4> QED
        BY <1>4, <2>4, <4>1, <4>2 DEF Clean
    <3>4. \A c \in gone : sock[c] # sock[d]
      BY <1>0, <1>4, <3>2, <3>3 DEF Typed
    <3> QED
      BY <1>4, <2>1, <3>2, <3>4
  <2>5. ASSUME NEW k \in kicked'
        PROVE  handlerPc'[k] # "none" /\ \A f \in Fd : fdTable'[f] # k
    <3>0. k \in Client
      BY <1>0, <1>4, <2>5 DEF Typed
    <3>1. CASE k \in kicked
      BY <1>0, <1>4, <2>1, <3>0, <3>1 DEF Descriptors
    <3>2. CASE k \in gone
      <4>1. handlerPc[k] # "none"
        BY <1>0, <1>4, <3>0, <3>2 DEF Threads
      <4>2. ASSUME NEW f \in Fd, fdTable'[f] = k PROVE FALSE
        <5>1. fdTable[f] = k
          BY <2>1, <3>0, <4>2
        <5>2. sock[k] = f
          BY <1>0, <3>0, <5>1 DEF Descriptors
        <5> QED
          BY <2>1, <3>0, <3>2, <4>2, <5>2
      <4> QED
        BY <1>4, <3>0, <4>1, <4>2
    <3> QED
      BY <1>4, <2>5, <3>1, <3>2
  <2>6. /\ accepted' \in Client =>
              handlerPc'[accepted'] = "none" /\ sock'[accepted'] \in Fd /\ status'[accepted'] # "off"
        /\ \A d \in Client : handlerPc'[d] # "none" => sock'[d] \in Fd
        /\ \A k \in Client : rx'[k] \in Client /\ rx'[k] # k => rx'[k] \in crossed' /\ ~ Clean(k)'
    BY <1>0, <1>4, <2>2 DEF Descriptors
  <2> QED
    BY <2>3, <2>4, <2>5, <2>6 DEF Descriptors
<1>5. ASSUME NEW c \in Client, HandlerRemove(c) PROVE Descriptors'
  <2>1. /\ Close({c}) /\ m_clients' = m_clients \ {c} /\ handlerPc[c] = "remove"
        /\ handlerPc' = [handlerPc EXCEPT ![c] = "done"]
        /\ UNCHANGED <<kicked, sock, accepted, rx, crossed, status>>
    BY <1>5 DEF HandlerRemove, HandlerGoto, clients
  <2>2. {c} \in SUBSET m_clients
    BY <1>0, <2>1 DEF Threads
  <2>3. \A d \in Client : handlerPc'[d] = "none" <=> handlerPc[d] = "none"
    BY <1>0, <2>1 DEF Typed
  <2> QED
    BY <1>4, <2>1, <2>2, <2>3
<1>6. CASE OperatorAct
  <2>1. /\ UNCHANGED <<m_clients, handlerPc, sock, accepted, rx, crossed, status>>
        /\ \/ UNCHANGED <<kicked, fdTable>>
           \/ Close(WithId(order.id)) /\ kicked' = kicked \cup WithId(order.id)
    BY <1>6 DEF OperatorAct, OperatorUnchanged, server, handlers, clients
  <2>2. WithId(order.id) \in SUBSET m_clients
    BY DEF WithId
  <2>3. CASE UNCHANGED <<kicked, fdTable>>
    BY <1>0, <2>1, <2>3 DEF Descriptors, Clean
  <2> QED
    BY <1>4, <2>1, <2>2, <2>3
<1>7. CASE Quiet
  BY <1>0, <1>7 DEF Quiet, Descriptors, Clean, Typed
<1> QED
  BY <1>1, <1>2, <1>3, <1>5, <1>6, <1>7, OthersQuiet

-----------------------------------------------------------------------------
(* Messages reach who bore the nickname                                    *)

\* What has happened is not undone: nicknames borne, numbers crossed, kicks.
LEMMA HistoryKept ==
  ASSUME Inv, [Next]_vars
  PROVE  /\ \A c \in Client : bore[c] \subseteq bore'[c]
         /\ crossed \subseteq crossed'
         /\ \A c \in Client : Clean(c)' => Clean(c)
<1>0. Typed
  BY DEF Inv
<1>1. \A c \in Client : bore[c] \subseteq bore'[c]
  <2>1. CASE UNCHANGED <<m_next_id, m_clients, id, nickname, bore>>
    BY <2>1
  <2>2. ASSUME NEW d \in Client, AcceptRegister(d) \/ HandleName(d) \/ HandlerRemove(d)
        PROVE  \A c \in Client : bore[c] \subseteq bore'[c]
    BY <1>0, <2>2 DEF AcceptRegister, HandleName, HandlerRemove, history, Typed
  <2> QED
    BY <2>1, <2>2, SessionsKept
<1>2. crossed \subseteq crossed' /\ kicked \subseteq kicked'
  <2>1. ASSUME NEW c \in Client,
               \/ AcceptRegister(c) \/ HandlerEnter(c) \/ HandlerRecv(c) \/ HandlerRecvFail(c)
               \/ HandlerRemove(c) \/ \E f \in Fd : AcceptReturn(c, f)
        PROVE  crossed \subseteq crossed' /\ kicked \subseteq kicked'
    BY <2>1 DEF AcceptRegister, HandlerEnter, HandlerRecv, HandlerRecvFail, HandlerRemove, AcceptReturn,
       HandlerGoto, history
  <2>2. CASE OperatorAct
    BY <2>2 DEF OperatorAct, OperatorUnchanged
  <2>3. CASE Quiet
    BY <2>3 DEF Quiet
  <2> QED
    BY <2>1, <2>2, <2>3, OthersQuiet
<1>3. \A c \in Client : Clean(c)' => Clean(c)
  BY <1>2 DEF Clean
<1> QED
  BY <1>1, <1>2, <1>3

\* A claim about an id holds of every client in the map with that id, and the
\* number in its entry is its own or was taken over by a newcomer.
LEMMA ReachesStep ==
  ASSUME Inv, [Next]_vars
  PROVE  Reached'
<1> DEFINE Meant == [nick : Nick, entry : Client, conn : Client]
           Right(r) == /\ r.nick \in bore[r.entry]
                       /\ r.conn = r.entry \/ (r.conn \in crossed /\ ~ Clean(r.entry))
<1>0. Typed /\ Told /\ reached \subseteq Meant /\ \A r \in reached : Right(r)
  BY DEF Inv, Reached, ReachesBearer
<1>1. ASSUME NEW n \in Nat, NEW nick \in Nick, Claim(n, nick), Reaches(nick, WithId(n))
      PROVE  \A r \in reached' : r \in Meant /\ Right(r)
  <2>1. \A e \in WithId(n) : e \in m_clients /\ e \in Client /\ nick \in bore[e]
    BY <1>0, <1>1, NamesAssumption DEF Claim, WithId, Typed
  <2>2. \A e \in WithId(n) : Denotes(e) # Free =>
          Denotes(e) \in Client /\ (Denotes(e) = e \/ (Denotes(e) \in crossed /\ ~ Clean(e)))
    <3>1. \A e \in WithId(n) : Denotes(e) \in Client \cup {Free}
      BY <1>0, <2>1 DEF Denotes, Typed
    <3>2. ASSUME NEW e \in WithId(n), Denotes(e) # Free
          PROVE  Denotes(e) \in Client /\ (Denotes(e) = e \/ (Denotes(e) \in crossed /\ ~ Clean(e)))
      <4>1. e \in m_clients /\ Denotes(e) \in Client
        BY <2>1, <3>1, <3>2
      <4> QED
        BY <4>1, OwnOrCrossed
    <3> QED
      BY <3>2
  <2>3. \A e \in WithId(n) : Denotes(e) # Free =>
          LET r == [nick |-> nick, entry |-> e, conn |-> Denotes(e)] IN r \in Meant /\ Right(r)
    BY <2>1, <2>2
  <2> HIDE DEF Meant, Right
  <2> QED
    BY <1>0, <1>1, <2>3 DEF Reaches
<1>2. \A r \in reached' : r \in Meant /\ Right(r)
  <2>1. ASSUME NEW c \in Client, HandlePrivate(c)
        PROVE  \A r \in reached' : r \in Meant /\ Right(r)
    <3>1. got[c].to \in Nat /\ got[c].nick \in Nick /\ Claim(got[c].to, got[c].nick)
      BY <1>0, <2>1 DEF HandlePrivate, Told, Requests
    <3>2. Reaches(got[c].nick, WithId(got[c].to))
      BY <2>1 DEF HandlePrivate
    <3> QED
      BY <1>1, <3>1, <3>2
  <2>2. CASE OperatorAct
    <3>1. order.id \in Nat /\ order.nick \in Nick /\ Claim(order.id, order.nick)
      BY <1>0, <2>2 DEF OperatorAct, Told, Typed
    <3>2. Reaches(order.nick, WithId(order.id))
      BY <2>2 DEF OperatorAct
    <3> QED
      BY <1>1, <3>1, <3>2
  <2>3. ASSUME ~ OperatorAct, ~ \E c \in Client : HandlePrivate(c)
        PROVE  reached' = reached
    <3>1. ASSUME NEW c \in Client, AcceptRegister(c) \/ Handler(c) \/ \E f \in Fd : AcceptReturn(c, f)
          PROVE  reached' = reached
      BY <2>3, <3>1 DEF AcceptReturn, AcceptRegister, Handler, HandlerTest, HandlerEnter, HandlerRecv,
         HandlerRecvFail, HandleName, ListBegin, ScanRead, ListSend, HandlerRemove, history
    <3>2. ASSUME NEW c \in Client, User(c) \/ Receive(c) PROVE reached' = reached
      BY <3>2 DEF User, Connect, Type, TypeNick, TypeMsgn, TypeList, Quit, Ends, Receive,
         ReceiveKick, Dropped, ReceiveOther, ClientUnchanged
    <3>3. CASE Console
      BY <2>3, <3>3 DEF Console, OperatorFind, ScanRead, OperatorFound, history
    <3>4. CASE UNCHANGED vars
      BY <3>4 DEF vars, history
    <3> QED
      BY <3>1, <3>2, <3>3, <3>4 DEF Next
  <2>4. CASE reached' = reached
    BY <1>0, <2>4
  <2> QED
    BY <2>1, <2>2, <2>3, <2>4
<1>3. ASSUME NEW r \in reached'
      PROVE  /\ r \in Meant /\ r.nick \in bore'[r.entry]
             /\ r.conn = r.entry \/ (r.conn \in crossed' /\ ~ Clean(r.entry)')
  <2>1. r \in Meant /\ Right(r)
    BY <1>2, <1>3
  <2> QED
    BY <2>1, HistoryKept
<1> QED
  BY <1>3 DEF Reached, ReachesBearer

-----------------------------------------------------------------------------
(* Who has which name                                                      *)

\* MSG_CONNECT is the first packet of a stream, and only the first.  This and what
\* follows is said of the clients whose streams nobody else's entry meets.
Handshake(c) ==
    /\ status[c] = "off" => handlerPc[c] = "none" /\ up[c] = <<>> /\ c \notin renamed
    /\ status[c] # "off" /\ handlerPc[c] = "none" => up[c] # <<>> /\ up[c][1].type = "CONNECT"
    /\ \A k \in 1..Len(up[c]) : up[c][k].type = "CONNECT" => k = 1

\* A packet of this type waits in the stream of requests of c.
Waits(c, type) == \E k \in 1..Len(up[c]) : up[c][k].type = type

Connecting(c) == handlerPc[c] = "none" \/ Waits(c, "CONNECT") \/ got[c].type = "CONNECT"
Announcing(c) == Waits(c, "NICK_SET") \/ got[c].type = "NICK_SET"

\* The name a client gave itself is the last it asks for, or the last assigned.
Intent(c) ==
    /\ Connecting(c) => Waits(c, "NICK_SET")
    /\ \A k \in 1..Len(up[c]) :
          /\ up[c][k].type = "NICK_SET"
          /\ \A r \in (k + 1)..Len(up[c]) : up[c][r].type # "NICK_SET"
          => up[c][k].nick = m_nickname[c]
    /\ ~ Waits(c, "NICK_SET") =>
          IF got[c].type = "NICK_SET" /\ handlerPc[c] = "dispatch"
          THEN got[c].nick = m_nickname[c]
          ELSE nickname[c] = m_nickname[c]

Intended ==
    /\ m_nickname \in [Client -> Names]
    /\ \A c \in Client : Clean(c) => Handshake(c) /\ (c \in renamed => Intent(c))

\* A name that no handler is about to assign.
Steady(c) == mutex = c \/ (Clean(c) /\ c \in renamed /\ ~ Announcing(c))

\* Whoever walks through the map meets everybody, and reads steady names.
Walked ==
    /\ mutex # Free => \A c \in m_clients : c \in scan.unread \/ \E e \in scan.read : e[1] = id[c]
    /\ \A c \in m_clients : Steady(c) => \A e \in scan.read : e[1] = id[c] => e[2] = nickname[c]

Right(list, c) == {e \in list : e[1] = id[c]} = {<<id[c], nickname[c]>>}

\* The last list that d has got, or has still to read, is right about c.
Knows(d, c) ==
    /\ \A k \in 1..Len(down[d]) :
          /\ down[d][k].type = "LIST"
          /\ \A r \in (k + 1)..Len(down[d]) : down[d][r].type # "LIST"
          => Right(down[d][k].list, c)
    /\ (\A k \in 1..Len(down[d]) : down[d][k].type # "LIST") => Right(peers[d], c)

\* A client that has been told the name of a connected one was told right.
Listening(d) == d \in m_clients /\ Clean(d) /\ status[d] = "up" /\ ~ Connecting(d)

Informed ==
    \A c \in m_clients \cap renamed, d \in Client :
        Clean(c) /\ ~ Announcing(c) /\ Listening(d) => Knows(d, c)

News == Intended /\ Walked /\ Informed

-----------------------------------------------------------------------------
(* Requests under way                                                      *)

\* A request is sent; the others wait as they did.
LEMMA RequestSent ==
  ASSUME Told, NEW c \in Client, NEW p, Send(c, p)
  PROVE  /\ \A d \in Client : d # c => up'[d] = up[d]
         /\ Len(up'[c]) = Len(up[c]) + 1 /\ Len(up[c]) \in Nat
         /\ up'[c][Len(up[c]) + 1] = p
         /\ \A k \in 1..Len(up[c]) : up'[c][k] = up[c][k]
         /\ \A d \in Client : \A type : Waits(d, type)' <=> Waits(d, type) \/ (d = c /\ p.type = type)
<1>0. Seq(Requests) \subseteq Seq(Requests \cup {p})
  OBVIOUS
<1>1. up[c] \in Seq(Requests \cup {p}) /\ up'[c] = Append(up[c], p)
  BY <1>0 DEF Told, Send
<1>2. /\ Len(up'[c]) = Len(up[c]) + 1 /\ Len(up[c]) \in Nat
      /\ up'[c][Len(up[c]) + 1] = p
      /\ \A k \in 1..Len(up[c]) : up'[c][k] = up[c][k]
  BY <1>1, AppendProperties, LenProperties
<1>3. \A d \in Client : d # c => up'[d] = up[d]
  BY DEF Told, Send
<1>4. ASSUME NEW d \in Client, NEW type
      PROVE  Waits(d, type)' <=> Waits(d, type) \/ (d = c /\ p.type = type)
  <2>1. CASE d # c
    BY <1>3, <2>1 DEF Waits
  <2>2. CASE d = c
    <3>1. ASSUME Waits(c, type)' PROVE Waits(c, type) \/ p.type = type
      <4>1. PICK k \in 1..Len(up'[c]) : up'[c][k].type = type
        BY <3>1 DEF Waits
      <4>2. k \in 1..Len(up[c]) \/ k = Len(up[c]) + 1
        BY <1>2
      <4> QED
        BY <1>2, <4>1, <4>2 DEF Waits
    <3>2. ASSUME Waits(c, type) PROVE Waits(c, type)'
      BY <1>2, <3>2 DEF Waits
    <3>3. ASSUME p.type = type PROVE Waits(c, type)'
      <4>1. Len(up[c]) + 1 \in 1..Len(up'[c])
        BY <1>2
      <4> QED
        BY <1>2, <3>3, <4>1 DEF Waits
    <3> QED
      BY <2>2, <3>1, <3>2, <3>3
  <2> QED
    BY <2>1, <2>2
<1> QED
  BY <1>2, <1>3, <1>4

\* The first request is taken; the others wait as they did.
LEMMA RequestTaken ==
  ASSUME Told, NEW c \in Client, up[c] # <<>>, up' = [up EXCEPT ![c] = Tail(@)]
  PROVE  /\ \A d \in Client : d # c => up'[d] = up[d]
         /\ Len(up'[c]) = Len(up[c]) - 1 /\ Len(up[c]) \in Nat \ {0}
         /\ Head(up[c]) = up[c][1]
         /\ \A k \in 1..Len(up'[c]) : k + 1 \in 1..Len(up[c]) /\ up'[c][k] = up[c][k + 1]
         /\ \A d \in Client : \A type : d # c => (Waits(d, type)' <=> Waits(d, type))
         /\ \A type : Waits(c, type)' => Waits(c, type)
         /\ \A type : Waits(c, type) => Waits(c, type)' \/ Head(up[c]).type = type
<1>1. up[c] \in Seq(Requests) /\ up'[c] = Tail(up[c])
  BY DEF Told
<1>2. /\ Len(up'[c]) = Len(up[c]) - 1 /\ Len(up[c]) \in Nat \ {0}
      /\ Head(up[c]) = up[c][1]
      /\ \A k \in 1..Len(up'[c]) : up'[c][k] = up[c][k + 1]
  <2>1. Len(up[c]) \in Nat \ {0}
    BY <1>1, EmptySeq, LenProperties
  <2>2. /\ Len(Tail(up[c])) = Len(up[c]) - 1 /\ Head(up[c]) = up[c][1]
        /\ \A k \in 1..Len(Tail(up[c])) : Tail(up[c])[k] = up[c][k + 1]
    BY <1>1, HeadTailProperties
  <2> QED
    BY <1>1, <2>1, <2>2
<1>3. \A d \in Client : d # c => up'[d] = up[d]
  BY DEF Told
<1>4. \A k \in 1..Len(up'[c]) : k + 1 \in 1..Len(up[c]) /\ up'[c][k] = up[c][k + 1]
  BY <1>2
<1>5. \A type : Waits(c, type)' => Waits(c, type)
  BY <1>4 DEF Waits
<1>6. ASSUME NEW type, Waits(c, type), Head(up[c]).type # type PROVE Waits(c, type)'
  <2>1. PICK k \in 1..Len(up[c]) : up[c][k].type = type
    BY <1>6 DEF Waits
  <2>2. k # 1
    BY <1>2, <1>6, <2>1
  <2>3. k - 1 \in 1..Len(up'[c]) /\ (k - 1) + 1 = k
    BY <1>2, <2>2
  <2>4. PICK b \in 1..Len(up'[c]) : b + 1 = k
    BY <2>3
  <2>5. up'[c][b] = up[c][k]
    BY <1>2, <2>4
  <2> QED
    BY <2>1, <2>5 DEF Waits
<1>7. \A d \in Client : \A type : d # c => (Waits(d, type)' <=> Waits(d, type))
  BY <1>3 DEF Waits
<1> QED
  BY <1>2, <1>3, <1>4, <1>5, <1>6, <1>7

\* Nothing happens to c, but that its handler goes on or that it ends.
Untouched(c) ==
    /\ up'[c] = up[c] /\ got'[c] = got[c] /\ nickname'[c] = nickname[c]
    /\ m_nickname'[c] = m_nickname[c] /\ (c \in renamed' <=> c \in renamed)
    /\ \/ handlerPc'[c] = handlerPc[c]
       \/ handlerPc[c] # "dispatch" /\ handlerPc'[c] \notin {"none", "dispatch"}
    /\ status'[c] = status[c] \/ (status[c] # "off" /\ status'[c] # "off")
    /\ status[c] = "off" => handlerPc'[c] = handlerPc[c]

LEMMA RequestsKept ==
  ASSUME NEW c \in Client, Untouched(c)
  PROVE  /\ Handshake(c) => Handshake(c)'
         /\ Intent(c) => Intent(c)'
<1>1. Handshake(c) => Handshake(c)'
  BY DEF Untouched, Handshake
<1>2. \A type : Waits(c, type)' <=> Waits(c, type)
  BY DEF Untouched, Waits
<1>3. Intent(c) => Intent(c)'
  BY <1>2 DEF Untouched, Intent, Connecting
<1> QED
  BY <1>1, <1>3

\* The handler takes a request.
LEMMA RequestsRecv ==
  ASSUME Inv, Intended, NEW c \in Client, Clean(c), HandlerRecv(c)
  PROVE  Handshake(c)' /\ (c \in renamed => Intent(c)')
<1>0. rx[c] = c
  BY DEF HandlerRecv, Inv, Typed, Descriptors
<1>1. /\ up[c] # <<>> /\ handlerPc[c] = "recv" /\ handlerPc'[c] = "dispatch"
      /\ got[c].type = "NONE" /\ got'[c] = Head(up[c])
      /\ up' = [up EXCEPT ![c] = Tail(@)] /\ UNCHANGED <<nickname, status, m_nickname, renamed>>
  BY <1>0 DEF HandlerRecv, HandlerGoto, clients, Inv, Typed, Told, Threads
<1>2. /\ Len(up'[c]) = Len(up[c]) - 1 /\ Len(up[c]) \in Nat \ {0}
      /\ Head(up[c]) = up[c][1]
      /\ \A k \in 1..Len(up'[c]) : k + 1 \in 1..Len(up[c]) /\ up'[c][k] = up[c][k + 1]
      /\ \A type : Waits(c, type)' => Waits(c, type)
      /\ \A type : Waits(c, type) => Waits(c, type)' \/ Head(up[c]).type = type
  BY <1>1, RequestTaken DEF Inv
<1>3. Handshake(c)
  BY DEF Intended
<1>4. \A k \in 1..Len(up'[c]) : up'[c][k].type # "CONNECT"
  <2> SUFFICES ASSUME NEW k \in 1..Len(up'[c]), up[c][k + 1].type = "CONNECT" PROVE FALSE
    BY <1>2
  <2> QED
    BY <1>2, <1>3 DEF Handshake
<1>5. Handshake(c)'
  BY <1>1, <1>3, <1>4 DEF Handshake
<1>6. ASSUME c \in renamed PROVE Intent(c)'
  <2>0. Intent(c)
    BY <1>6 DEF Intended
  <2>1. Connecting(c)' => Waits(c, "NICK_SET")'
    <3>1. ASSUME Connecting(c)' PROVE Head(up[c]).type = "CONNECT"
      BY <1>1, <1>4, <3>1 DEF Connecting, Waits
    <3>2. ASSUME Head(up[c]).type = "CONNECT" PROVE Waits(c, "NICK_SET")'
      <4>1. Waits(c, "CONNECT")
        BY <1>2, <3>2 DEF Waits
      <4> QED
        BY <1>2, <2>0, <3>2, <4>1 DEF Intent, Connecting
    <3> QED
      BY <3>1, <3>2
  <2>2. ASSUME NEW k \in 1..Len(up'[c]), up'[c][k].type = "NICK_SET",
               \A r \in (k + 1)..Len(up'[c]) : up'[c][r].type # "NICK_SET"
        PROVE  up'[c][k].nick = m_nickname[c]
    <3>1. k + 1 \in 1..Len(up[c]) /\ up'[c][k] = up[c][k + 1]
      BY <1>2
    <3>2. ASSUME NEW r \in ((k + 1) + 1)..Len(up[c]) PROVE up[c][r].type # "NICK_SET"
      <4>1. PICK b \in Nat : b + 1 = r
        <5>1. r - 1 \in Nat /\ (r - 1) + 1 = r
          BY <1>2
        <5> QED
          BY <5>1
      <4>2. b \in (k + 1)..Len(up'[c]) /\ b \in 1..Len(up'[c])
        BY <1>2, <4>1
      <4> QED
        BY <1>2, <2>2, <4>1, <4>2
    <3> QED
      BY <2>0, <2>2, <3>1, <3>2 DEF Intent
  <2>3. ASSUME ~ Waits(c, "NICK_SET")'
        PROVE  IF got'[c].type = "NICK_SET" /\ handlerPc'[c] = "dispatch"
               THEN got'[c].nick = m_nickname[c]
               ELSE nickname[c] = m_nickname[c]
    <3>1. CASE Head(up[c]).type = "NICK_SET"
      <4>1. ASSUME NEW r \in (1 + 1)..Len(up[c]) PROVE up[c][r].type # "NICK_SET"
        <5>1. PICK b \in Nat : b + 1 = r
          <6>1. r - 1 \in Nat /\ (r - 1) + 1 = r
            BY <1>2
          <6> QED
            BY <6>1
        <5>2. b \in 1..Len(up'[c])
          BY <1>2, <5>1
        <5> QED
          BY <1>2, <2>3, <5>1, <5>2 DEF Waits
      <4>2. 1 \in 1..Len(up[c])
        BY <1>2
      <4> QED
        BY <1>1, <1>2, <2>0, <3>1, <4>1, <4>2 DEF Intent
    <3>2. CASE Head(up[c]).type # "NICK_SET"
      BY <1>1, <1>2, <2>0, <2>3, <3>2 DEF Intent
    <3> QED
      BY <3>1, <3>2
  <2> QED
    BY <1>1, <2>1, <2>2, <2>3 DEF Intent
<1> QED
  BY <1>5, <1>6

\* The client asks for something.
LEMMA RequestsSend ==
  ASSUME Inv, Intended, NEW c \in Client, Clean(c), NEW p, Send(c, p),
         \/ /\ status[c] = "off" /\ status'[c] # "off" /\ p.type = "CONNECT"
            /\ m_nickname'[c] = p.nick /\ renamed' = renamed
         \/ /\ status[c] # "off" /\ status' = status /\ p.type = "NICK_SET"
            /\ m_nickname'[c] = p.nick /\ renamed' = renamed \cup {c}
         \/ /\ status[c] # "off" /\ status' = status /\ p.type \notin {"CONNECT", "NICK_SET"}
            /\ m_nickname'[c] = m_nickname[c] /\ renamed' = renamed,
         UNCHANGED <<handlerPc, got, nickname>>
  PROVE  Handshake(c)' /\ (c \in renamed' => Intent(c)')
<1>1. /\ Len(up'[c]) = Len(up[c]) + 1 /\ Len(up[c]) \in Nat
      /\ up'[c][Len(up[c]) + 1] = p
      /\ \A k \in 1..Len(up[c]) : up'[c][k] = up[c][k]
      /\ \A type : Waits(c, type)' <=> Waits(c, type) \/ p.type = type
  BY RequestSent DEF Inv
<1>2. up'[c] # <<>> /\ up'[c][1] = IF Len(up[c]) = 0 THEN p ELSE up[c][1]
  BY <1>1
<1>3. up[c] = <<>> <=> Len(up[c]) = 0
  BY EmptySeq DEF Inv, Told
<1>4. Handshake(c) /\ (c \in renamed => Intent(c))
  BY DEF Intended
<1>5. \A k \in 1..Len(up'[c]) : k \in 1..Len(up[c]) \/ k = Len(up[c]) + 1
  BY <1>1
<1>6. CASE status[c] = "off" /\ status'[c] # "off" /\ p.type = "CONNECT" /\ renamed' = renamed
  <2>1. Len(up[c]) = 0 /\ c \notin renamed
    BY <1>3, <1>4, <1>6 DEF Handshake
  <2> QED
    BY <1>1, <1>2, <1>6, <2>1 DEF Handshake
<1>7. ASSUME status[c] # "off", status' = status, p.type # "CONNECT" PROVE Handshake(c)'
  <2>1. handlerPc[c] = "none" => up'[c][1].type = "CONNECT"
    BY <1>2, <1>3, <1>4, <1>7 DEF Handshake
  <2>2. \A k \in 1..Len(up'[c]) : up'[c][k].type = "CONNECT" => k = 1
    BY <1>1, <1>4, <1>5, <1>7 DEF Handshake
  <2> QED
    BY <1>2, <1>7, <2>1, <2>2 DEF Handshake
<1>8. ASSUME p.type = "NICK_SET", m_nickname'[c] = p.nick PROVE Intent(c)'
  <2>1. ASSUME NEW k \in 1..Len(up'[c]),
               \A r \in (k + 1)..Len(up'[c]) : up'[c][r].type # "NICK_SET"
        PROVE  up'[c][k] = p
    <3>1. CASE k \in 1..Len(up[c])
      <4>1. Len(up[c]) + 1 \in (k + 1)..Len(up'[c])
        BY <1>1, <3>1
      <4> QED
        BY <1>1, <1>8, <2>1, <4>1
    <3> QED
      BY <1>1, <1>5, <3>1
  <2>2. Waits(c, "NICK_SET")'
    BY <1>1, <1>8
  <2> QED
    BY <1>8, <2>1, <2>2 DEF Intent
<1>9. ASSUME p.type \notin {"CONNECT", "NICK_SET"}, m_nickname'[c] = m_nickname[c], c \in renamed
      PROVE  Intent(c)'
  <2>1. ASSUME NEW k \in 1..Len(up'[c]), up'[c][k].type = "NICK_SET",
               \A r \in (k + 1)..Len(up'[c]) : up'[c][r].type # "NICK_SET"
        PROVE  up'[c][k].nick = m_nickname[c]
    <3>1. k \in 1..Len(up[c]) /\ up'[c][k] = up[c][k]
      BY <1>1, <1>5, <1>9, <2>1
    <3>2. \A r \in (k + 1)..Len(up[c]) : up[c][r].type # "NICK_SET"
      <4>1. ASSUME NEW r \in (k + 1)..Len(up[c])
            PROVE  r \in (k + 1)..Len(up'[c]) /\ up'[c][r] = up[c][r]
        BY <1>1
      <4> QED
        BY <2>1, <4>1
    <3> QED
      BY <1>4, <1>9, <2>1, <3>1, <3>2 DEF Intent
  <2>2. \A type : type \in {"CONNECT", "NICK_SET"} => (Waits(c, type)' <=> Waits(c, type))
    BY <1>1, <1>9
  <2>3. Connecting(c)' => Waits(c, "NICK_SET")'
    BY <1>4, <1>9, <2>2 DEF Intent, Connecting
  <2>4. ~ Waits(c, "NICK_SET")' =>
          IF got'[c].type = "NICK_SET" /\ handlerPc'[c] = "dispatch"
          THEN got'[c].nick = m_nickname'[c] ELSE nickname'[c] = m_nickname'[c]
    BY <1>4, <1>9, <2>2 DEF Intent
  <2>5. \A k \in 1..Len(up'[c]) :
          /\ up'[c][k].type = "NICK_SET"
          /\ \A r \in (k + 1)..Len(up'[c]) : up'[c][r].type # "NICK_SET"
          => up'[c][k].nick = m_nickname'[c]
    BY <1>9, <2>1
  <2> QED
    BY <2>3, <2>4, <2>5 DEF Intent
<1>10. CASE status[c] = "off"
  BY <1>4, <1>6, <1>10 DEF Handshake
<1>11. CASE status[c] # "off"
  BY <1>7, <1>8, <1>9, <1>11
<1> QED
  BY <1>10, <1>11

\* The handler deals with the request it has taken.
LEMMA RequestsHandled ==
  ASSUME Inv, Intended, NEW c \in Client, Clean(c),
         HandleName(c) \/ HandlePrivate(c) \/ ListSend(c)
  PROVE  Handshake(c)' /\ (c \in renamed => Intent(c)')
<1>0. Handshake(c) /\ (c \in renamed => Intent(c))
  BY DEF Intended
<1>1. /\ handlerPc[c] \in {"dispatch", "listing"}
      /\ handlerPc'[c] \in {"list", "loop"}
      /\ UNCHANGED <<up, status, m_nickname, renamed>>
  BY DEF HandleName, HandlePrivate, ListSend, HandlerGoto, clients, Inv, Typed
<1>2. \A type : Waits(c, type)' <=> Waits(c, type)
  BY <1>1 DEF Waits
<1>3. Handshake(c)'
  BY <1>0, <1>1 DEF Handshake
<1>4. /\ Connecting(c)' => Connecting(c)
      /\ c \in renamed /\ ~ Waits(c, "NICK_SET") => nickname'[c] = m_nickname[c]
  <2>1. CASE HandleName(c)
    <3>1. /\ got' = got /\ handlerPc[c] = "dispatch"
          /\ got[c].type = "CLIENT_LIST" => nickname'[c] = nickname[c]
          /\ got[c].type # "CLIENT_LIST" => nickname'[c] = got[c].nick
          /\ got[c].type \in {"CONNECT", "NICK_SET", "CLIENT_LIST"}
      BY <2>1 DEF HandleName, HandlerGoto, Inv, Typed
    <3> QED
      BY <1>0, <1>1, <1>2, <3>1 DEF Connecting, Intent
  <2>2. CASE HandlePrivate(c)
    <3>1. /\ got'[c].type = "NONE" /\ got[c].type = "PRIVATE" /\ nickname' = nickname
      BY <2>2 DEF HandlePrivate, Handled, NoPacket, Packet, Inv, Told
    <3> QED
      BY <1>0, <1>1, <1>2, <3>1 DEF Connecting, Intent
  <2>3. CASE ListSend(c)
    <3>1. /\ got'[c].type = "NONE" /\ handlerPc[c] = "listing" /\ nickname' = nickname
      BY <2>3 DEF ListSend, HandlerGoto, Handled, NoPacket, Packet, Inv, Told
    <3> QED
      BY <1>0, <1>1, <1>2, <3>1 DEF Connecting, Intent
  <2> QED
    BY <2>1, <2>2, <2>3
<1>5. ASSUME c \in renamed PROVE Intent(c)'
  <2>1. Connecting(c)' => Waits(c, "NICK_SET")'
    BY <1>0, <1>2, <1>4, <1>5 DEF Intent
  <2>2. \A k \in 1..Len(up'[c]) :
          /\ up'[c][k].type = "NICK_SET"
          /\ \A r \in (k + 1)..Len(up'[c]) : up'[c][r].type # "NICK_SET"
          => up'[c][k].nick = m_nickname'[c]
    BY <1>0, <1>1, <1>5 DEF Intent
  <2>3. ~ Waits(c, "NICK_SET")' => handlerPc'[c] # "dispatch" /\ nickname'[c] = m_nickname'[c]
    BY <1>1, <1>2, <1>4, <1>5
  <2> QED
    BY <2>1, <2>2, <2>3 DEF Intent
<1> QED
  BY <1>3, <1>5

\* Every other step leaves the requests of d as they are.
LEMMA UntouchedBy ==
  ASSUME Inv, Intended, [Next]_vars, NEW d \in Client, Clean(d),
         ~ (HandlerRecv(d) \/ HandleName(d) \/ HandlePrivate(d) \/ ListSend(d)),
         ~ (Connect(d) \/ TypeList(d) \/ \E nick \in Nick : TypeNick(d, nick) \/ TypeMsgn(d, nick))
  PROVE  Untouched(d)
<1>0. /\ Typed /\ up \in [Client -> Seq(Requests)] /\ got \in [Client -> Requests]
      /\ m_nickname \in [Client -> Names] /\ Handshake(d) /\ (d \in renamed => Intent(d))
  BY DEF Inv, Told, Intended
<1>1. status[d] = "off" => handlerPc[d] = "none"
  BY <1>0 DEF Handshake
<1>2. Untouched(d)
  <2>1. ASSUME NEW c \in Client, AcceptRegister(c) PROVE Untouched(d)
    <3>1. handlerPc[c] = "none" /\ status[c] # "off" /\ handlerPc' = [handlerPc EXCEPT ![c] = "loop"]
      BY <2>1 DEF AcceptRegister, Inv, Descriptors
    <3> QED
      BY <1>0, <2>1, <3>1 DEF Untouched, AcceptRegister, locks, clients, history, Typed
  <2>2. ASSUME NEW c \in Client, \/ HandlerTest(c) \/ HandlerEnter(c) \/ HandlerRecvFail(c)
                                \/ ListBegin(c) \/ HandlerRemove(c)
        PROVE  Untouched(d)
    <3>1. /\ UNCHANGED <<up, got, nickname, m_nickname, renamed, status>>
          /\ handlerPc[c] \in {"loop", "enter", "recv", "list", "remove"}
          /\ \E to \in {"enter", "recv", "listing", "remove", "done"} :
                handlerPc' = [handlerPc EXCEPT ![c] = to]
      BY <2>2 DEF HandlerTest, HandlerEnter, HandlerRecvFail, ListBegin, HandlerRemove, HandlerGoto,
         clients
    <3> QED
      BY <1>0, <1>1, <3>1 DEF Untouched, Typed
  <2>3. ASSUME NEW t, ScanRead(t) PROVE Untouched(d)
    BY <2>3 DEF Untouched, ScanRead, server, handlers, clients, history
  <2>4. CASE Console
    BY <2>4 DEF Untouched, Console, OperatorFind, ScanRead, OperatorFound, OperatorAct, OperatorUnchanged,
       server, handlers, clients, history
  <2>5. ASSUME NEW c \in Client \ {d},
               HandlerRecv(c) \/ HandleName(c) \/ HandlePrivate(c) \/ ListSend(c)
        PROVE  Untouched(d)
    <3>1. HandlerRecv(c) => rx[c] \in Client /\ rx[c] # d
      BY <2>5 DEF HandlerRecv, Inv, Typed, Descriptors, Clean
    <3> QED
      BY <1>0, <2>5, <3>1 DEF Untouched, HandlerRecv, HandleName, HandlePrivate, ListSend, Handled,
         HandlerGoto, clients, Typed
  <2>9. ASSUME NEW c \in Client, NEW f \in Fd, AcceptReturn(c, f) PROVE Untouched(d)
    BY <2>9 DEF Untouched, AcceptReturn, server, handlers, clients
  <2>6. ASSUME NEW c \in Client \ {d},
               Connect(c) \/ TypeList(c) \/ \E nick \in Nick : TypeNick(c, nick) \/ TypeMsgn(c, nick)
        PROVE  Untouched(d)
    BY <1>0, <2>6 DEF Untouched, Connect, Type, TypeNick, TypeMsgn, TypeList, Send, ClientUnchanged,
       server, handlers, Typed
  <2>7. ASSUME NEW c \in Client, Quit(c) \/ Receive(c) PROVE Untouched(d)
    BY <1>0, <2>7 DEF Untouched, Quit, Ends, Receive, ReceiveKick, Dropped, ReceiveOther, ClientUnchanged, server,
       handlers, Typed
  <2>8. CASE UNCHANGED vars
    BY <2>8 DEF Untouched, vars, server, handlers, clients, history
  <2> QED
    BY <2>1, <2>2, <2>3, <2>4, <2>5, <2>6, <2>7, <2>8, <2>9 DEF Next, Handler, User
<1> QED
  BY <1>2

\* What each client intends to be called remains what it sent last.
LEMMA IntendedStep ==
  ASSUME Inv, Intended, [Next]_vars
  PROVE  Intended'
<1>0. Typed /\ m_nickname \in [Client -> Names]
  BY DEF Inv, Intended
<1>1. m_nickname' \in [Client -> Names]
  <2>1. ASSUME NEW c \in Client, AcceptRegister(c) \/ Handler(c) \/ \E f \in Fd : AcceptReturn(c, f)
        PROVE  m_nickname' = m_nickname
    BY <2>1 DEF AcceptReturn, AcceptRegister, Handler, HandlerTest, HandlerEnter, HandlerRecv, HandlerRecvFail, HandleName, HandlePrivate,
       ListBegin, ScanRead, ListSend, HandlerRemove, HandlerGoto, clients
  <2>2. ASSUME NEW c \in Client, User(c) \/ Receive(c) PROVE m_nickname' \in [Client -> Names]
    <3>1. CASE Connect(c)
      BY <1>0, <3>1, NamesAssumption DEF Connect, Names
    <3>2. ASSUME NEW nick \in Nick, TypeNick(c, nick) PROVE m_nickname' \in [Client -> Names]
      BY <1>0, <3>2 DEF TypeNick, Names
    <3>3. ASSUME NEW nick \in Nick, TypeMsgn(c, nick) PROVE m_nickname' \in [Client -> Names]
      BY <1>0, <3>3 DEF TypeMsgn
    <3>4. CASE TypeList(c) \/ Quit(c) \/ Receive(c)
      BY <1>0, <3>4 DEF TypeList, Quit, Ends, Receive, ReceiveKick, Dropped, ReceiveOther
    <3> QED
      BY <2>2, <3>1, <3>2, <3>3, <3>4 DEF User
  <2>3. CASE Console
    BY <1>0, <2>3 DEF Console, OperatorFind, ScanRead, OperatorFound, OperatorAct, OperatorUnchanged,
       clients
  <2>4. CASE UNCHANGED vars
    BY <1>0, <2>4 DEF vars, clients
  <2> QED
    BY <1>0, <2>1, <2>2, <2>3, <2>4 DEF Next
<1>2. ASSUME NEW d \in Client, Clean(d)' PROVE Handshake(d)' /\ (d \in renamed' => Intent(d)')
  <2>0. Clean(d)
    BY <1>2, HistoryKept
  <2> DEFINE Goal == Handshake(d)' /\ (d \in renamed' => Intent(d)')
  <2>1. CASE HandlerRecv(d)
    <3>1. renamed' = renamed
      BY <2>1 DEF HandlerRecv, HandlerGoto
    <3> QED
      BY <2>0, <2>1, <3>1, RequestsRecv
  <2>2. CASE HandleName(d) \/ HandlePrivate(d) \/ ListSend(d)
    <3>1. renamed' = renamed
      BY <2>2 DEF HandleName, HandlePrivate, ListSend, HandlerGoto
    <3> QED
      BY <2>0, <2>2, <3>1, RequestsHandled
  <2>3. CASE Connect(d)
    <3>1. PICK p : p = Packet("CONNECT", Configured[d], 0)
      OBVIOUS
    <3>2. Send(d, p) /\ p.type = "CONNECT" /\ m_nickname'[d] = p.nick
      BY <1>0, <2>3, <3>1 DEF Connect, Packet
    <3>3. /\ status[d] = "off" /\ status'[d] # "off" /\ renamed' = renamed
          /\ UNCHANGED <<handlerPc, got, nickname>>
      BY <1>0, <2>3 DEF Connect, ClientUnchanged, server, handlers, Typed
    <3> QED
      BY <2>0, <3>2, <3>3, RequestsSend
  <2>4. ASSUME NEW nick \in Nick, TypeNick(d, nick) PROVE Goal
    <3>1. PICK p : p = Packet("NICK_SET", nick, 0)
      OBVIOUS
    <3>2. Send(d, p) /\ p.type = "NICK_SET" /\ m_nickname'[d] = p.nick
      BY <1>0, <2>4, <3>1 DEF TypeNick, Packet
    <3>3. /\ status[d] # "off" /\ status' = status /\ renamed' = renamed \cup {d}
          /\ UNCHANGED <<handlerPc, got, nickname>>
      BY <2>4 DEF TypeNick, Type, ClientUnchanged, server, handlers
    <3> QED
      BY <2>0, <3>2, <3>3, RequestsSend
  <2>5. ASSUME NEW p, Send(d, p), p.type \notin {"CONNECT", "NICK_SET"}, Type(d),
               UNCHANGED <<m_nickname, renamed>>
        PROVE  Goal
    <3>1. status[d] # "off" /\ status' = status /\ UNCHANGED <<handlerPc, got, nickname>>
      BY <2>5 DEF Type, ClientUnchanged, server, handlers
    <3> QED
      BY <2>0, <2>5, <3>1, RequestsSend
  <2>6. ASSUME NEW nick \in Nick, TypeMsgn(d, nick) PROVE Goal
    <3>1. PICK p : p = Packet("PRIVATE", nick, Min(Found(peers[d], nick)))
      OBVIOUS
    <3>2. p.type = "PRIVATE"
      BY <3>1 DEF Packet
    <3> QED
      BY <2>5, <2>6, <3>1, <3>2 DEF TypeMsgn
  <2>7. CASE TypeList(d)
    <3>1. PICK p : p = Packet("CLIENT_LIST", Default, 0)
      OBVIOUS
    <3>2. p.type = "CLIENT_LIST"
      BY <3>1 DEF Packet
    <3> QED
      BY <2>5, <2>7, <3>1, <3>2 DEF TypeList
  <2>8. CASE Untouched(d)
    <3>1. Handshake(d) /\ (d \in renamed => Intent(d)) /\ (d \in renamed' <=> d \in renamed)
      BY <2>0, <2>8 DEF Intended, Untouched
    <3> QED
      BY <2>0, <2>8, <3>1, RequestsKept
  <2> QED
    BY <2>0, <2>1, <2>2, <2>3, <2>4, <2>6, <2>7, <2>8, UntouchedBy
<1> QED
  BY <1>1, <1>2 DEF Intended

-----------------------------------------------------------------------------
(* Names that stay                                                         *)

\* A steady name is not assigned.
LEMMA NamesKept ==
  ASSUME Inv, Intended, [Next]_vars, NEW c \in m_clients, Steady(c)
  PROVE  id'[c] = id[c] /\ nickname'[c] = nickname[c]
<1>t. Typed /\ Threads /\ c \in Client
  BY DEF Inv, Typed
<1>n. c \in m_clients => handlerPc[c] \notin {"none", "done"}
  BY <1>t, Zenon DEF Threads
<1>m. mutex = c => handlerPc[c] = "listing"
  BY <1>t, Zenon DEF Threads
<1>0. Typed /\ c \in Client /\ handlerPc[c] # "none" /\ (mutex = c => handlerPc[c] = "listing")
  BY <1>t, <1>n, <1>m
<1>1. ASSUME NEW d \in Client, AcceptRegister(d) PROVE id'[c] = id[c] /\ nickname'[c] = nickname[c]
  <2>1. d # c
    BY <1>0, <1>1 DEF AcceptRegister, Inv, Descriptors
  <2> QED
    BY <1>0, <1>1, <2>1 DEF AcceptRegister, Typed
<1>2. ASSUME NEW d \in Client, HandleName(d) PROVE id'[c] = id[c] /\ nickname'[c] = nickname[c]
  <2>1. CASE d # c
    BY <1>0, <1>2, <2>1 DEF HandleName, HandlerGoto, Typed
  <2>2. CASE d = c
    <3>1. handlerPc[c] = "dispatch" /\ id' = id /\ got[c].type \in {"CONNECT", "NICK_SET", "CLIENT_LIST"}
      BY <1>2, <2>2 DEF HandleName, HandlerGoto
    <3>2. Clean(c) /\ c \in renamed /\ ~ Announcing(c)
      BY <1>0, <3>1 DEF Steady
    <3>3. got[c].type # "NICK_SET" /\ got[c].type # "CONNECT"
      BY <1>0, <3>2 DEF Announcing, Intended, Intent, Connecting
    <3> QED
      BY <1>2, <2>2, <3>1, <3>3 DEF HandleName
  <2> QED
    BY <2>1, <2>2
<1>3. ASSUME NEW d \in Client, HandlerRemove(d) PROVE id'[c] = id[c] /\ nickname'[c] = nickname[c]
  BY <1>3 DEF HandlerRemove, HandlerGoto
<1> QED
  BY <1>1, <1>2, <1>3, SessionsKept

\* Only the end of send_client_list makes a new name an announced one.
LEMMA AnnouncedStep ==
  ASSUME Inv, Intended, [Next]_vars, NEW c \in Client, Clean(c), c \in renamed', ~ Announcing(c)'
  PROVE  ListSend(c) \/ (c \in renamed /\ ~ Announcing(c))
<1>0. Typed /\ Told /\ Handshake(c)
  BY DEF Inv, Intended
<1>1. CASE HandlerRecv(c)
  <2>1. /\ up[c] # <<>> /\ handlerPc[c] = "recv" /\ got'[c] = Head(up[c])
        /\ up' = [up EXCEPT ![c] = Tail(@)] /\ renamed' = renamed
    <3>1. rx[c] = c
      BY <1>0, <1>1 DEF HandlerRecv, Typed, Inv, Descriptors
    <3> QED
      BY <1>0, <1>1, <3>1 DEF HandlerRecv, HandlerGoto, Told
  <2>2. \A type : Waits(c, type) => Waits(c, type)' \/ Head(up[c]).type = type
    BY <1>0, <2>1, RequestTaken
  <2>3. got[c].type = "NONE"
    BY <2>1 DEF Threads, Inv
  <2> QED
    BY <2>1, <2>2, <2>3 DEF Announcing
<1>2. CASE HandleName(c)
  BY <1>2 DEF HandleName, HandlerGoto, Announcing, Waits
<1>3. CASE HandlePrivate(c)
  BY <1>3 DEF HandlePrivate, HandlerGoto, Announcing, Waits
<1>4. CASE Connect(c)
  BY <1>0, <1>4 DEF Connect, Handshake
<1>5. ASSUME NEW p, Send(c, p), got' = got, renamed' = renamed \/ p.type = "NICK_SET"
      PROVE  c \in renamed /\ ~ Announcing(c)
  <2>1. \A type : Waits(c, type)' <=> Waits(c, type) \/ p.type = type
    BY <1>0, <1>5, RequestSent
  <2> QED
    BY <1>5, <2>1 DEF Announcing
<1>6. ASSUME NEW nick \in Nick, TypeNick(c, nick) PROVE c \in renamed /\ ~ Announcing(c)
  <2>1. Packet("NICK_SET", nick, 0).type = "NICK_SET" /\ got' = got
    BY <1>6 DEF Packet, TypeNick, Type, ClientUnchanged, handlers
  <2> QED
    BY <1>5, <1>6, <2>1 DEF TypeNick
<1>7. ASSUME NEW nick \in Nick, TypeMsgn(c, nick) PROVE c \in renamed /\ ~ Announcing(c)
  <2>1. PICK p : p = Packet("PRIVATE", nick, Min(Found(peers[c], nick)))
    OBVIOUS
  <2>2. Send(c, p) /\ got' = got /\ renamed' = renamed
    BY <1>7, <2>1 DEF TypeMsgn, Type, ClientUnchanged, handlers
  <2> QED
    BY <1>5, <2>2
<1>8. CASE TypeList(c)
  BY <1>5, <1>8 DEF TypeList, Type, ClientUnchanged, handlers
<1>9. CASE Untouched(c)
  BY <1>9 DEF Untouched, Announcing, Waits
<1> QED
  BY <1>1, <1>2, <1>3, <1>4, <1>6, <1>7, <1>8, <1>9, UntouchedBy

\* And only that ends the handshake of a client.
LEMMA ConnectingStep ==
  ASSUME Inv, Intended, [Next]_vars, NEW d \in Client, Clean(d), ~ Connecting(d)', ~ ListSend(d)
  PROVE  ~ Connecting(d)
<1>0. Typed /\ Told /\ Handshake(d)
  BY DEF Inv, Intended
<1>1. CASE HandlerRecv(d)
  <2>1. /\ up[d] # <<>> /\ handlerPc[d] = "recv" /\ got'[d] = Head(up[d])
        /\ up' = [up EXCEPT ![d] = Tail(@)]
    <3>1. rx[d] = d
      BY <1>0, <1>1 DEF HandlerRecv, Typed, Inv, Descriptors
    <3> QED
      BY <1>0, <1>1, <3>1 DEF HandlerRecv, HandlerGoto, Told
  <2>2. \A type : Waits(d, type) => Waits(d, type)' \/ Head(up[d]).type = type
    BY <1>0, <2>1, RequestTaken
  <2>3. got[d].type = "NONE"
    BY <2>1 DEF Threads, Inv
  <2> QED
    BY <2>1, <2>2, <2>3 DEF Connecting
<1>2. CASE HandleName(d)
  BY <1>0, <1>2 DEF HandleName, HandlerGoto, Connecting, Waits, Typed
<1>3. CASE HandlePrivate(d)
  BY <1>0, <1>3 DEF HandlePrivate, HandlerGoto, Connecting, Waits, Typed
<1>4. ASSUME NEW p, Send(d, p), UNCHANGED <<got, handlerPc>> PROVE ~ Connecting(d)
  <2>1. \A type : Waits(d, type)' <=> Waits(d, type) \/ p.type = type
    BY <1>0, <1>4, RequestSent
  <2> QED
    BY <1>4, <2>1 DEF Connecting
<1>5. CASE Connect(d)
  BY <1>4, <1>5 DEF Connect, ClientUnchanged, handlers
<1>6. ASSUME NEW nick \in Nick, TypeNick(d, nick) PROVE ~ Connecting(d)
  BY <1>4, <1>6 DEF TypeNick, Type, ClientUnchanged, handlers
<1>7. ASSUME NEW nick \in Nick, TypeMsgn(d, nick) PROVE ~ Connecting(d)
  <2>1. PICK p : p = Packet("PRIVATE", nick, Min(Found(peers[d], nick)))
    OBVIOUS
  <2>2. Send(d, p) /\ UNCHANGED <<got, handlerPc>>
    BY <1>7, <2>1 DEF TypeMsgn, Type, ClientUnchanged, handlers
  <2> QED
    BY <1>4, <2>2
<1>8. CASE TypeList(d)
  BY <1>4, <1>8 DEF TypeList, Type, ClientUnchanged, handlers
<1>9. CASE Untouched(d)
  <2>1. \A type : Waits(d, type)' <=> Waits(d, type)
    BY <1>9 DEF Untouched, Waits
  <2>2. ASSUME handlerPc[d] = "none" PROVE FALSE
    <3>1. handlerPc'[d] # "none" /\ status[d] # "off"
      BY <1>9, <2>2 DEF Connecting, Untouched
    <3>2. up[d] # <<>> /\ up[d][1].type = "CONNECT"
      BY <1>0, <2>2, <3>1 DEF Handshake
    <3>3. 1 \in 1..Len(up[d])
      BY <1>0, <3>2, EmptySeq DEF Told
    <3> QED
      BY <2>1, <3>2, <3>3 DEF Connecting, Waits
  <2> QED
    BY <1>9, <2>1, <2>2 DEF Untouched, Connecting
<1> QED
  BY <1>1, <1>2, <1>3, <1>5, <1>6, <1>7, <1>8, <1>9, UntouchedBy

\* Whoever listens, was listening or has just been answered.
LEMMA ListeningStep ==
  ASSUME Inv, Intended, [Next]_vars, NEW d \in Client, Listening(d)', ~ ListSend(d)
  PROVE  Listening(d)
<1>0. Typed /\ Clean(d) /\ Handshake(d) /\ ~ Connecting(d)
  BY HistoryKept, ConnectingStep DEF Inv, Intended, Listening
<1>1. handlerPc[d] # "none" /\ status[d] # "off"
  BY <1>0 DEF Connecting, Handshake
<1>2. d \in m_clients' => d \in m_clients
  <2>1. ASSUME NEW c \in Client, AcceptRegister(c) PROVE d \in m_clients' => d \in m_clients
    <3>1. d # c
      BY <1>1, <2>1 DEF AcceptRegister, Inv, Descriptors
    <3> QED
      BY <2>1, <3>1 DEF AcceptRegister
  <2>2. ASSUME NEW c \in Client, HandleName(c) \/ HandlerRemove(c)
        PROVE  d \in m_clients' => d \in m_clients
    BY <2>2 DEF HandleName, HandlerRemove
  <2> QED
    BY <2>1, <2>2, SessionsKept
<1>3. status'[d] = "up" => status[d] = "up"
  <2>1. ASSUME NEW c \in Client, User(c) \/ Receive(c)
        PROVE  status'[d] = "up" => status[d] = "up"
    BY <1>0, <1>1, <2>1 DEF User, Connect, Type, TypeNick, TypeMsgn, TypeList, Quit, Ends, Receive,
       ReceiveKick, Dropped, ReceiveOther, ClientUnchanged, Typed
  <2>2. ASSUME NEW c \in Client, AcceptRegister(c) \/ Handler(c) \/ \E f \in Fd : AcceptReturn(c, f)
        PROVE  status' = status
    BY <2>2 DEF AcceptReturn, AcceptRegister, Handler, HandlerTest, HandlerEnter, HandlerRecv,
       HandlerRecvFail, HandleName, HandlePrivate, ListBegin, ScanRead, ListSend, HandlerRemove,
       HandlerGoto, clients
  <2>3. CASE Console
    BY <2>3 DEF Console, OperatorFind, ScanRead, OperatorFound, OperatorAct, OperatorUnchanged, clients
  <2>4. CASE UNCHANGED vars
    BY <2>4 DEF vars, clients
  <2> QED
    BY <2>1, <2>2, <2>3, <2>4 DEF Next
<1> QED
  BY <1>0, <1>2, <1>3 DEF Listening

-----------------------------------------------------------------------------
(* The walk through the map                                                *)

\* The map and the walk change in these steps only.
LEMMA WalkKept ==
  ASSUME [Next]_vars,
         ~ \E c \in Client : \/ AcceptRegister(c) \/ HandlerRemove(c) \/ ListBegin(c) \/ ListSend(c)
                             \/ ScanRead(c),
         ~ \E nick \in Nick : OperatorFind(nick),
         ~ (OperatorFound("msgn") \/ OperatorFound("kickn") \/ ScanRead(Operator))
  PROVE  UNCHANGED <<m_clients, id, mutex, scan>>
<1>1. ASSUME NEW c \in Client, \/ HandlerTest(c) \/ HandlerEnter(c) \/ HandlerRecv(c)
                              \/ HandlerRecvFail(c) \/ HandleName(c) \/ HandlePrivate(c)
                              \/ \E f \in Fd : AcceptReturn(c, f)
      PROVE  UNCHANGED <<m_clients, id, mutex, scan>>
  BY <1>1 DEF HandlerTest, HandlerEnter, HandlerRecv, HandlerRecvFail, HandleName, HandlePrivate,
     AcceptReturn, HandlerGoto, server, locks
<1>2. ASSUME NEW c \in Client, User(c) \/ Receive(c)
      PROVE  UNCHANGED <<m_clients, id, mutex, scan>>
  BY <1>2 DEF User, Connect, Type, TypeNick, TypeMsgn, TypeList, Quit, Ends, Receive, ReceiveKick, Dropped,
     ReceiveOther, ClientUnchanged, server, locks
<1>3. CASE OperatorAct
  BY <1>3 DEF OperatorAct, OperatorUnchanged, server, locks
<1>4. CASE UNCHANGED vars
  BY <1>4 DEF vars, server, locks
<1> QED
  BY <1>1, <1>2, <1>3, <1>4 DEF Next, Handler, Console

\* One more entry is read.
LEMMA WalkedRead ==
  ASSUME Inv, Walked, NEW t, ScanRead(t)
  PROVE  Walked'
<1>0. Typed /\ Identities /\ Told
  BY DEF Inv
<1>1. PICK n \in scan.unread : scan' = [unread |-> scan.unread \ {n},
                                        read |-> scan.read \cup {<<id[n], nickname[n]>>}]
  BY <1>0, NextIsUnread DEF ScanRead
<1>2. /\ scan'.unread = scan.unread \ {n}
      /\ scan'.read = scan.read \cup {<<id[n], nickname[n]>>}
      /\ n \in m_clients /\ m_clients \subseteq Client
  BY <1>0, <1>1 DEF Typed
<1>3. UNCHANGED <<mutex, m_clients, id, nickname, up, got, renamed, kicked, crossed>>
  BY DEF ScanRead, server, handlers, history
<1>4. mutex' # Free =>
        \A c \in m_clients' : c \in scan'.unread \/ \E e \in scan'.read : e[1] = id'[c]
  <2> SUFFICES ASSUME mutex # Free, NEW c \in m_clients, c \notin scan.unread \ {n}
               PROVE  \E e \in scan'.read : e[1] = id[c]
    BY <1>2, <1>3
  <2>1. CASE c = n
    <3>1. <<id[n], nickname[n]>> \in scan'.read /\ <<id[n], nickname[n]>>[1] = id[c]
      BY <1>2, <2>1
    <3> QED
      BY <3>1
  <2>2. CASE c # n
    <3>1. PICK e \in scan.read : e[1] = id[c]
      BY <2>2 DEF Walked
    <3> QED
      BY <1>2, <3>1
  <2> QED
    BY <2>1, <2>2
<1>5. ASSUME NEW c \in m_clients', Steady(c)', NEW e \in scan'.read, e[1] = id'[c]
      PROVE  e[2] = nickname'[c]
  <2>1. Steady(c)
    BY <1>3, <1>5 DEF Steady, Announcing, Waits, Clean
  <2>2. CASE e \in scan.read
    BY <1>3, <1>5, <2>1, <2>2 DEF Walked
  <2>3. CASE e = <<id[n], nickname[n]>>
    <3>1. id[n] = id[c] /\ id[n] # 0 /\ n \in Client /\ c \in Client
      BY <1>0, <1>2, <1>3, <1>5, <2>3 DEF Identities
    <3>2. n = c
      BY <1>0, <3>1 DEF Identities
    <3> QED
      BY <1>3, <2>3, <3>2
  <2> QED
    BY <1>2, <1>5, <2>2, <2>3
<1> QED
  BY <1>4, <1>5 DEF Walked

\* The walk meets everybody and reads right what is steady.
LEMMA WalkedStep ==
  ASSUME Inv, Intended, Walked, [Next]_vars
  PROVE  Walked'
<1>1. ASSUME NEW c \in Client, AcceptRegister(c) \/ HandlerRemove(c) PROVE Walked'
  <2>1. mutex' = Free /\ scan' = NoScan
    BY <1>1 DEF AcceptRegister, HandlerRemove, MutexFree, locks, Threads, Inv
  <2> QED
    BY <2>1 DEF Walked, NoScan
<1>2. ASSUME NEW t, ScanBegin(t), m_clients' = m_clients PROVE Walked'
  <2>1. scan'.unread = m_clients' /\ scan'.read = {}
    BY <1>2 DEF ScanBegin
  <2> QED
    BY <2>1 DEF Walked
<1>3. ASSUME NEW t, ScanEnd(t) PROVE Walked'
  BY <1>3 DEF ScanEnd, NoScan, Walked
<1>4. CASE UNCHANGED <<m_clients, id, mutex, scan>>
  <2>1. ASSUME NEW c \in m_clients, Steady(c)' PROVE Steady(c)
    <3>1. c \in Client
      BY DEF Inv, Typed
    <3>2. CASE mutex' = c
      BY <1>4, <3>2 DEF Steady
    <3>3. CASE mutex' # c
      <4>0. Clean(c)
        BY <2>1, <3>1, <3>3, HistoryKept DEF Steady
      <4>1. ListSend(c) \/ (Clean(c) /\ c \in renamed /\ ~ Announcing(c))
        BY <2>1, <3>1, <3>3, <4>0, AnnouncedStep DEF Steady
      <4> QED
        BY <4>1 DEF Steady, ListSend, ScanEnd
    <3> QED
      BY <3>2, <3>3
  <2>2. \A c \in m_clients : Steady(c)' => nickname'[c] = nickname[c] /\ Steady(c)
    BY <2>1, NamesKept
  <2> QED
    BY <1>4, <2>2 DEF Walked
<1>5. ASSUME NEW c \in Client, ListBegin(c) PROVE Walked'
  BY <1>2, <1>5 DEF ListBegin
<1>6. ASSUME NEW c \in Client, ListSend(c) PROVE Walked'
  BY <1>3, <1>6 DEF ListSend
<1>7. ASSUME NEW nick \in Nick, OperatorFind(nick) PROVE Walked'
  BY <1>2, <1>7 DEF OperatorFind, OperatorUnchanged, server
<1>8. ASSUME NEW op, OperatorFound(op) PROVE Walked'
  BY <1>3, <1>8 DEF OperatorFound
<1> QED
  BY <1>1, <1>4, <1>5, <1>6, <1>7, <1>8, WalkedRead, WalkKept

-----------------------------------------------------------------------------
(* The last list                                                           *)

\* A stream of answers on which nothing happens tells what it told.
LEMMA KnowsAsBefore ==
  ASSUME NEW c, NEW d, Knows(d, c), id'[c] = id[c], nickname'[c] = nickname[c],
         down'[d] = down[d], peers'[d] = peers[d]
  PROVE  Knows(d, c)'
BY DEF Knows, Right

\* A message on its way to d changes nothing; a list that is right makes it right.
LEMMA KnowsTold ==
  ASSUME Told, NEW c, NEW d \in Client, NEW p \in Infos,
         down'[d] = Append(down[d], p), peers'[d] = peers[d],
         \/ /\ p.type # "LIST" /\ Knows(d, c)
            /\ id'[c] = id[c] /\ nickname'[c] = nickname[c]
         \/ p.type = "LIST" /\ Right(p.list, c)'
  PROVE  Knows(d, c)'
<1>1. /\ Len(down'[d]) = Len(down[d]) + 1 /\ Len(down[d]) \in Nat
      /\ down'[d][Len(down[d]) + 1] = p
      /\ \A k \in 1..Len(down[d]) : down'[d][k] = down[d][k]
  <2>1. down[d] \in Seq(Infos)
    BY DEF Told
  <2> QED
    BY <2>1, AppendProperties, LenProperties
<1>2. \A k \in 1..Len(down'[d]) : k \in 1..Len(down[d]) \/ k = Len(down[d]) + 1
  BY <1>1
<1>3. Len(down[d]) + 1 \in 1..Len(down'[d])
  BY <1>1
<1>4. CASE p.type # "LIST" /\ Knows(d, c) /\ id'[c] = id[c] /\ nickname'[c] = nickname[c]
  <2>1. \A x : Right(x, c)' <=> Right(x, c)
    BY <1>4 DEF Right
  <2>2. ASSUME NEW k \in 1..Len(down'[d]), down'[d][k].type = "LIST",
               \A r \in (k + 1)..Len(down'[d]) : down'[d][r].type # "LIST"
        PROVE  Right(down[d][k].list, c) /\ down'[d][k] = down[d][k]
    <3>1. k \in 1..Len(down[d]) /\ down'[d][k] = down[d][k]
      BY <1>1, <1>2, <1>4, <2>2
    <3>2. ASSUME NEW r \in (k + 1)..Len(down[d]) PROVE down[d][r].type # "LIST"
      <4>1. r \in (k + 1)..Len(down'[d]) /\ down'[d][r] = down[d][r]
        BY <1>1, <3>1
      <4> QED
        BY <2>2, <4>1
    <3> QED
      BY <1>4, <2>2, <3>1, <3>2 DEF Knows
  <2>3. (\A k \in 1..Len(down'[d]) : down'[d][k].type # "LIST") => Right(peers'[d], c)
    <3>1. ASSUME \A k \in 1..Len(down'[d]) : down'[d][k].type # "LIST",
                 NEW k \in 1..Len(down[d])
          PROVE  down[d][k].type # "LIST"
      <4>1. k \in 1..Len(down'[d])
        BY <1>1
      <4> QED
        BY <1>1, <3>1, <4>1
    <3> QED
      BY <1>4, <3>1 DEF Knows
  <2>4. Right(peers'[d], c) => Right(peers[d], c)'
    BY <1>4 DEF Right
  <2>5. \A k \in 1..Len(down'[d]) :
          /\ down'[d][k].type = "LIST"
          /\ \A r \in (k + 1)..Len(down'[d]) : down'[d][r].type # "LIST"
          => Right(down[d][k].list, c) /\ down'[d][k] = down[d][k]
    BY <2>2
  <2> QED
    BY <1>4, <2>3, <2>4, <2>5 DEF Knows, Right
<1>5. CASE p.type = "LIST" /\ Right(p.list, c)'
  <2>1. ASSUME NEW k \in 1..Len(down'[d]),
               \A r \in (k + 1)..Len(down'[d]) : down'[d][r].type # "LIST"
        PROVE  down'[d][k] = p
    <3>1. CASE k \in 1..Len(down[d])
      <4>1. Len(down[d]) + 1 \in (k + 1)..Len(down'[d])
        BY <1>1, <3>1
      <4> QED
        BY <1>1, <1>5, <2>1, <4>1
    <3> QED
      BY <1>1, <1>2, <3>1
  <2> QED
    BY <1>1, <1>3, <1>5, <2>1 DEF Knows, Right
<1> QED
  BY <1>4, <1>5

\* Reading a list makes it the cache.
LEMMA KnowsRead ==
  ASSUME Told, NEW c, NEW d \in Client, Knows(d, c), id'[c] = id[c], nickname'[c] = nickname[c],
         down[d] # <<>>, down'[d] = Tail(down[d]),
         peers'[d] = IF Head(down[d]).type = "LIST" THEN Head(down[d]).list ELSE peers[d]
  PROVE  Knows(d, c)'
<1>0. \A x : {e \in x : e[1] = id'[c]} = {<<id'[c], nickname'[c]>>} <=> Right(x, c)
  BY DEF Right
<1>1. /\ Len(down'[d]) = Len(down[d]) - 1 /\ Len(down[d]) \in Nat \ {0}
      /\ Head(down[d]) = down[d][1]
      /\ \A k \in 1..Len(down'[d]) : down'[d][k] = down[d][k + 1]
  <2>1. down[d] \in Seq(Infos)
    BY DEF Told
  <2>2. Len(down[d]) \in Nat \ {0}
    BY <2>1, EmptySeq, LenProperties
  <2>3. /\ Len(Tail(down[d])) = Len(down[d]) - 1 /\ Head(down[d]) = down[d][1]
        /\ \A k \in 1..Len(Tail(down[d])) : Tail(down[d])[k] = down[d][k + 1]
    BY <2>1, HeadTailProperties
  <2> QED
    BY <2>2, <2>3
<1>2. \A k \in 1..Len(down'[d]) : k + 1 \in 1..Len(down[d])
  BY <1>1
<1>3. ASSUME NEW k \in 1..Len(down[d]), NEW r \in (k + 1)..Len(down[d])
      PROVE  \E b \in k..Len(down'[d]) : b \in 1..Len(down'[d]) /\ down'[d][b] = down[d][r]
  <2>1. PICK b \in Nat : b + 1 = r
    <3>1. r - 1 \in Nat /\ (r - 1) + 1 = r
      BY <1>1
    <3> QED
      BY <3>1
  <2>2. b \in k..Len(down'[d]) /\ b \in 1..Len(down'[d])
    BY <1>1, <2>1
  <2> QED
    BY <1>1, <2>1, <2>2
<1>4. ASSUME NEW k \in 1..Len(down'[d]), down'[d][k].type = "LIST",
             \A r \in (k + 1)..Len(down'[d]) : down'[d][r].type # "LIST"
      PROVE  Right(down'[d][k].list, c)
  <2>1. k + 1 \in 1..Len(down[d]) /\ down'[d][k] = down[d][k + 1]
    BY <1>1, <1>2
  <2>2. ASSUME NEW r \in ((k + 1) + 1)..Len(down[d]) PROVE down[d][r].type # "LIST"
    <3>1. \E b \in (k + 1)..Len(down'[d]) : b \in 1..Len(down'[d]) /\ down'[d][b] = down[d][r]
      BY <1>3, <2>1
    <3> QED
      BY <1>4, <3>1
  <2> QED
    BY <1>4, <2>1, <2>2 DEF Knows
<1>5. ASSUME \A k \in 1..Len(down'[d]) : down'[d][k].type # "LIST" PROVE Right(peers'[d], c)
  <2>1. 1 \in 1..Len(down[d])
    BY <1>1
  <2>2. ASSUME NEW r \in (1 + 1)..Len(down[d]) PROVE down[d][r].type # "LIST"
    BY <1>3, <1>5, <2>1
  <2>3. CASE down[d][1].type = "LIST"
    BY <1>1, <2>1, <2>2, <2>3 DEF Knows
  <2>4. CASE down[d][1].type # "LIST"
    <3>1. ASSUME NEW r \in 1..Len(down[d]) PROVE down[d][r].type # "LIST"
      <4>1. r = 1 \/ r \in (1 + 1)..Len(down[d])
        BY <1>1
      <4> QED
        BY <2>2, <2>4, <4>1
    <3> QED
      BY <1>1, <2>4, <3>1 DEF Knows
  <2> QED
    BY <2>3, <2>4
<1>6. \A k \in 1..Len(down'[d]) :
        /\ down'[d][k].type = "LIST"
        /\ \A r \in (k + 1)..Len(down'[d]) : down'[d][r].type # "LIST"
        => Right(down'[d][k].list, c)
  BY <1>4
<1> QED
  BY <1>0, <1>5, <1>6 DEF Knows, Right

\* The list that a handler sends is right about every steady client.
LEMMA SentRight ==
  ASSUME Inv, Walked, NEW t \in Client, ListSend(t), NEW c \in m_clients, Steady(c)
  PROVE  Right(scan.read, c)
<1>1. mutex # Free /\ scan.unread = {}
  BY NamesAssumption DEF ListSend, ScanEnd
<1>2. PICK e \in scan.read : e[1] = id[c]
  BY <1>1 DEF Walked
<1>3. \A x \in scan.read : x[1] = id[c] => x = <<id[c], nickname[c]>>
  <2>1. \A x \in scan.read : x = <<x[1], x[2]>>
    BY DEF Inv, Told, Entries, Entry
  <2> QED
    BY <2>1 DEF Walked
<1> QED
  BY <1>2, <1>3 DEF Right

\* What the steps that send no list do to the stream and the cache of d.
LEMMA AnswersStep ==
  ASSUME Inv, [Next]_vars, ~ \E t \in Client : ListSend(t), NEW d \in Client, status'[d] = "up"
  PROVE  \/ down'[d] = down[d] /\ peers'[d] = peers[d]
         \/ \E p \in Infos : /\ p.type # "LIST"
                             /\ down'[d] = Append(down[d], p) /\ peers'[d] = peers[d]
         \/ /\ down[d] # <<>> /\ down'[d] = Tail(down[d])
            /\ peers'[d] = IF Head(down[d]).type = "LIST" THEN Head(down[d]).list ELSE peers[d]
<1>0. Typed /\ down \in [Client -> Seq(Infos)] /\ peers \in [Client -> SUBSET Entries]
  BY DEF Inv, Told
<1> DEFINE Same == down'[d] = down[d] /\ peers'[d] = peers[d]
           More == \E p \in Infos : /\ p.type # "LIST"
                                    /\ down'[d] = Append(down[d], p) /\ peers'[d] = peers[d]
<1>1. ASSUME NEW to, NEW type \in {"PRIVATE", "KICK"}, Deliver(to, Info(type, {})), peers' = peers
      PROVE  Same \/ More
  <2>1. Info(type, {}) \in Infos /\ Info(type, {}).type # "LIST"
    BY <1>1 DEF Info, Infos
  <2>2. down'[d] = down[d] \/ down'[d] = Append(down[d], Info(type, {}))
    BY <1>1 DEF Deliver
  <2> QED
    BY <1>1, <2>1, <2>2
<1>2. ASSUME NEW c \in Client, AcceptRegister(c) \/ \E f \in Fd : AcceptReturn(c, f) PROVE Same
  BY <1>2 DEF AcceptRegister, AcceptReturn, clients
<1>3. ASSUME NEW c \in Client, \/ HandlerTest(c) \/ HandlerEnter(c) \/ HandlerRecv(c)
                              \/ HandlerRecvFail(c) \/ HandleName(c) \/ ListBegin(c)
                              \/ ScanRead(c) \/ HandlerRemove(c)
      PROVE  Same
  BY <1>3 DEF HandlerTest, HandlerEnter, HandlerRecv, HandlerRecvFail, HandleName, ListBegin, ScanRead, HandlerRemove, HandlerGoto,
     clients
<1>4. ASSUME NEW c \in Client, HandlePrivate(c) PROVE Same \/ More
  BY <1>1, <1>4 DEF HandlePrivate, HandlerGoto, clients
<1>5. CASE Console
  <2>1. CASE OperatorAct
    BY <1>1, <2>1 DEF OperatorAct, OperatorUnchanged, clients
  <2>2. CASE ~ OperatorAct
    BY <1>5, <2>2 DEF Console, OperatorFind, ScanRead, OperatorFound, OperatorUnchanged, clients
  <2> QED
    BY <2>1, <2>2
<1>6. ASSUME NEW c \in Client, Connect(c) \/ TypeList(c) \/ \E nick \in Nick : TypeNick(c, nick) \/ TypeMsgn(c, nick)
      PROVE  Same
  BY <1>6 DEF Connect, Type, TypeNick, TypeMsgn, TypeList
<1>7. ASSUME NEW c \in Client, Ends(c) PROVE Same
  BY <1>0, <1>7 DEF Ends, Typed
<1>8. ASSUME NEW c \in Client, c # d, ReceiveOther(c) PROVE Same
  BY <1>0, <1>8 DEF ReceiveOther
<1>9. CASE ReceiveOther(d)
  BY <1>0, <1>9 DEF ReceiveOther
<1>10. CASE UNCHANGED vars
  BY <1>10 DEF vars, clients
<1> QED
  BY <1>2, <1>3, <1>4, <1>5, <1>6, <1>7, <1>8, <1>9, <1>10 DEF Next, Handler, User, Quit, Receive, ReceiveKick,
     Dropped

\* Whoever has been told of a client that is connected has been told right.
LEMMA InformedStep ==
  ASSUME Inv, Intended, Walked, Informed, [Next]_vars
  PROVE  Informed'
<1> SUFFICES ASSUME NEW c \in m_clients', c \in renamed', NEW d \in Client, Clean(c)',
                    ~ Announcing(c)', Listening(d)'
             PROVE  Knows(d, c)'
  BY DEF Informed
<1>0. Typed /\ Told
  BY DEF Inv
<1>1. c \in Client /\ Clean(c) /\ Clean(d)
  <2>1. c \in Client
    BY TypedStep DEF Typed
  <2> QED
    BY <2>1, HistoryKept DEF Listening
<1>2. ListSend(c) \/ (c \in renamed /\ ~ Announcing(c))
  BY <1>1, AnnouncedStep
<1>3. c \in m_clients
  <2>1. ASSUME NEW b \in Client, AcceptRegister(b), b = c PROVE FALSE
    <3>1. handlerPc[c] = "none" /\ UNCHANGED <<up, got>>
      BY <2>1 DEF AcceptRegister, Inv, Descriptors
    <3>2. c \in renamed /\ ~ Announcing(c)
      BY <1>2, <3>1 DEF ListSend, HandlerGoto
    <3> QED
      BY <1>1, <3>1, <3>2 DEF Intended, Intent, Connecting, Announcing
  <2>2. ASSUME NEW b \in Client, AcceptRegister(b) PROVE m_clients' = m_clients \cup {b}
    BY <2>2 DEF AcceptRegister
  <2>3. ASSUME NEW b \in Client, HandleName(b) \/ HandlerRemove(b) PROVE c \in m_clients
    BY <2>3 DEF HandleName, HandlerRemove
  <2> QED
    BY <2>1, <2>2, <2>3, SessionsKept
<1>4. Steady(c)
  BY <1>1, <1>2 DEF Steady, ListSend, ScanEnd
<1>5. id'[c] = id[c] /\ nickname'[c] = nickname[c]
  BY <1>3, <1>4, NamesKept
<1>6. ASSUME NEW t \in Client, ListSend(t) PROVE Knows(d, c)'
  <2>1. /\ Deliver(ListRecipients(t) \cap m_clients, Info("LIST", scan.read))
        /\ UNCHANGED <<m_clients, kicked, status, peers, renamed, up>>
        /\ got' = [got EXCEPT ![t] = NoPacket] /\ mutex = t
    BY <1>6 DEF ListSend, HandlerGoto, Handled, ScanEnd, clients
  <2>2. /\ d \in m_clients /\ status[d] = "up" /\ Denotes(d) = d
        /\ \A e \in m_clients : Denotes(e) = d => e = d
    <3>1. d \in m_clients /\ status[d] = "up"
      BY <2>1 DEF Listening
    <3> QED
      BY <1>1, <3>1, OwnOrCrossed DEF Clean
  <2>3. CASE d \in ListRecipients(t)
    <3>1. PICK p : p = Info("LIST", scan.read)
      OBVIOUS
    <3>2. p \in Infos /\ p.type = "LIST" /\ p.list = scan.read
      BY <1>0, <3>1 DEF Info, Infos, Told
    <3>3. down'[d] = Append(down[d], p) /\ peers'[d] = peers[d]
      BY <2>1, <2>2, <2>3, <3>1 DEF Deliver
    <3>4. Right(p.list, c)'
      <4>1. Right(p.list, c)
        BY <1>3, <1>4, <1>6, <3>2, SentRight
      <4> QED
        BY <1>5, <4>1 DEF Right
    <3> QED
      BY <1>0, <3>2, <3>3, <3>4, KnowsTold
  <2>4. CASE d \notin ListRecipients(t)
    <3>1. got[t].type # "NICK_SET" /\ d # t
      BY <2>4 DEF ListRecipients
    <3>2. down'[d] = down[d] /\ peers'[d] = peers[d]
      BY <2>1, <2>2, <2>4 DEF Deliver
    <3>3. Listening(d)
      <4>1. ~ ListSend(d)
        BY <2>1, <3>1 DEF ListSend, ScanEnd
      <4> QED
        BY <4>1, ListeningStep
    <3>4. c \in renamed /\ ~ Announcing(c)
      <4>1. CASE c = t
        BY <2>1, <3>1, <4>1 DEF Announcing, Waits
      <4>2. CASE c # t
        BY <1>2, <2>1, <4>2 DEF ListSend, ScanEnd
      <4> QED
        BY <4>1, <4>2
    <3> QED
      BY <1>3, <1>5, <3>2, <3>3, <3>4, KnowsAsBefore, <1>1 DEF Informed
  <2> QED
    BY <2>3, <2>4
<1>7. CASE ~ \E t \in Client : ListSend(t)
  <2>1. Listening(d) /\ c \in renamed /\ ~ Announcing(c)
    BY <1>1, <1>2, <1>7, ListeningStep
  <2>2. Knows(d, c)
    BY <1>1, <1>3, <2>1 DEF Informed
  <2>3. status'[d] = "up"
    BY DEF Listening
  <2>4. CASE down'[d] = down[d] /\ peers'[d] = peers[d]
    BY <1>5, <2>2, <2>4, KnowsAsBefore
  <2>5. ASSUME NEW p \in Infos, p.type # "LIST", down'[d] = Append(down[d], p), peers'[d] = peers[d]
        PROVE  Knows(d, c)'
    BY <1>0, <1>5, <2>2, <2>5, KnowsTold
  <2>6. CASE /\ down[d] # <<>> /\ down'[d] = Tail(down[d])
             /\ peers'[d] = IF Head(down[d]).type = "LIST" THEN Head(down[d]).list ELSE peers[d]
    BY <1>0, <1>5, <2>2, <2>6, KnowsRead
  <2> QED
    BY <1>7, <2>3, <2>4, <2>5, <2>6, AnswersStep
<1> QED
  BY <1>6, <1>7

-----------------------------------------------------------------------------
(* The theorems                                                            *)

LEMMA InvInit == Init => Inv
<1> SUFFICES ASSUME Init PROVE Inv
  OBVIOUS
<1>1. Typed
  BY NamesAssumption DEF Init, Typed, NoScan, NoOrder, Names
<1>2. Identities /\ Scanning /\ Reached
  BY DEF Init, Identities, Scanning, NoScan, Reached, ReachesBearer
<1>4. Threads /\ Descriptors
  BY NamesAssumption DEF Init, Threads, NoPacket, Packet, Descriptors
<1>3. Told
  <2>1. NoPacket \in Requests
    BY DEF NoPacket, Packet, Requests, RequestTypes, Names
  <2> QED
    BY <2>1 DEF Init, Told, NoScan, NoOrder
<1> QED
  BY <1>1, <1>2, <1>3, <1>4 DEF Inv

LEMMA InvStep == Inv /\ [Next]_vars => Inv'
BY TypedStep, IdentitiesStep, ToldStep, ThreadsStep, DescriptorsStep, ReachesStep DEF Inv

LEMMA InvHolds == Spec => []Inv
BY InvInit, InvStep, PTL DEF Spec

\* The variables keep their types: ids, nicknames, threads and caches.
THEOREM TypeCorrect == Spec => []TypeOK
<1>1. Inv => TypeOK
  BY DEF Inv, Typed, Told, TypeOK, Entries, Names
<1> QED
  BY <1>1, InvHolds, PTL

\* What a client or the operator does to somebody by nickname is sent to the entry
\* of a client that has or had the nickname, however stale what was looked up, and
\* arrives there unless a newcomer has got the number of a kicked client.
THEOREM ReachesBearerHolds == Spec => []ReachesBearer
<1>1. Inv => ReachesBearer
  BY DEF Inv, Reached
<1> QED
  BY <1>1, InvHolds, PTL

LEMMA NewsInit == Init => News
<1> SUFFICES ASSUME Init PROVE News
  OBVIOUS
<1>1. Threads
  BY NamesAssumption DEF Init, Threads, Inv, NoPacket, Packet
<1>2. Intended
  <2>1. m_nickname \in [Client -> Names]
    BY DEF Init, Names
  <2>2. ASSUME NEW c \in Client PROVE Handshake(c) /\ c \notin renamed
    BY DEF Init, Handshake
  <2> QED
    BY <2>1, <2>2 DEF Intended
<1>3. Walked /\ Informed
  BY DEF Init, Walked, NoScan, Informed
<1> QED
  BY <1>2, <1>3 DEF News

LEMMA NewsStep == Inv /\ News /\ [Next]_vars => News'
BY IntendedStep, WalkedStep, InformedStep DEF News

\* The name a client gave itself with /nick is the only one that a client with
\* nothing left to read or to be answered has for it, in whatever order names are
\* assigned, lists serialised and clients registered.
THEOREM RenameKnown == Spec => []PeersKnowRename
<1>1. Inv /\ News => PeersKnowRename
  <2> SUFFICES ASSUME Inv, News, NEW i \in Client, NEW j \in Client,
                      Settled(i), Settled(j), i \in renamed
               PROVE  {e \in peers[j] : e[1] = id[i]} = {<<id[i], m_nickname[i]>>}
    BY DEF PeersKnowRename
  <2>1. ASSUME NEW c \in Client, Settled(c)
        PROVE  c \in m_clients /\ Clean(c) /\ ~ Announcing(c) /\ Listening(c) /\ Len(down[c]) = 0
    <3>1. c \in m_clients /\ got[c].type = "NONE" /\ status[c] = "up" /\ Clean(c)
      BY <2>1 DEF Settled, Inv, Threads
    <3>2. \A type : ~ Waits(c, type)
      BY <2>1 DEF Settled, Waits
    <3> QED
      BY <2>1, <3>1, <3>2 DEF Settled, Announcing, Listening, Connecting
  <2>2. nickname[i] = m_nickname[i]
    BY <2>1 DEF News, Intended, Intent, Announcing
  <2>3. Knows(j, i)
    BY <2>1 DEF News, Informed
  <2>4. Right(peers[j], i)
    BY <2>1, <2>3 DEF Knows
  <2> QED
    BY <2>2, <2>4 DEF Right
<1>2. Inv /\ News /\ [Next]_vars => (Inv /\ News)'
  BY InvStep, NewsStep
<1>3. Init => Inv /\ News
  BY InvInit, NewsInit
<1> QED
  BY <1>1, <1>2, <1>3, PTL DEF Spec
=============================================================================
