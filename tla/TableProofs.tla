----------------------------- MODULE TableProofs ----------------------------
(***************************************************************************)
(* What holds of the table of clients while QUIT erases entries of it one  *)
(* by one.  The two entries of a client stay together and nothing is freed *)
(* twice before the first QUIT, whatever the copies of operators do; while *)
(* they are apart from the table a regular stop is complete, and a socket  *)
(* leads to one Client for as long as it is open.                          *)
(***************************************************************************)
EXTENDS ChannelProofs

(***************************************************************************)
(* What makes EntriesPaired inductive: of two entries next to each other   *)
(* one is at an odd position, wherever entries before them are erased.     *)
(***************************************************************************)
EntriesAdjacent ==
  server = "up" =>
    \A a \in live : \E i \in 1..(Len(clients) - 1) :
      clients[i] = a /\ clients[i + 1] = a

(* One entry of the two is at a position closing_sockets looks at.         *)
LEMMA AdjacentArePaired == ObjectsInv /\ EntriesAdjacent => EntriesPaired
<1> SUFFICES ASSUME ObjectsInv, EntriesAdjacent, server = "up", NEW a \in live
             PROVE  \E i \in ClosedEntries : clients[i] = a
  BY DEF EntriesPaired
<1>1. Len(clients) \in Nat /\ DOMAIN clients = 1..Len(clients)
  BY DEF ObjectsInv, ConnTypeOK
<1>2. PICK i \in 1..(Len(clients) - 1) : clients[i] = a /\ clients[i + 1] = a
  BY DEF EntriesAdjacent
<1>3. CASE i % 2 = 1
  <2>1. i \in ClosedEntries
    BY <1>1, <1>3 DEF ClosedEntries
  <2> QED
    BY <2>1, <1>2
<1>4. CASE i % 2 # 1
  <2>1. (i + 1) % 2 = 1 /\ i + 1 \in 1..Len(clients)
    BY <1>1, <1>4
  <2>2. i + 1 \in ClosedEntries
    BY <1>1, <2>1 DEF ClosedEntries
  <2> QED
    BY <2>2, <1>2
<1> QED
  BY <1>3, <1>4

(* acceptClient puts its two entries at the end.                           *)
LEMMA AcceptKeepsAdjacent ==
  ASSUME ObjectsInv, EntriesAdjacent, NEW s \in Fds, NEW a \in Addrs, AcceptClient(s, a)
  PROVE  EntriesAdjacent'
<1> DEFINE one == Append(clients, a)
<1>1. server = "up" /\ live' = live \cup {a} /\ clients' = Append(one, a)
  BY DEF AcceptClient
<1>2. clients \in Seq(Addrs) /\ Len(clients) \in Nat
  BY DEF ObjectsInv, ConnTypeOK
<1>3. /\ one \in Seq(Addrs) /\ Len(one) = Len(clients) + 1
      /\ \A i \in 1..Len(clients) : one[i] = clients[i]
      /\ one[Len(clients) + 1] = a
  BY <1>2, AppendProperties
<1> HIDE DEF one
<1>4. /\ Len(clients') = Len(clients) + 2
      /\ \A i \in 1..(Len(clients) + 1) : clients'[i] = one[i]
      /\ clients'[Len(clients) + 2] = a
  BY <1>1, <1>2, <1>3, AppendProperties
<1>5. \A i \in 1..Len(clients) : clients'[i] = clients[i]
  BY <1>2, <1>3, <1>4
<1> SUFFICES ASSUME NEW b \in live'
             PROVE  \E i \in 1..(Len(clients') - 1) :
                      clients'[i] = b /\ clients'[i + 1] = b
  BY DEF EntriesAdjacent
<1>6. CASE b = a
  <2>1. /\ Len(clients) + 1 \in 1..(Len(clients') - 1)
        /\ clients'[Len(clients) + 1] = a
        /\ clients'[(Len(clients) + 1) + 1] = a
    BY <1>2, <1>3, <1>4
  <2> QED
    BY <1>6, <2>1
<1>7. CASE b \in live
  <2>1. PICK i \in 1..(Len(clients) - 1) : clients[i] = b /\ clients[i + 1] = b
    BY <1>1, <1>7 DEF EntriesAdjacent
  <2>2. i \in 1..(Len(clients') - 1) /\ clients'[i] = b /\ clients'[i + 1] = b
    BY <1>2, <1>4, <1>5, <2>1
  <2> QED
    BY <2>2
<1> QED
  BY <1>1, <1>6, <1>7

(* removeClient erases no entry between the two of another client.         *)
LEMMA QuitKeepsAdjacent ==
  ASSUME ObjectsInv, EntriesAdjacent, NEW s \in Fds, NEW p \in Addrs, HandleQuit(s, p)
  PROVE  EntriesAdjacent'
<1> DEFINE q == GetClient(s)
<1>1. server = "up"
  BY DEF HandleQuit, Command
<1>2. live' = live \ {q} /\ clients' = WithoutFirst(q)
  BY DEF HandleQuit, QuitClient, Deleted
<1>3. q \in Range(clients)
  BY QuitEffect DEF ObjectsInv
<1> HIDE DEF q
<1>4. ConnTypeOK /\ Len(clients) \in Nat
  BY DEF ObjectsInv, ConnTypeOK
<1>5. PICK k \in 1..Len(clients) :
        /\ clients[k] = q
        /\ Len(clients') = Len(clients) - 1
        /\ \A j \in 1..(Len(clients) - 1) :
             clients'[j] = IF j < k THEN clients[j] ELSE clients[j + 1]
  BY <1>2, <1>3, <1>4, WithoutFirstShape
<1> SUFFICES ASSUME NEW b \in live'
             PROVE  \E i \in 1..(Len(clients') - 1) :
                      clients'[i] = b /\ clients'[i + 1] = b
  BY DEF EntriesAdjacent
<1>6. PICK i \in 1..(Len(clients) - 1) : clients[i] = b /\ clients[i + 1] = b
  BY <1>1, <1>2 DEF EntriesAdjacent
<1>7. k # i /\ k # i + 1
  BY <1>2, <1>5, <1>6
<1>8. CASE k < i
  <2>1. /\ i - 1 \in 1..(Len(clients') - 1)
        /\ clients'[i - 1] = b
        /\ clients'[(i - 1) + 1] = b
    BY <1>4, <1>5, <1>6, <1>8
  <2> QED
    BY <2>1
<1>9. CASE k > i + 1
  <2>1. /\ i \in 1..(Len(clients') - 1)
        /\ clients'[i] = b
        /\ clients'[i + 1] = b
    BY <1>4, <1>5, <1>6, <1>9
  <2> QED
    BY <2>1
<1> QED
  BY <1>4, <1>5, <1>6, <1>7, <1>8, <1>9

(* No other command touches the table or allocates a Client; it may give a *)
(* block back, or end the process.                                         *)
LEMMA CommandFrame ==
  ASSUME ObjectsInv, RunCommand
  PROVE  /\ server = "up"
         /\ clients' = clients
         /\ live' \subseteq live
         /\ server' \in {server, "uncaught", "null_deref"}
<1>1. server = "up"
  <2> PICK s \in Fds, p \in Addrs :
         \/ Register(s, p)
         \/ OtherCommand(s, p)
         \/ \E ch \in Chans : UseChannel(s, p, ch)
         \/ \E hasText \in BOOLEAN : HandlePrivmsg(s, p, hasText)
    BY DEF RunCommand
  <2>1. ASSUME Register(s, p) \/ OtherCommand(s, p) PROVE Command(s, p)
    BY <2>1 DEF Register, OtherCommand, HandlePass, HandleNick, HandleUser
  <2>2. ASSUME NEW ch, UseChannel(s, p, ch) PROVE Command(s, p)
    BY <2>2 DEF UseChannel, ManageChannel, HandleJoin, HandleTopic, HandleKick,
       HandleInvite, HandleMode, LoggedCommand
  <2>3. ASSUME NEW hasText, HandlePrivmsg(s, p, hasText) PROVE Command(s, p)
    BY <2>3 DEF HandlePrivmsg, LoggedCommand
  <2> QED
    BY <2>1, <2>2, <2>3 DEF Command
<1>2. CASE Crash("null_deref") \/ Crash("uncaught")
  BY <1>1, <1>2 DEF Crash, connVars
<1>3. CASE \E s \in Fds, p \in Addrs : \E objects : Effect(s, p, objects)
  BY <1>1, <1>3 DEF Effect
<1> QED
  BY <1>2, <1>3, RunCommandEffect

(* Every step keeps the entries of a client together.                      *)
LEMMA NextKeepsAdjacent == ObjectsInv /\ EntriesAdjacent /\ [Next]_vars => EntriesAdjacent'
<1> SUFFICES ASSUME ObjectsInv, EntriesAdjacent, [Next]_vars PROVE EntriesAdjacent'
  OBVIOUS
<1>1. CASE Connect
  BY <1>1, AcceptKeepsAdjacent DEF Connect
<1>2. ASSUME NEW s \in Fds, Disconnect(s) PROVE EntriesAdjacent'
  BY <1>2 DEF Disconnect, EntriesAdjacent
<1>3. ASSUME NEW s \in Fds, NEW p \in Addrs, HandleQuit(s, p) PROVE EntriesAdjacent'
  BY <1>3, QuitKeepsAdjacent
<1>4. CASE RunCommand
  <2>1. /\ server = "up" /\ clients' = clients /\ live' \subseteq live
    BY <1>4, CommandFrame
  <2> QED
    BY <2>1 DEF EntriesAdjacent
<1>5. CASE Signal
  BY <1>5 DEF Signal, SignalHandler, Hangup, Crash, EntriesAdjacent
<1>6. CASE UNCHANGED vars
  BY <1>6 DEF vars, connVars, EntriesAdjacent
<1> QED
  BY <1>1, <1>2, <1>3, <1>4, <1>5, <1>6 DEF Next, Leave

(***************************************************************************)
(* The signal handler that ends without deleting twice has closed every    *)
(* socket and freed every client; no other step stops the server.          *)
(***************************************************************************)
LEMMA SignalStopsClean ==
  ASSUME ConnInv, EntriesPaired, SignalHandler
  PROVE  CleanStop'
<1> SUFFICES ASSUME server' = "stopped"
             PROVE  live' = {} /\ \A s \in Fds : conn'[s] = NULL
  BY DEF CleanStop
<1>1. /\ server = "up"
      /\ live' = live \ {clients[i] : i \in ClosedEntries}
      /\ conn' = [s \in Fds |->
                    IF \E i \in ClosedEntries : client[clients[i]].fd = s
                      THEN NULL ELSE conn[s]]
  BY DEF SignalHandler, Crash
<1>2. \A a \in live : \E i \in ClosedEntries : clients[i] = a
  BY <1>1 DEF EntriesPaired
<1>3. live' = {}
  BY <1>1, <1>2
<1>4. ASSUME NEW s \in Fds, conn[s] # NULL
      PROVE  \E i \in ClosedEntries : client[clients[i]].fd = s
  <2>1. conn[s] \in live /\ client[conn[s]].fd = s
    BY <1>4 DEF ConnInv, ConnectedAreLive
  <2> QED
    BY <2>1, <1>2
<1> QED
  BY <1>1, <1>3, <1>4

(* Only the signal handler stops the server, and it stops clean.           *)
LEMMA NextKeepsCleanStop ==
  ConnInv /\ EntriesPaired /\ CleanStop /\ [Next]_vars => CleanStop'
<1> SUFFICES ASSUME ConnInv, EntriesPaired, CleanStop, [Next]_vars PROVE CleanStop'
  OBVIOUS
<1>1. CASE Connect
  BY <1>1 DEF Connect, AcceptClient, CleanStop
<1>2. CASE Leave
  BY <1>2 DEF Leave, Disconnect, HandleQuit, QuitClient, Command, CleanStop
<1>3. CASE RunCommand
  <2>1. server' # "stopped"
    BY <1>3, CommandFrame DEF ConnInv
  <2> QED
    BY <2>1 DEF CleanStop
<1>4. CASE SignalHandler
  BY <1>4, SignalStopsClean
<1>5. CASE Hangup
  BY <1>5 DEF Hangup, CleanStop
<1>6. CASE UNCHANGED vars
  BY <1>6 DEF vars, connVars, CleanStop
<1> QED
  BY <1>1, <1>2, <1>3, <1>4, <1>5, <1>6 DEF Next, Signal

(***************************************************************************)
(* closing_sockets meets every allocated client, although it looks at every*)
(* other entry only and QUIT erases entries one by one.                    *)
(***************************************************************************)
THEOREM EntriesStayPaired == Spec => []EntriesPaired
<1>1. Init => EntriesAdjacent
  BY DEF Init, EntriesAdjacent
<1>2. BaseInv /\ EntriesAdjacent /\ [Next]_vars => EntriesAdjacent'
  BY NextKeepsAdjacent DEF BaseInv
<1>3. BaseInv /\ EntriesAdjacent => EntriesPaired
  BY AdjacentArePaired DEF BaseInv
<1> QED
  BY <1>1, <1>2, <1>3, BaseInvariance, PTL DEF Spec

(* With the copies apart, a regular end leaves no socket open and no client*)
(* allocated.                                                              *)
THEOREM StopsAreClean == Spec /\ []CopiesApart => []CleanStop
<1>1. Init => CleanStop
  BY DEF Init, CleanStop
<1>2. IInv /\ EntriesPaired /\ CleanStop /\ [Next]_vars => CleanStop'
  BY NextKeepsCleanStop DEF IInv
<1> QED
  BY <1>1, <1>2, Invariance, EntriesStayPaired, PTL DEF Spec

-----------------------------------------------------------------------------
(* A lookup by socket returns the first entry that carries it.             *)
LEMMA FirstHit ==
  ASSUME ConnTypeOK, NEW s, GetClient(s) # NULL
  PROVE  \E i \in DOMAIN clients :
           /\ clients[i] = GetClient(s) /\ client[clients[i]].fd = s
           /\ \A j \in DOMAIN clients : client[clients[j]].fd = s => i <= j
<1> DEFINE hits == {i \in DOMAIN clients : client[clients[i]].fd = s}
<1>1. hits \subseteq Nat /\ GetClient(s) = FirstOf(hits)
  BY DEF ConnTypeOK, GetClient, Found
<1>2. hits # {} /\ GetClient(s) = clients[Min(hits)]
  BY <1>1 DEF FirstOf
<1>3. Min(hits) \in hits /\ \A j \in hits : Min(hits) <= j
  BY <1>1, <1>2, MinInSet
<1> QED
  BY <1>2, <1>3

(* The least number of a set is the one below all of them.                 *)
LEMMA MinIsLeast ==
  ASSUME NEW T, T \subseteq Nat, NEW i \in T, \A j \in T : i <= j
  PROVE  Min(T) = i
<1>1. Min(T) \in T /\ Min(T) <= i
  BY MinInSet
<1>2. i <= Min(T) /\ i \in Nat /\ Min(T) \in Nat
  BY <1>1
<1> QED
  BY <1>1, <1>2

(***************************************************************************)
(* After a step the lookup returns the first entry of the new table, which *)
(* may be the old one at another position.                                 *)
(***************************************************************************)
LEMMA FirstHitAfter ==
  ASSUME ConnTypeOK', NEW s, NEW k \in DOMAIN clients', client'[clients'[k]].fd = s,
         \A j \in DOMAIN clients' : client'[clients'[j]].fd = s => k <= j
  PROVE  GetClient(s)' = clients'[k]
<1> DEFINE hits == {i \in DOMAIN clients' : client'[clients'[i]].fd = s}
<1>1. GetClient(s)' = IF hits = {} THEN NULL ELSE clients'[Min(hits)]
  BY DEF GetClient, Found, FirstOf
<1>2. hits \subseteq Nat /\ k \in hits /\ \A j \in hits : k <= j
  BY DEF ConnTypeOK
<1>3. Min(hits) = k
  BY <1>2, MinIsLeast
<1> QED
  BY <1>1, <1>2, <1>3

(* The lookup of an open socket finds a client.                            *)
LEMMA OpenSocketIsFound ==
  ASSUME ConnInv, NEW s \in Fds, conn[s] # NULL
  PROVE  GetClient(s) # NULL
<1> DEFINE hits == {i \in DOMAIN clients : client[clients[i]].fd = s}
<1>1. conn[s] \in Range(clients) /\ client[conn[s]].fd = s
  BY DEF ConnInv, ObjectsInv, ConnectedAreLive, LiveAreListed
<1>2. hits # {} /\ hits \subseteq DOMAIN clients /\ GetClient(s) = FirstOf(hits)
  BY <1>1 DEF Range, GetClient, Found
<1> HIDE DEF hits
<1>3. FirstOf(hits) \in Addrs
  BY <1>2, FirstOfHits DEF ConnInv, ObjectsInv
<1> QED
  BY <1>2, <1>3, ConstantsAssumption

(* A table and numbers that stay lead to the same clients.                 *)
LEMMA SameTable ==
  ASSUME clients' = clients, \A a \in Range(clients) : client'[a].fd = client[a].fd
  PROVE  \A s : GetClient(s)' = GetClient(s)
<1>1. \A i \in DOMAIN clients : clients[i] \in Range(clients)
  BY DEF Range
<1>2. ASSUME NEW s
      PROVE  {i \in DOMAIN clients' : client'[clients'[i]].fd = s}
               = {i \in DOMAIN clients : client[clients[i]].fd = s}
  BY <1>1
<1> QED
  BY <1>2 DEF GetClient, Found, FirstOf

(* Every command but QUIT keeps the table and the sockets of its clients,  *)
(* when it puts no operator there.                                         *)
LEMMA CommandKeepsLookups ==
  ASSUME ConnInv, ChanTypeOK, CopiesApart, CopiesApart', RunCommand
  PROVE  /\ clients' = clients
         /\ live' = live
         /\ \A a \in Range(clients) : client'[a].fd = client[a].fd
         /\ \A s : GetClient(s)' = GetClient(s)
<1>1. CASE Crash("null_deref") \/ Crash("uncaught")
  <2>1. UNCHANGED << live, client, clients >>
    BY <1>1 DEF Crash, connVars
  <2> QED
    BY <2>1, SameTable
<1>2. ASSUME NEW s \in Fds, NEW p \in Addrs, NEW objects,
             Effect(s, p, objects), Quiet(s, p, objects)
      PROVE  /\ clients' = clients /\ live' = live
             /\ \A a \in Range(clients) : client'[a].fd = client[a].fd
  BY <1>2, QuietFrame DEF Effect
<1>3. ObjectsInv
  BY DEF ConnInv
<1> QED
  BY <1>1, <1>2, <1>3, RunCommandEffect, SameTable

(***************************************************************************)
(* accept adds its client behind all others, and gives a socket to an      *)
(* object that pointers to a freed one may lead to: what the lookups found *)
(* before they find again.                                                 *)
(***************************************************************************)
LEMMA AcceptKeepsLookup ==
  ASSUME ConnInv, ConnTypeOK', NEW t \in Fds, NEW a \in Addrs, AcceptClient(t, a),
         NEW s \in Fds, GetClient(s) # NULL, s # t \/ a \notin Range(clients)
  PROVE  GetClient(s)' = GetClient(s)
<1>1. /\ server = "up" /\ a \notin live
      /\ client' = [client EXCEPT ![a] = NewClient(t)]
      /\ clients' = Append(Append(clients, a), a)
  BY DEF AcceptClient
<1>2. PICK i \in DOMAIN clients :
        /\ clients[i] = GetClient(s) /\ client[clients[i]].fd = s
        /\ \A j \in DOMAIN clients : client[clients[j]].fd = s => i <= j
  BY FirstHit DEF ConnInv, ObjectsInv
<1>3. /\ clients \in Seq(Addrs) /\ client \in [Addrs -> ClientRecord]
      /\ Len(clients) \in Nat /\ DOMAIN clients = 1..Len(clients)
  BY DEF ConnInv, ObjectsInv, ConnTypeOK
<1>4. /\ DOMAIN clients' = 1..(Len(clients) + 2)
      /\ \A j \in 1..Len(clients) : clients'[j] = clients[j]
  BY <1>1, <1>3
<1>5. GetClient(s) \in live
  BY <1>1, GetClientIsLive
<1>6. i \in DOMAIN clients' /\ clients'[i] = GetClient(s) /\ client'[clients'[i]].fd = s
  BY <1>1, <1>2, <1>3, <1>4, <1>5
<1>7. ASSUME NEW j \in DOMAIN clients', client'[clients'[j]].fd = s
      PROVE  i <= j
  <2>1. CASE j \in 1..Len(clients)
    <3>1. clients'[j] = clients[j] /\ clients[j] \in Addrs /\ clients[j] \in Range(clients)
      BY <1>3, <1>4, <2>1 DEF Range
    <3>2. clients[j] # a
      BY <1>1, <1>3, <1>7, <3>1 DEF NewClient
    <3>3. client[clients[j]].fd = s
      BY <1>1, <1>3, <1>7, <3>1, <3>2
    <3> QED
      BY <1>2, <1>3, <2>1, <3>3
  <2>2. CASE j \notin 1..Len(clients)
    BY <1>2, <1>3, <1>4, <2>2
  <2> QED
    BY <2>1, <2>2
<1>8. GetClient(s)' = clients'[i]
  BY <1>6, <1>7, FirstHitAfter
<1> QED
  BY <1>6, <1>8

(***************************************************************************)
(* QUIT erases an entry of its own client and empties its socket: for the  *)
(* other sockets the first entry stays the first.                          *)
(***************************************************************************)
LEMMA QuitKeepsLookup ==
  ASSUME ConnInv, ConnTypeOK', NEW t \in Fds, NEW p \in Addrs, HandleQuit(t, p),
         NEW s \in Fds, s # t, GetClient(s) # NULL
  PROVE  GetClient(s)' = GetClient(s)
<1> DEFINE q == GetClient(t)
<1>1. server = "up" /\ q # NULL
  BY DEF HandleQuit, Command
<1>2. PICK garbage \in BOOLEAN :
        client' = [client EXCEPT ![q] = Freed(client[q], garbage)]
  BY DEF HandleQuit, QuitClient
<1>3. clients' = WithoutFirst(q)
  BY DEF HandleQuit, QuitClient
<1>4. q \in Addrs /\ q \in Range(clients) /\ client[q].fd = t
  BY <1>1, GetClientResult DEF ConnInv, ObjectsInv
<1> HIDE DEF q
<1>5. /\ ConnTypeOK /\ clients \in Seq(Addrs) /\ client \in [Addrs -> ClientRecord]
      /\ Len(clients) \in Nat /\ DOMAIN clients = 1..Len(clients)
  BY DEF ConnInv, ObjectsInv, ConnTypeOK
<1>6. PICK k \in 1..Len(clients) :
        /\ clients[k] = q
        /\ clients' \in Seq(Addrs)
        /\ Len(clients') = Len(clients) - 1
        /\ \A j \in 1..(Len(clients) - 1) :
             clients'[j] = IF j < k THEN clients[j] ELSE clients[j + 1]
  BY <1>3, <1>4, <1>5, WithoutFirstShape
<1>7. DOMAIN clients' = 1..(Len(clients) - 1)
  BY <1>5, <1>6
<1>8. PICK i \in DOMAIN clients :
        /\ clients[i] = GetClient(s) /\ client[clients[i]].fd = s
        /\ \A j \in DOMAIN clients : client[clients[j]].fd = s => i <= j
  BY <1>5, FirstHit
<1>9. i # k /\ clients[i] # q
  BY <1>4, <1>6, <1>8
<1>10. \A b \in Addrs : client'[b].fd = s => b # q /\ client[b].fd = s
  <2>1. client'[q].fd = NULL
    BY <1>2, <1>4, <1>5 DEF Freed, NewClient
  <2>2. NULL # s
    BY ConstantsAssumption
  <2>3. \A b \in Addrs : b # q => client'[b] = client[b]
    BY <1>2, <1>5
  <2> QED
    BY <2>1, <2>2, <2>3
<1> DEFINE at == IF i < k THEN i ELSE i - 1
<1>11. at \in DOMAIN clients' /\ clients'[at] = GetClient(s)
  BY <1>5, <1>6, <1>7, <1>8, <1>9
<1>12. client'[clients'[at]].fd = s
  BY <1>2, <1>5, <1>8, <1>9, <1>11
<1>13. ASSUME NEW j \in DOMAIN clients', client'[clients'[j]].fd = s
       PROVE  at <= j
  <2> DEFINE old == IF j < k THEN j ELSE j + 1
  <2>1. old \in DOMAIN clients /\ clients'[j] = clients[old] /\ clients[old] \in Addrs
    BY <1>5, <1>6, <1>7
  <2>2. i <= old
    BY <1>8, <1>10, <1>13, <2>1
  <2> QED
    BY <1>5, <1>7, <1>9, <2>2
<1> HIDE DEF at
<1>14. GetClient(s)' = clients'[at]
  BY <1>11, <1>12, <1>13, FirstHitAfter
<1> QED
  BY <1>11, <1>14

(* What LookupIsStable says of one step.                                   *)
SameLookup ==
  \A s \in Fds :
    server' = "up" /\ conn[s] # NULL /\ conn'[s] = conn[s] => GetClient(s)' = GetClient(s)

(* No step that leaves the copies apart changes what an open socket leads  *)
(* to.                                                                     *)
LEMMA NextKeepsLookup ==
  IInv /\ IInv' /\ CopiesApart /\ CopiesApart' /\ [Next]_vars => SameLookup
<1> SUFFICES ASSUME IInv, IInv', CopiesApart, CopiesApart', [Next]_vars, NEW s \in Fds,
                    server' = "up", conn[s] # NULL, conn'[s] = conn[s]
             PROVE  GetClient(s)' = GetClient(s)
  BY DEF SameLookup
<1> ConnInv /\ ChanTypeOK
  BY DEF IInv, ChanInv, ListsInv
<1>1. GetClient(s) # NULL /\ ConnTypeOK /\ ConnTypeOK'
  BY OpenSocketIsFound DEF IInv, ConnInv, ObjectsInv
<1>2. CASE Connect
  <2>1. PICK t \in Fds, a \in Addrs : AcceptClient(t, a)
    BY <1>2 DEF Connect
  <2>2. t # s
    BY <2>1 DEF AcceptClient, LowestFree
  <2> QED
    BY <1>1, <2>1, <2>2, AcceptKeepsLookup
<1>3. ASSUME UNCHANGED << client, clients >> PROVE GetClient(s)' = GetClient(s)
  BY <1>3, SameTable
<1>4. ASSUME NEW t \in Fds, NEW p \in Addrs, HandleQuit(t, p)
      PROVE  GetClient(s)' = GetClient(s)
  <2>1. conn' = [conn EXCEPT ![t] = NULL]
    BY <1>4 DEF HandleQuit, QuitClient
  <2>2. t # s
    BY <1>1, <2>1 DEF ConnTypeOK
  <2> QED
    BY <1>1, <1>4, <2>2, QuitKeepsLookup
<1>5. CASE RunCommand
  BY <1>5, CommandKeepsLookups
<1>6. CASE Signal
  BY <1>1, <1>3, <1>6, SignalEffect
<1>7. CASE (\E t \in Fds : Disconnect(t)) \/ UNCHANGED vars
  BY <1>3, <1>7 DEF Disconnect, vars, connVars
<1> QED
  BY <1>2, <1>4, <1>5, <1>6, <1>7 DEF Next, Leave

(***************************************************************************)
(* With the copies apart, the pointer handleConnection has looked up is the*)
(* one each handler finds again, for as long as the socket is open: with   *)
(* two entries per client, entries erased in front of it, and freed objects*)
(* used again for others.                                                  *)
(***************************************************************************)
THEOREM LookupsAreStable == Spec /\ []CopiesApart => LookupIsStable
<1>1. IInv /\ IInv' /\ CopiesApart /\ CopiesApart' /\ [Next]_vars => [SameLookup]_vars
  BY NextKeepsLookup
<1> QED
  BY <1>1, Invariance, PTL DEF Spec, LookupIsStable, SameLookup

-----------------------------------------------------------------------------
(* The allocated clients are finitely many: each is in the table.          *)
LEMMA LiveIsFinite == ObjectsInv => IsFiniteSet(live) /\ Cardinality(live) \in Nat
<1> SUFFICES ASSUME ObjectsInv PROVE IsFiniteSet(live) /\ Cardinality(live) \in Nat
  OBVIOUS
<1>1. IsFiniteSet(Range(clients)) /\ live \subseteq Range(clients)
  BY RangeIsFinite DEF ObjectsInv, ConnTypeOK, LiveAreListed
<1>2. IsFiniteSet(live)
  BY <1>1, FS_Subset
<1> QED
  BY <1>2, FS_CardinalityType

(***************************************************************************)
(* With two entries per client there are as many odd positions as clients. *)
(* Each client is at one of them, so that each of them has a client, and no*)
(* two the same.                                                           *)
(***************************************************************************)
LEMMA PairsAreFreedOnce == ObjectsInv /\ EntriesPaired => FreesOnceBeforeQuit
<1> SUFFICES ASSUME ObjectsInv, EntriesPaired, server = "up",
                    Len(clients) = 2 * Cardinality(live)
             PROVE  FreesOnce
  BY DEF FreesOnceBeforeQuit
<1> DEFINE n == Cardinality(live)
           odd == [j \in 1..n |-> clients[2 * j - 1]]
           freed == {odd[j] : j \in 1..n}
<1>1. n \in Nat /\ IsFiniteSet(live) /\ DOMAIN clients = 1..(2 * n)
  BY LiveIsFinite DEF ObjectsInv, ConnTypeOK
<1>2. \A i \in ClosedEntries : \E j \in 1..n : i = 2 * j - 1
  <2> TAKE i \in ClosedEntries
  <2>1. i \in 1..(2 * n) /\ i % 2 = 1
    BY <1>1 DEF ClosedEntries
  <2>2. (i + 1) \div 2 \in 1..n /\ i = 2 * ((i + 1) \div 2) - 1
    BY <1>1, <2>1
  <2> QED
    BY <2>2
<1>3. live \subseteq freed
  BY <1>2 DEF EntriesPaired
<1>4. odd \in Surjection(1..n, freed)
  BY DEF Surjection
<1>5. IsFiniteSet(1..n) /\ Cardinality(1..n) = n
  BY <1>1, FS_Interval
<1> HIDE DEF odd, freed
<1>6. /\ IsFiniteSet(freed) /\ Cardinality(freed) <= n
      /\ Cardinality(freed) = n => odd \in Injection(1..n, freed)
  BY <1>4, <1>5, FS_Surjection
<1>7. n <= Cardinality(freed) /\ (Cardinality(freed) = n => freed = live)
  BY <1>3, <1>6, FS_Subset DEF n
<1>8. Cardinality(freed) \in Nat
  BY <1>6, FS_CardinalityType
<1>9. freed = live /\ odd \in Injection(1..n, freed)
  BY <1>1, <1>6, <1>7, <1>8
<1>10. \A j, k \in 1..n : odd[j] = odd[k] => j = k
  BY <1>9 DEF Injection, IsInjective
<1>11. \A j \in 1..n : odd[j] \in live /\ odd[j] = clients[2 * j - 1]
  BY <1>9 DEF odd, freed
<1> QED
  BY <1>2, <1>10, <1>11 DEF FreesOnce

(***************************************************************************)
(* Until the first QUIT closing_sockets frees each client once: it is the  *)
(* entry that removeClient leaves that makes it free one twice.            *)
(***************************************************************************)
THEOREM NoDoubleFreeBeforeQuit == Spec => []FreesOnceBeforeQuit
<1>1. BaseInv /\ EntriesPaired => FreesOnceBeforeQuit
  BY PairsAreFreedOnce DEF BaseInv
<1> QED
  BY <1>1, BaseInvariance, EntriesStayPaired, PTL
=============================================================================
