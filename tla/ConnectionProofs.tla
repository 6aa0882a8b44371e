-------------------------- MODULE ConnectionProofs -------------------------
(***************************************************************************)
(* The objects, the table and the connections, for any number of sockets,  *)
(* addresses and nicknames: ObjectsInv is inductive for Spec, and ConnInv  *)
(* as long as the copies of operators are apart from the table.  Before    *)
(* them, facts on the lookups and on the updates of the table.             *)
(***************************************************************************)
EXTENDS IrcServer, SequenceLemmas

(* A scan of the table returns NULL, or one of the entries that match.     *)
LEMMA FirstOfHits ==
  ASSUME ConnTypeOK, NEW hits, hits \subseteq DOMAIN clients
  PROVE  \/ FirstOf(hits) = NULL /\ hits = {}
         \/ \E i \in hits : FirstOf(hits) = clients[i] /\ clients[i] \in Addrs
<1>1. DOMAIN clients = 1..Len(clients) /\ Len(clients) \in Nat
  BY DEF ConnTypeOK
<1>2. CASE hits = {}
  BY <1>2 DEF FirstOf
<1>3. CASE hits # {}
  <2>1. Min(hits) \in hits
    BY <1>1, <1>3, MinInSet
  <2>2. clients[Min(hits)] \in Addrs
    BY <2>1, <1>1 DEF ConnTypeOK
  <2> QED
    BY <2>1, <2>2, <1>3 DEF FirstOf
<1> QED
  BY <1>2, <1>3

(* getClient(fd) returns a block of the table that carries the socket.     *)
LEMMA FoundResult ==
  ASSUME ConnTypeOK, NEW objects, NEW s
  PROVE  \/ Found(objects, s) = NULL
         \/ /\ Found(objects, s) \in Addrs
            /\ Found(objects, s) \in Range(clients)
            /\ objects[Found(objects, s)].fd = s
<1> DEFINE hits == {i \in DOMAIN clients : objects[clients[i]].fd = s}
<1>1. Found(objects, s) = FirstOf(hits)
  BY DEF Found
<1>2. hits \subseteq DOMAIN clients
  OBVIOUS
<1>3. \/ FirstOf(hits) = NULL
      \/ \E i \in hits : FirstOf(hits) = clients[i] /\ clients[i] \in Addrs
  BY <1>2, FirstOfHits
<1> QED
  BY <1>1, <1>3 DEF Range

(* The same, before a handler has changed anything.                        *)
LEMMA GetClientResult ==
  ASSUME ConnTypeOK, NEW s
  PROVE  \/ GetClient(s) = NULL
         \/ /\ GetClient(s) \in Addrs
            /\ GetClient(s) \in Range(clients)
            /\ client[GetClient(s)].fd = s
BY FoundResult DEF GetClient

(* A handler that keeps the numbers in the table keeps what is found.      *)
LEMMA SameSocketsFound ==
  ASSUME ConnTypeOK, NEW objects, NEW s,
         \A a \in Range(clients) : objects[a].fd = client[a].fd
  PROVE  Found(objects, s) = GetClient(s)
<1>1. \A i \in DOMAIN clients : clients[i] \in Range(clients)
  BY DEF Range
<1>2. {i \in DOMAIN clients : objects[clients[i]].fd = s}
        = {i \in DOMAIN clients : client[clients[i]].fd = s}
  BY <1>1
<1> QED
  BY <1>2 DEF GetClient, Found

(* getClient(nickname) returns a block of the table that has the nickname.*)
LEMMA GetClientByNickResult ==
  ASSUME ConnTypeOK, NEW n
  PROVE  \/ GetClientByNick(n) = NULL
         \/ /\ GetClientByNick(n) \in Addrs
            /\ GetClientByNick(n) \in Range(clients)
            /\ client[GetClientByNick(n)].nick = n
<1> DEFINE hits == {i \in DOMAIN clients : client[clients[i]].nick = n}
<1>1. GetClientByNick(n) = FirstOf(hits)
  BY DEF GetClientByNick
<1>2. hits \subseteq DOMAIN clients
  OBVIOUS
<1>3. \/ FirstOf(hits) = NULL
      \/ \E i \in hits : FirstOf(hits) = clients[i] /\ clients[i] \in Addrs
  BY <1>2, FirstOfHits
<1> QED
  BY <1>1, <1>3 DEF Range

(* accept adds its client to the table and keeps the rest.                 *)
LEMMA TableAfterAccept ==
  ASSUME ConnTypeOK, NEW a \in Addrs
  PROVE  LET table == Append(Append(clients, a), a) IN
         /\ table \in Seq(Addrs)
         /\ Range(clients) \subseteq Range(table)
         /\ a \in Range(table)
         /\ Range(table) \subseteq Range(clients) \cup {a}
<1> DEFINE one == Append(clients, a)
           table == Append(one, a)
<1>1. clients \in Seq(Addrs)
  BY DEF ConnTypeOK
<1>2. /\ one \in Seq(Addrs) /\ Len(one) = Len(clients) + 1
      /\ \A i \in 1..Len(clients) : one[i] = clients[i]
  BY <1>1, AppendProperties
<1> HIDE DEF one
<1>3. /\ table \in Seq(Addrs) /\ Len(table) = Len(one) + 1
      /\ \A i \in 1..Len(one) : table[i] = one[i]
      /\ table[Len(one) + 1] = a
  BY <1>2, AppendProperties
<1> HIDE DEF table
<1>4. /\ Len(clients) \in Nat
      /\ DOMAIN clients = 1..Len(clients)
      /\ DOMAIN table = 1..(Len(clients) + 2)
  BY <1>1, <1>2, <1>3
<1>5. \A i \in DOMAIN clients : i \in DOMAIN table /\ table[i] = clients[i]
  BY <1>2, <1>3, <1>4
<1>6. Len(clients) + 2 \in DOMAIN table /\ table[Len(clients) + 2] = a
  BY <1>2, <1>3, <1>4
<1>7. \A i \in DOMAIN table :
        table[i] = a \/ (i \in DOMAIN clients /\ table[i] = clients[i])
  <2>1. one[Len(clients) + 1] = a
    BY <1>1, AppendProperties DEF one
  <2> TAKE i \in DOMAIN table
  <2>2. i \in Nat /\ (i \in 1..Len(clients) \/ i = Len(clients) + 1 \/ i = Len(clients) + 2)
    BY <1>4
  <2>3. CASE i \in 1..Len(clients)
    BY <2>3, <1>2, <1>3, <1>4
  <2>4. CASE i = Len(clients) + 1
    BY <2>1, <2>4, <1>2, <1>3, <1>4
  <2>5. CASE i = Len(clients) + 2
    BY <2>5, <1>2, <1>3, <1>4
  <2> QED
    BY <2>2, <2>3, <2>4, <2>5
<1> QED
  BY <1>3, <1>5, <1>6, <1>7 DEF Range, table, one

(* removeClient closes the gap the entry leaves.                           *)
LEMMA WithoutFirstShape ==
  ASSUME ConnTypeOK, NEW q \in Range(clients)
  PROVE  \E k \in 1..Len(clients) :
           /\ clients[k] = q
           /\ WithoutFirst(q) \in Seq(Addrs)
           /\ Len(WithoutFirst(q)) = Len(clients) - 1
           /\ \A j \in 1..(Len(clients) - 1) :
                WithoutFirst(q)[j] = IF j < k THEN clients[j] ELSE clients[j + 1]
<1>1. /\ clients \in Seq(Addrs)
      /\ DOMAIN clients = 1..Len(clients)
  BY DEF ConnTypeOK
<1>2. \E i \in 1..Len(clients) : clients[i] = q
  BY <1>1 DEF Range
<1> QED
  BY <1>1, <1>2, RemoveFirstShape DEF WithoutFirst

(* removeClient drops one entry of a client, and no other client.          *)
LEMMA TableWithoutFirst ==
  ASSUME ConnTypeOK, NEW q \in Range(clients)
  PROVE  /\ WithoutFirst(q) \in Seq(Addrs)
         /\ \A a \in Range(clients) : a # q => a \in Range(WithoutFirst(q))
         /\ Range(WithoutFirst(q)) \subseteq Range(clients)
<1> DEFINE w == WithoutFirst(q)
<1>1. /\ clients \in Seq(Addrs) /\ Len(clients) \in Nat
      /\ DOMAIN clients = 1..Len(clients)
  BY DEF ConnTypeOK
<1>2. PICK k \in 1..Len(clients) :
        /\ clients[k] = q
        /\ w \in Seq(Addrs)
        /\ Len(w) = Len(clients) - 1
        /\ \A j \in 1..(Len(clients) - 1) :
             w[j] = IF j < k THEN clients[j] ELSE clients[j + 1]
  BY WithoutFirstShape
<1> HIDE DEF w
<1>3. ASSUME NEW a \in Range(clients), a # q
      PROVE  a \in Range(w)
  <2>1. PICK i \in 1..Len(clients) : clients[i] = a
    BY <1>1 DEF Range
  <2>2. DOMAIN w = 1..(Len(clients) - 1)
    BY <1>2
  <2>3. CASE i < k
    <3>1. i \in 1..(Len(clients) - 1) /\ w[i] = a
      BY <2>1, <2>3, <1>1, <1>2
    <3> QED
      BY <3>1, <2>2 DEF Range
  <2>4. CASE i > k
    <3>1. i - 1 \in 1..(Len(clients) - 1) /\ w[i - 1] = a
      BY <2>1, <2>4, <1>1, <1>2
    <3> QED
      BY <3>1, <2>2 DEF Range
  <2>5. i # k
    BY <2>1, <1>2, <1>3
  <2> QED
    BY <2>3, <2>4, <2>5, <1>2, <2>1
<1>4. Range(w) \subseteq Range(clients)
  <2> SUFFICES ASSUME NEW j \in DOMAIN w PROVE \E i \in DOMAIN clients : w[j] = clients[i]
    BY DEF Range
  <2>1. j \in 1..(Len(clients) - 1)
    BY <1>2
  <2> QED
    BY <2>1, <1>1, <1>2
<1> QED
  BY <1>2, <1>3, <1>4 DEF w

-----------------------------------------------------------------------------
(* The lookups find allocated clients only.                                *)
LEMMA GetClientIsLive ==
  ASSUME ConnInv, server = "up", NEW s \in Fds, GetClient(s) # NULL
  PROVE  GetClient(s) \in live /\ client[GetClient(s)].fd = s
<1>1. s # NULL
  BY ConstantsAssumption
<1>2. GetClient(s) \in Range(clients) /\ client[GetClient(s)].fd = s
  BY GetClientResult DEF ConnInv, ObjectsInv
<1> QED
  BY <1>1, <1>2 DEF ConnInv, FreedAreBlank

(* The client a nickname leads to is allocated.                            *)
LEMMA GetClientByNickIsLive ==
  ASSUME ConnInv, server = "up", NEW n \in Nicks, GetClientByNick(n) # NULL
  PROVE  GetClientByNick(n) \in live
<1>1. n # NULL
  BY ConstantsAssumption
<1>2. GetClientByNick(n) \in Range(clients) /\ client[GetClientByNick(n)].nick = n
  BY GetClientByNickResult DEF ConnInv, ObjectsInv
<1> QED
  BY <1>1, <1>2 DEF ConnInv, FreedAreBlank

(***************************************************************************)
(* What authenticateClient does to the objects: it logs one in, when it has*)
(* what that takes.                                                        *)
(***************************************************************************)
LEMMA AuthenticatedObjects ==
  ASSUME NEW objects \in [Addrs -> ClientRecord], NEW q \in Addrs \cup {NULL}
  PROVE  /\ Authenticated(objects, q) \in [Addrs -> ClientRecord]
         /\ \A a \in Addrs :
              /\ Authenticated(objects, q)[a].fd = objects[a].fd
              /\ Authenticated(objects, q)[a].nick = objects[a].nick
              /\ Authenticated(objects, q)[a].pswd = objects[a].pswd
              /\ Authenticated(objects, q)[a].user = objects[a].user
              /\ a # q => Authenticated(objects, q)[a] = objects[a]
         /\ q # NULL =>
              (Authenticated(objects, q)[q].logged <=>
                 \/ objects[q].logged
                 \/ /\ objects[q].nick # NULL
                    /\ objects[q].user
                    /\ objects[q].pswd)
<1>1. CASE q # NULL /\ objects[q].nick # NULL /\ objects[q].user /\ objects[q].pswd
  <2>1. Authenticated(objects, q) = [objects EXCEPT ![q].logged = TRUE]
    BY <1>1 DEF Authenticated
  <2>2. q \in Addrs
    BY <1>1
  <2>3. objects[q] \in ClientRecord
    BY <2>2
  <2>4. Authenticated(objects, q) = [objects EXCEPT ![q] = [objects[q] EXCEPT !.logged = TRUE]]
    BY <2>1
  <2>5. [objects[q] EXCEPT !.logged = TRUE] \in ClientRecord
    BY <2>3 DEF ClientRecord
  <2> QED
    BY <1>1, <2>2, <2>3, <2>4, <2>5 DEF ClientRecord
<1>2. CASE ~(q # NULL /\ objects[q].nick # NULL /\ objects[q].user /\ objects[q].pswd)
  <2>1. Authenticated(objects, q) = objects
    BY <1>2 DEF Authenticated
  <2> QED
    BY <1>2, <2>1
<1> QED
  BY <1>1, <1>2

(***************************************************************************)
(* A command that is not QUIT preserves ObjectsInv if what it does to the  *)
(* objects, before the final check for a login, changes the registration of*)
(* the client of the socket only, takes nothing back from it, and gives no *)
(* nickname twice.                                                         *)
(***************************************************************************)
Keeps(objects, q) ==
  /\ objects \in [Addrs -> ClientRecord]
  /\ \A a \in live :
       /\ a # q => /\ objects[a].pswd = client[a].pswd
                   /\ objects[a].user = client[a].user
                   /\ objects[a].nick = client[a].nick
       /\ objects[a].logged = client[a].logged
       /\ client[a].pswd => objects[a].pswd
       /\ client[a].user => objects[a].user
       /\ client[a].nick # NULL => objects[a].nick # NULL
  /\ \A a, b \in live :
       objects[a].nick = objects[b].nick /\ objects[a].nick # NULL => a = b

(* What every command that is not QUIT comes to, if it does not crash.     *)
Effect(s, p, objects) ==
  /\ Keeps(objects, Found(objects, s))
  /\ Command(s, p)
  /\ EndCommand(s, p, objects)
  /\ firstConnexion' \in BOOLEAN
  /\ live' \subseteq live
  /\ UNCHANGED << server, conn, clients >>

(***************************************************************************)
(* It preserves ConnInv if it gives nothing back, no entry of the table a  *)
(* new number, none but that of the socket another nickname, and changes   *)
(* none but that and the one its call started with.                        *)
(***************************************************************************)
Quiet(s, p, objects) ==
  /\ live' = live
  /\ \A a \in Range(clients) :
       /\ objects[a].fd = client[a].fd
       /\ a # GetClient(s) => objects[a].nick = client[a].nick
       /\ a # GetClient(s) /\ a # p => objects[a] = client[a]

(* What the check for a login makes of the objects.                        *)
LEMMA EffectObjects ==
  ASSUME ConnTypeOK, NEW s \in Fds, NEW p \in Addrs, NEW objects, Effect(s, p, objects)
  PROVE  /\ client' \in [Addrs -> ClientRecord]
         /\ \A a \in Addrs :
              /\ client'[a].fd = objects[a].fd
              /\ client'[a].nick = objects[a].nick
              /\ client'[a].pswd = objects[a].pswd
              /\ client'[a].user = objects[a].user
              /\ a # Found(objects, s) => client'[a] = objects[a]
         /\ Found(objects, s) # NULL =>
              (client'[Found(objects, s)].logged <=>
                 \/ objects[Found(objects, s)].logged
                 \/ /\ objects[Found(objects, s)].nick # NULL
                    /\ objects[Found(objects, s)].user
                    /\ objects[Found(objects, s)].pswd)
<1> DEFINE q == Found(objects, s)
<1>1. q \in Addrs \cup {NULL}
  BY FoundResult
<1>2. client' = Authenticated(objects, q) /\ objects \in [Addrs -> ClientRecord]
  BY DEF Effect, EndCommand, Keeps
<1> HIDE DEF q
<1>3. /\ Authenticated(objects, q) \in [Addrs -> ClientRecord]
      /\ \A a \in Addrs :
           /\ Authenticated(objects, q)[a].fd = objects[a].fd
           /\ Authenticated(objects, q)[a].nick = objects[a].nick
           /\ Authenticated(objects, q)[a].pswd = objects[a].pswd
           /\ Authenticated(objects, q)[a].user = objects[a].user
           /\ a # q => Authenticated(objects, q)[a] = objects[a]
      /\ q # NULL =>
           (Authenticated(objects, q)[q].logged <=>
              \/ objects[q].logged
              \/ objects[q].nick # NULL /\ objects[q].user /\ objects[q].pswd)
  BY <1>1, <1>2, AuthenticatedObjects
<1> QED
  BY <1>2, <1>3 DEF q

(* Such a command preserves ObjectsInv.                                    *)
LEMMA EffectKeepsObjectsInv ==
  ASSUME ObjectsInv, NEW s \in Fds, NEW p \in Addrs, NEW objects, Effect(s, p, objects)
  PROVE  ObjectsInv'
<1> DEFINE q == Found(objects, s)
<1>1. /\ client' \in [Addrs -> ClientRecord]
      /\ \A a \in Addrs :
           /\ client'[a].nick = objects[a].nick
           /\ client'[a].pswd = objects[a].pswd
           /\ client'[a].user = objects[a].user
           /\ a # q => client'[a] = objects[a]
      /\ q # NULL => (client'[q].logged <=>
                        \/ objects[q].logged
                        \/ objects[q].nick # NULL /\ objects[q].user /\ objects[q].pswd)
  BY EffectObjects DEF ObjectsInv
<1>2. Keeps(objects, q) /\ live' \subseteq live /\ UNCHANGED << server, conn, clients >>
  BY DEF Effect
<1>3. handling' \in {NULL} \cup (Fds \X Addrs) /\ firstConnexion' \in BOOLEAN
  BY DEF Effect, EndCommand
<1> HIDE DEF q
<1>4. ConnTypeOK'
  BY <1>1, <1>2, <1>3 DEF ObjectsInv, ConnTypeOK
<1>5. LiveAreListed'
  BY <1>2 DEF ObjectsInv, LiveAreListed
<1>6. LoggedIffRegistered'
  <2> SUFFICES ASSUME NEW a \in live
               PROVE  client'[a].logged <=>
                        client'[a].pswd /\ client'[a].user /\ client'[a].nick # NULL
    BY <1>2 DEF LoggedIffRegistered
  <2>1. a \in Addrs
    BY DEF ObjectsInv, ConnTypeOK
  <2>2. client[a].logged <=> client[a].pswd /\ client[a].user /\ client[a].nick # NULL
    BY DEF ObjectsInv, LoggedIffRegistered
  <2>3. CASE a = q
    <3>1. q # NULL
      BY <2>1, <2>3, ConstantsAssumption
    <3>2. /\ objects[a].logged = client[a].logged
          /\ client[a].pswd => objects[a].pswd
          /\ client[a].user => objects[a].user
          /\ client[a].nick # NULL => objects[a].nick # NULL
      BY <1>2 DEF Keeps
    <3> QED
      BY <3>1, <3>2, <1>1, <2>1, <2>2, <2>3
  <2>4. CASE a # q
    <3>1. /\ objects[a].logged = client[a].logged
          /\ objects[a].pswd = client[a].pswd
          /\ objects[a].user = client[a].user
          /\ objects[a].nick = client[a].nick
      BY <1>2, <2>4 DEF Keeps
    <3> QED
      BY <3>1, <1>1, <2>1, <2>2, <2>4
  <2> QED
    BY <2>3, <2>4
<1>7. UniqueNicks'
  <2> SUFFICES ASSUME NEW a \in live, NEW b \in live,
                      client'[a].nick = client'[b].nick, client'[a].nick # NULL
               PROVE  a = b
    BY <1>2 DEF UniqueNicks
  <2>1. a \in Addrs /\ b \in Addrs
    BY DEF ObjectsInv, ConnTypeOK
  <2> QED
    BY <1>1, <1>2, <2>1 DEF Keeps
<1> QED
  BY <1>4, <1>5, <1>6, <1>7 DEF ObjectsInv

(* When it is quiet, what was found is found after it, and the call of     *)
(* handleConnection does not go on with another pointer.                   *)
LEMMA QuietIsHandled ==
  ASSUME ConnInv, NEW s \in Fds, NEW p \in Addrs, NEW objects,
         Effect(s, p, objects), Quiet(s, p, objects)
  PROVE  /\ Found(objects, s) = GetClient(s)
         /\ handling = NULL => handling' = NULL
         /\ handling' \in {NULL, handling}
<1>1. Found(objects, s) = GetClient(s)
  BY SameSocketsFound DEF Quiet, ConnInv, ObjectsInv
<1>2. CASE handling = NULL
  BY <1>1, <1>2 DEF Effect, Command, EndCommand
<1>3. CASE handling # NULL
  BY <1>1, <1>3 DEF Effect, Command, EndCommand
<1> QED
  BY <1>1, <1>2, <1>3

(* A quiet command preserves ConnInv.                                      *)
LEMMA EffectKeepsConnInv ==
  ASSUME ConnInv, NEW s \in Fds, NEW p \in Addrs, NEW objects,
         Effect(s, p, objects), Quiet(s, p, objects)
  PROVE  ConnInv'
<1>1. server = "up" /\ UNCHANGED << server, live, conn, clients >>
  BY DEF Effect, Command, Quiet
<1>2. ConnTypeOK /\ Range(clients) \subseteq Addrs
  BY DEF ConnInv, ObjectsInv, ConnTypeOK, Range
<1>3. \A a \in Range(clients) :
        client'[a].fd = client[a].fd /\ client'[a].nick = objects[a].nick
  BY <1>2, EffectObjects DEF Quiet
<1>4. ObjectsInv'
  BY EffectKeepsObjectsInv DEF ConnInv
<1>5. FreedAreBlank'
  <2> SUFFICES ASSUME NEW a \in Range(clients) \ live
               PROVE  client'[a].fd = NULL /\ client'[a].nick = NULL
    BY <1>1 DEF FreedAreBlank
  <2>1. client[a].fd = NULL /\ client[a].nick = NULL
    BY <1>1 DEF ConnInv, FreedAreBlank
  <2>2. a # GetClient(s)
    BY <1>1, GetClientIsLive, GetClientResult, <2>1, <1>2, ConstantsAssumption
  <2> QED
    BY <1>3, <2>1, <2>2 DEF Quiet
<1>6. ConnectedAreLive'
  <2> SUFFICES ASSUME NEW t \in Fds, conn[t] # NULL
               PROVE  conn[t] \in live /\ client'[conn[t]].fd = t
    BY <1>1 DEF ConnectedAreLive
  <2>1. conn[t] \in live /\ client[conn[t]].fd = t
    BY DEF ConnInv, ConnectedAreLive
  <2> QED
    BY <1>3, <2>1 DEF ConnInv, ObjectsInv, LiveAreListed
<1>7. HandledIsFreed'
  BY <1>1, QuietIsHandled DEF ConnInv, HandledIsFreed
<1> QED
  BY <1>4, <1>5, <1>6, <1>7 DEF ConnInv

-----------------------------------------------------------------------------
(* The registration commands, each with the objects it leaves.             *)

(* A command that changes no object: one refused, or one about channels.   *)
LEMMA SameObjectsKeep ==
  ASSUME ObjectsInv, NEW q
  PROVE  Keeps(client, q)
BY DEF ObjectsInv, ConnTypeOK, UniqueNicks, Keeps

(* handleNick gives the client a nickname that nobody has.                 *)
LEMMA NewNickKeeps ==
  ASSUME ObjectsInv, NEW q \in Addrs, NEW n, NickUsable(n)
  PROVE  Keeps([client EXCEPT ![q].nick = n], q)
<1> DEFINE objects == [client EXCEPT ![q].nick = n]
<1>1. client \in [Addrs -> ClientRecord] /\ q \in Addrs /\ live \subseteq Addrs
  BY DEF ObjectsInv, ConnTypeOK
<1>2. n \in Nicks /\ n # NULL
  BY ConstantsAssumption DEF NickUsable
<1>3. objects \in [Addrs -> ClientRecord]
  BY <1>1, <1>2 DEF ClientRecord
<1>4. /\ objects[q].nick = n
      /\ objects[q].fd = client[q].fd
      /\ objects[q].pswd = client[q].pswd
      /\ objects[q].user = client[q].user
      /\ objects[q].logged = client[q].logged
      /\ \A a \in Addrs : a # q => objects[a] = client[a]
  BY <1>1 DEF ClientRecord
<1>5. \A a \in live : client[a].nick # n
  BY DEF NickUsable, ObjectsInv, LiveAreListed
<1> HIDE DEF objects
<1>6. ASSUME NEW a \in live, NEW b \in live,
             objects[a].nick = objects[b].nick, objects[a].nick # NULL
      PROVE  a = b
  BY <1>1, <1>4, <1>5, <1>6 DEF ObjectsInv, UniqueNicks
<1>7. Keeps(objects, q)
  BY <1>1, <1>2, <1>3, <1>4, <1>6 DEF Keeps
<1> QED
  BY <1>7 DEF objects

(* handleUser gives the client a user name.                                *)
LEMMA NewUserKeeps ==
  ASSUME ObjectsInv, NEW q \in Addrs
  PROVE  Keeps([client EXCEPT ![q].user = TRUE], q)
<1> DEFINE objects == [client EXCEPT ![q].user = TRUE]
<1>1. client \in [Addrs -> ClientRecord] /\ q \in Addrs /\ live \subseteq Addrs
  BY DEF ObjectsInv, ConnTypeOK
<1>2. objects \in [Addrs -> ClientRecord]
  BY <1>1 DEF ClientRecord
<1>3. /\ objects[q].user = TRUE
      /\ \A a \in Addrs : /\ objects[a].nick = client[a].nick
                          /\ objects[a].fd = client[a].fd
                          /\ objects[a].pswd = client[a].pswd
                          /\ objects[a].logged = client[a].logged
                          /\ a # q => objects[a] = client[a]
  BY <1>1 DEF ClientRecord
<1> HIDE DEF objects
<1>4. Keeps(objects, q)
  BY <1>1, <1>2, <1>3 DEF Keeps, ObjectsInv, UniqueNicks
<1> QED
  BY <1>4 DEF objects

(* What NICK and USER only note changes none of what the invariant is about.*)
LEMMA NotedKeeps ==
  ASSUME ObjectsInv, NEW p \in Addrs, NEW q,
         NEW n \in Nicks \cup {BadNick}, NEW named \in BOOLEAN
  PROVE  /\ Keeps([client EXCEPT ![p].tmpNick = n], q)
         /\ Keeps([client EXCEPT ![p].tmpUser = named], q)
<1>1. client \in [Addrs -> ClientRecord] /\ live \subseteq Addrs
  BY DEF ObjectsInv, ConnTypeOK
<1>2. ASSUME NEW objects \in [Addrs -> ClientRecord],
             \A a \in Addrs : /\ objects[a].nick = client[a].nick
                              /\ objects[a].user = client[a].user
                              /\ objects[a].fd = client[a].fd
                              /\ objects[a].pswd = client[a].pswd
                              /\ objects[a].logged = client[a].logged
      PROVE  Keeps(objects, q)
  BY <1>1, <1>2 DEF Keeps, ObjectsInv, UniqueNicks
<1>3. [client EXCEPT ![p].tmpNick = n] \in [Addrs -> ClientRecord]
  BY <1>1 DEF ClientRecord
<1>4. [client EXCEPT ![p].tmpUser = named] \in [Addrs -> ClientRecord]
  BY <1>1 DEF ClientRecord
<1>5. Keeps([client EXCEPT ![p].tmpNick = n], q)
  BY <1>1, <1>2, <1>3 DEF ClientRecord
<1>6. Keeps([client EXCEPT ![p].tmpUser = named], q)
  BY <1>1, <1>2, <1>4 DEF ClientRecord
<1> QED
  BY <1>5, <1>6

(* handlePass notes the password, and applies what was noted before it.    *)
LEMMA PasswordKeeps ==
  ASSUME ObjectsInv, NEW q \in Addrs, NEW p \in Addrs
  PROVE  Keeps([client EXCEPT ![q] = PassAccepted(q, p)], q)
<1> DEFINE objects == [client EXCEPT ![q] = PassAccepted(q, p)]
           new == PassAccepted(q, p)
<1>1. client \in [Addrs -> ClientRecord] /\ q \in Addrs /\ live \subseteq Addrs
  BY DEF ObjectsInv, ConnTypeOK
<1>2. /\ client[q] \in ClientRecord /\ client[p] \in ClientRecord
      /\ firstConnexion \in BOOLEAN
  BY <1>1 DEF ObjectsInv, ConnTypeOK
<1>3. /\ new.pswd = TRUE
      /\ new.fd = client[q].fd
      /\ new.logged = client[q].logged
      /\ client[q].user => new.user
      /\ \/ new.nick = client[q].nick
         \/ NickUsable(client[p].tmpNick) /\ new.nick = client[p].tmpNick
  BY <1>2 DEF PassAccepted, ClientRecord
<1>4. new \in ClientRecord
  <2>1. NickUsable(client[p].tmpNick) => client[p].tmpNick \in Nicks
    BY DEF NickUsable
  <2>2. (client[q].user \/ (firstConnexion /\ client[p].tmpUser)) \in BOOLEAN
    OBVIOUS
  <2> QED
    BY <1>2, <2>1, <2>2 DEF PassAccepted, ClientRecord
<1>5. /\ objects \in [Addrs -> ClientRecord]
      /\ objects[q] = new
      /\ \A a \in Addrs : a # q => objects[a] = client[a]
  BY <1>1, <1>4
<1> HIDE DEF objects, new
<1>6. \A a \in live : NickUsable(client[p].tmpNick) => client[a].nick # client[p].tmpNick
  BY DEF NickUsable, ObjectsInv, LiveAreListed
<1>7. NickUsable(client[p].tmpNick) => client[p].tmpNick # NULL
  BY ConstantsAssumption DEF NickUsable
<1>8. ASSUME NEW a \in live, NEW b \in live,
             objects[a].nick = objects[b].nick, objects[a].nick # NULL
      PROVE  a = b
  BY <1>1, <1>3, <1>5, <1>6, <1>8 DEF ObjectsInv, UniqueNicks
<1>9. \A a \in live :
        /\ objects[a].logged = client[a].logged
        /\ client[a].pswd => objects[a].pswd
        /\ client[a].user => objects[a].user
        /\ client[a].nick # NULL => objects[a].nick # NULL
  BY <1>1, <1>3, <1>5, <1>7
<1>10. Keeps(objects, q)
  BY <1>1, <1>3, <1>5, <1>8, <1>9 DEF Keeps
<1> QED
  BY <1>10 DEF objects

(* A crash leaves the objects as they are.                                 *)
LEMMA CrashKeepsObjectsInv ==
  ASSUME ObjectsInv, NEW how \in Ends, Crash(how)
  PROVE  ObjectsInv'
<1>1. ConnTypeOK'
  BY DEF Crash, connVars, ObjectsInv, ConnTypeOK
<1> QED
  BY <1>1 DEF Crash, connVars, ObjectsInv, LiveAreListed, LoggedIffRegistered, UniqueNicks

(* And ConnInv.                                                            *)
LEMMA CrashKeepsConnInv ==
  ASSUME ConnInv, NEW how \in Ends, Crash(how)
  PROVE  ConnInv'
<1>1. ObjectsInv'
  BY CrashKeepsObjectsInv DEF ConnInv
<1>2. server' # "up"
  BY DEF Crash, Ends
<1> QED
  BY <1>1, <1>2 DEF Crash, connVars, ConnInv, FreedAreBlank, ConnectedAreLive, HandledIsFreed

(* A command outside of the channels is quiet, and touches no number.      *)
Registers(s, p, objects) ==
  /\ Effect(s, p, objects)
  /\ Quiet(s, p, objects)
  /\ \A a \in Addrs : objects[a].fd = client[a].fd
  /\ UNCHANGED chanVars

(* To see that a command is one, it is enough to look at its objects.      *)
LEMMA RegistersWhenKept ==
  ASSUME ObjectsInv, NEW s \in Fds, NEW p \in Addrs, NEW objects,
         Command(s, p), EndCommand(s, p, objects), Keeps(objects, GetClient(s)),
         \A a \in Addrs : /\ objects[a].fd = client[a].fd
                          /\ a # GetClient(s) => objects[a].nick = client[a].nick
                          /\ a # GetClient(s) /\ a # p => objects[a] = client[a],
         firstConnexion' \in BOOLEAN,
         UNCHANGED << server, live, conn, clients, chanVars >>
  PROVE  Registers(s, p, objects)
<1>1. Range(clients) \subseteq Addrs
  BY DEF ObjectsInv, ConnTypeOK, Range
<1>2. Found(objects, s) = GetClient(s)
  BY <1>1, SameSocketsFound DEF ObjectsInv
<1> QED
  BY <1>1, <1>2 DEF Registers, Effect, Quiet

(* PASS, NICK, USER and a command without effect are such commands, or a   *)
(* NICK after a QUIT ends the process.                                     *)
LEMMA RegistrationEffect ==
  ASSUME ObjectsInv, NEW s \in Fds, NEW p \in Addrs,
         Register(s, p) \/ OtherCommand(s, p)
  PROVE  (\E objects : Registers(s, p, objects)) \/ Crash("null_deref")
<1> DEFINE q == GetClient(s)
<1>1. Command(s, p)
  BY DEF Register, OtherCommand, HandlePass, HandleNick, HandleUser
<1>2. q # NULL => q \in Addrs
  BY GetClientResult DEF ObjectsInv
<1>3. firstConnexion \in BOOLEAN /\ client \in [Addrs -> ClientRecord]
  BY DEF ObjectsInv, ConnTypeOK
<1>4. ASSUME NEW right \in BOOLEAN, HandlePass(s, p, right)
      PROVE  \E objects : Registers(s, p, objects)
  <2> DEFINE objects == IF right /\ q # NULL
                          THEN [client EXCEPT ![q] = PassAccepted(q, p)] ELSE client
  <2>1. Keeps(objects, q)
    <3>1. CASE right /\ q # NULL
      BY <3>1, <1>2, PasswordKeeps
    <3>2. CASE ~(right /\ q # NULL)
      BY <3>2, SameObjectsKeep
    <3> QED
      BY <3>1, <3>2
  <2>2. \A a \in Addrs : /\ objects[a].fd = client[a].fd
                         /\ a # q => objects[a].nick = client[a].nick
                         /\ a # q /\ a # p => objects[a] = client[a]
    BY <1>2, <1>3 DEF PassAccepted, ClientRecord
  <2>3. EndCommand(s, p, objects)
    BY <1>4 DEF HandlePass
  <2> HIDE DEF objects
  <2>4. Registers(s, p, objects)
    BY <1>1, <1>4, <2>1, <2>2, <2>3, RegistersWhenKept DEF HandlePass
  <2> QED
    BY <2>4
<1>5. ASSUME NEW n \in Nicks \cup {BadNick}, HandleNick(s, p, n)
      PROVE  (\E objects : Registers(s, p, objects)) \/ Crash("null_deref")
  <2>1. CASE NickNoted(s, p, n)
    <3> DEFINE objects == [client EXCEPT ![p].tmpNick = n]
    <3>1. Keeps(objects, q)
      BY NotedKeeps
    <3>2. \A a \in Addrs : /\ objects[a].fd = client[a].fd
                           /\ objects[a].nick = client[a].nick
                           /\ a # p => objects[a] = client[a]
      BY <1>3 DEF ClientRecord
    <3>3. EndCommand(s, p, objects)
      BY <2>1 DEF NickNoted
    <3> HIDE DEF objects
    <3>4. Registers(s, p, objects)
      BY <1>1, <1>3, <2>1, <3>1, <3>2, <3>3, RegistersWhenKept DEF NickNoted
    <3> QED
      BY <3>4
  <2>2. CASE NickSet(s, p, n)
    <3> DEFINE objects == [client EXCEPT ![q].nick = n]
    <3>1. Keeps(objects, q)
      BY <2>2, <1>2, NewNickKeeps DEF NickSet
    <3>2. \A a \in Addrs : /\ objects[a].fd = client[a].fd
                           /\ a # q => objects[a] = client[a]
      BY <1>3 DEF ClientRecord
    <3>3. EndCommand(s, p, objects)
      BY <2>2 DEF NickSet
    <3> HIDE DEF objects
    <3>4. Registers(s, p, objects)
      BY <1>1, <1>3, <2>2, <3>1, <3>2, <3>3, RegistersWhenKept DEF NickSet
    <3> QED
      BY <3>4
  <2>3. CASE NickRefused(s, p, n)
    BY <1>1, <1>3, <2>3, SameObjectsKeep, RegistersWhenKept DEF NickRefused
  <2>4. CASE NickCrash(s, n)
    BY <2>4 DEF NickCrash
  <2> QED
    BY <1>5, <2>1, <2>2, <2>3, <2>4 DEF HandleNick
<1>6. ASSUME NEW named \in BOOLEAN, HandleUser(s, p, named)
      PROVE  \E objects : Registers(s, p, objects)
  <2> DEFINE objects == IF firstConnexion THEN [client EXCEPT ![p].tmpUser = named]
                        ELSE IF q # NULL /\ named THEN [client EXCEPT ![q].user = TRUE]
                        ELSE client
  <2>1. Keeps(objects, q)
    <3>1. CASE firstConnexion
      <4>1. BadNick \in Nicks \cup {BadNick}
        OBVIOUS
      <4> QED
        BY <3>1, <4>1, NotedKeeps
    <3>2. CASE ~firstConnexion /\ q # NULL /\ named
      BY <3>2, <1>2, NewUserKeeps
    <3>3. CASE ~firstConnexion /\ ~(q # NULL /\ named)
      BY <3>3, SameObjectsKeep
    <3> QED
      BY <3>1, <3>2, <3>3
  <2>2. \A a \in Addrs : /\ objects[a].fd = client[a].fd
                         /\ objects[a].nick = client[a].nick
                         /\ a # q /\ a # p => objects[a] = client[a]
    BY <1>3 DEF ClientRecord
  <2>3. EndCommand(s, p, objects)
    BY <1>6 DEF HandleUser
  <2> HIDE DEF objects
  <2>4. Registers(s, p, objects)
    BY <1>1, <1>3, <1>6, <2>1, <2>2, <2>3, RegistersWhenKept DEF HandleUser
  <2> QED
    BY <2>4
<1>7. ASSUME OtherCommand(s, p)
      PROVE  \E objects : Registers(s, p, objects)
  <2>1. Registers(s, p, client)
    BY <1>1, <1>3, <1>7, SameObjectsKeep, RegistersWhenKept DEF OtherCommand
  <2> QED
    BY <2>1
<1> QED
  BY <1>4, <1>5, <1>6, <1>7 DEF Register

-----------------------------------------------------------------------------
(***************************************************************************)
(* The channel commands.  Most change no object but for the login they may *)
(* end in; a new channel fills a block, a second operator gives one back.  *)
(***************************************************************************)
LEMMA DoneEffect ==
  ASSUME ObjectsInv, NEW s \in Fds, NEW p \in Addrs, Command(s, p), Done(s, p)
  PROVE  Effect(s, p, client) /\ Quiet(s, p, client)
<1>1. /\ EndCommand(s, p, client)
      /\ firstConnexion' \in BOOLEAN
      /\ UNCHANGED << server, live, conn, clients >>
  BY DEF Done, tableVars, ObjectsInv, ConnTypeOK
<1> QED
  BY <1>1, SameObjectsKeep DEF Effect, Quiet

(* The operator of a new channel, in a block that is no Client.            *)
NewOperator(s, p, ch, a, objects) ==
  /\ a \in Addrs /\ a \notin live \cup held
  /\ copy' = [copy EXCEPT ![ch] = a]
  /\ GetClient(s) # NULL
  /\ \E garbage \in BOOLEAN :
       objects = [client EXCEPT ![a] = OperatorCopy(client[GetClient(s)], garbage)]
  /\ EndCommand(s, p, objects)
  /\ UNCHANGED << tableVars, live >>

(* addAdmin for a second one.                                              *)
Grows(s, p, ch, objects) ==
  /\ objects = WithoutCopy(ch, TRUE)
  /\ EndCommand(s, p, objects)
  /\ Deleted(copy[ch])
  /\ UNCHANGED tableVars

(* A channel command ends in one of these ways, or with the process.       *)
ChannelEffect(s, p, ch, objects) ==
  \/ objects = client /\ Done(s, p)
  \/ \E a : NewOperator(s, p, ch, a, objects)
  \/ Grows(s, p, ch, objects)

(* The copy of a Client is a Client.                                       *)
LEMMA OperatorCopyType ==
  ASSUME NEW c \in ClientRecord, NEW garbage \in BOOLEAN
  PROVE  OperatorCopy(c, garbage) \in ClientRecord /\ OperatorCopy(c, garbage).fd = c.fd
BY DEF OperatorCopy, ClientRecord

(* A channel command takes nothing back from any client.                   *)
LEMMA ChannelEffectIsEffect ==
  ASSUME ObjectsInv, NEW s \in Fds, NEW p \in Addrs, NEW ch \in Chans, NEW objects,
         Command(s, p), ChannelEffect(s, p, ch, objects)
  PROVE  Effect(s, p, objects)
<1>1. client \in [Addrs -> ClientRecord] /\ live \subseteq Addrs /\ firstConnexion \in BOOLEAN
  BY DEF ObjectsInv, ConnTypeOK
<1>2. CASE objects = client /\ Done(s, p)
  BY <1>2, DoneEffect
<1>3. CASE \E a : NewOperator(s, p, ch, a, objects)
  <2>1. PICK a : NewOperator(s, p, ch, a, objects)
    BY <1>3
  <2>2. PICK garbage \in BOOLEAN :
          objects = [client EXCEPT ![a] = OperatorCopy(client[GetClient(s)], garbage)]
    BY <2>1 DEF NewOperator
  <2>3. a \in Addrs /\ a \notin live /\ EndCommand(s, p, objects) /\ UNCHANGED << tableVars, live >>
    BY <2>1 DEF NewOperator
  <2>4. OperatorCopy(client[GetClient(s)], garbage) \in ClientRecord
    BY <1>1, <2>1, OperatorCopyType, GetClientResult DEF NewOperator, ObjectsInv
  <2>5. objects \in [Addrs -> ClientRecord] /\ \A b \in live : objects[b] = client[b]
    BY <1>1, <2>2, <2>3, <2>4
  <2>6. Keeps(objects, Found(objects, s))
    BY <2>5 DEF Keeps, ObjectsInv, UniqueNicks
  <2> QED
    BY <1>1, <2>3, <2>6 DEF Effect, tableVars
<1>4. CASE Grows(s, p, ch, objects)
  <2>1. /\ objects = WithoutCopy(ch, TRUE) /\ EndCommand(s, p, objects)
        /\ live' = live \ {copy[ch]} /\ UNCHANGED tableVars
    BY <1>4 DEF Grows, Deleted
  <2>2. /\ objects \in [Addrs -> ClientRecord]
        /\ \A a \in Addrs : /\ objects[a].nick = client[a].nick
                            /\ objects[a].user = client[a].user
                            /\ objects[a].pswd = client[a].pswd
                            /\ objects[a].logged = client[a].logged
    BY <1>1, <2>1 DEF WithoutCopy, ClientRecord, Numbers
  <2> HIDE DEF WithoutCopy
  <2>3. Keeps(objects, Found(objects, s))
    BY <1>1, <2>2 DEF Keeps, ObjectsInv, UniqueNicks
  <2> QED
    BY <1>1, <2>1, <2>3 DEF Effect, tableVars
<1> QED
  BY <1>2, <1>3, <1>4 DEF ChannelEffect

(* With the copies apart it neither touches an entry of the table nor gives*)
(* a Client back.                                                          *)
LEMMA ChannelEffectIsQuiet ==
  ASSUME ObjectsInv, ChanTypeOK, CopiesApart, CopiesApart',
         NEW s \in Fds, NEW p \in Addrs, NEW ch \in Chans, NEW objects,
         Command(s, p), ChannelEffect(s, p, ch, objects)
  PROVE  Quiet(s, p, objects)
<1>1. client \in [Addrs -> ClientRecord] /\ live \subseteq Addrs /\ live \subseteq Range(clients)
  BY DEF ObjectsInv, ConnTypeOK, LiveAreListed
<1>2. CASE objects = client /\ Done(s, p)
  BY <1>2, DoneEffect
<1>3. CASE \E a : NewOperator(s, p, ch, a, objects)
  <2>1. PICK a : NewOperator(s, p, ch, a, objects)
    BY <1>3
  <2>2. a # NULL /\ copy'[ch] = a /\ clients' = clients /\ live' = live
    BY <2>1, ConstantsAssumption DEF NewOperator, ChanTypeOK, tableVars
  <2>3. a \notin Range(clients)
    BY <2>2 DEF CopiesApart
  <2>4. \A b \in Range(clients) : objects[b] = client[b]
    BY <1>1, <2>1, <2>3 DEF NewOperator, ObjectsInv, ConnTypeOK, Range
  <2> QED
    BY <2>2, <2>4 DEF Quiet
<1>4. CASE Grows(s, p, ch, objects)
  <2>1. objects = WithoutCopy(ch, TRUE) /\ live' = live \ {copy[ch]}
    BY <1>4 DEF Grows, Deleted
  <2>2. copy[ch] \notin Range(clients) /\ copy[ch] \notin live
    <3>1. CASE copy[ch] = NULL
      BY <3>1, <1>1, ConstantsAssumption DEF ObjectsInv, ConnTypeOK, Range
    <3>2. CASE copy[ch] # NULL
      BY <3>2, <1>1 DEF CopiesApart
    <3> QED
      BY <3>1, <3>2
  <2>3. \A b \in Range(clients) : objects[b] = client[b]
    BY <1>1, <2>1, <2>2 DEF WithoutCopy, ObjectsInv, ConnTypeOK, Range
  <2> QED
    BY <2>1, <2>2, <2>3 DEF Quiet
<1> QED
  BY <1>2, <1>3, <1>4 DEF ChannelEffect

(* JOIN, the three ways it ends.                                           *)
LEMMA JoinEffect ==
  ASSUME NEW s \in Fds, NEW p \in Addrs, NEW ch \in Chans, NEW k, HandleJoin(s, p, ch, k)
  PROVE  \E objects : ChannelEffect(s, p, ch, objects)
<1> DEFINE q == GetClient(s)
<1>1. CASE /\ q # NULL
           /\ \E a \in Addrs, garbage \in BOOLEAN :
                /\ CreateChannel(q, a, ch, k)
                /\ EndCommand(s, p, [client EXCEPT ![a] = OperatorCopy(client[q], garbage)])
           /\ UNCHANGED << tableVars, live >>
  <2>1. PICK a \in Addrs, garbage \in BOOLEAN :
          /\ CreateChannel(q, a, ch, k)
          /\ EndCommand(s, p, [client EXCEPT ![a] = OperatorCopy(client[q], garbage)])
    BY <1>1
  <2>2. NewOperator(s, p, ch, a, [client EXCEPT ![a] = OperatorCopy(client[q], garbage)])
    BY <1>1, <2>1 DEF NewOperator, CreateChannel
  <2> QED
    BY <2>2 DEF ChannelEffect
<1>2. CASE Done(s, p)
  BY <1>2 DEF ChannelEffect
<1> QED
  BY <1>1, <1>2 DEF HandleJoin, Refuse

(* The other channel commands.                                             *)
LEMMA ManageEffect ==
  ASSUME NEW s \in Fds, NEW p \in Addrs, NEW ch \in Chans, ManageChannel(s, p, ch)
  PROVE  (\E objects : ChannelEffect(s, p, ch, objects)) \/ Crash("null_deref")
<1>1. ASSUME Done(s, p) PROVE \E objects : ChannelEffect(s, p, ch, objects)
  BY <1>1 DEF ChannelEffect
<1>2. ASSUME NEW t, HandleTopic(s, p, ch, t) PROVE Done(s, p)
  BY <1>2 DEF HandleTopic
<1>3. ASSUME NEW n, HandleKick(s, p, ch, n) \/ HandleInvite(s, p, n, ch) PROVE Done(s, p)
  BY <1>3 DEF HandleKick, HandleInvite
<1>4. ASSUME HandleMode(s, p, ch)
      PROVE  (\E objects : ChannelEffect(s, p, ch, objects)) \/ Crash("null_deref")
  <2>1. CASE ModeCrash(s, ch) \/ ModeRefused(s, p, ch)
    BY <1>1, <2>1 DEF ModeCrash, ModeRefused, Refuse
  <2>2. CASE \E on \in BOOLEAN : ModeFlag(s, p, ch, on)
    BY <1>1, <2>2 DEF ModeFlag
  <2>3. CASE \E k \in Keys \cup {NULL} : ModeKey(s, p, ch, k)
    BY <1>1, <2>3 DEF ModeKey
  <2>4. CASE \E l \in Limits \cup {BadLimit, NULL} : ModeLimit(s, p, ch, l)
    BY <1>1, <2>4 DEF ModeLimit
  <2>5. ASSUME NEW n \in Nicks, NEW on \in BOOLEAN, ModeOperator(s, p, ch, n, on)
        PROVE  (\E objects : ChannelEffect(s, p, ch, objects)) \/ Crash("null_deref")
    <3>1. CASE Refuse(s, p) \/ Crash("null_deref")
      BY <1>1, <3>1 DEF Refuse
    <3>2. CASE /\ SetOperator(ch, client[GetClientByNick(n)].fd, on)
               /\ EndCommand(s, p, WithoutCopy(ch, on))
               /\ UNCHANGED tableVars
      <4>1. CASE on
        <5>1. Grows(s, p, ch, WithoutCopy(ch, TRUE))
          BY <3>2, <4>1 DEF Grows, SetOperator
        <5> QED
          BY <5>1 DEF ChannelEffect
      <4>2. CASE ~on
        BY <1>1, <3>2, <4>2 DEF SetOperator, WithoutCopy, Done
      <4> QED
        BY <4>1, <4>2
    <3> QED
      BY <2>5, <3>1, <3>2 DEF ModeOperator
  <2> QED
    BY <1>4, <2>1, <2>2, <2>3, <2>4, <2>5 DEF HandleMode
<1> QED
  BY <1>1, <1>2, <1>3, <1>4 DEF ManageChannel

(* Any command that is not QUIT: its effect, or the end of the process.    *)
LEMMA RunCommandEffect ==
  ASSUME ObjectsInv, RunCommand
  PROVE  \/ Crash("null_deref") \/ Crash("uncaught")
         \/ \E s \in Fds, p \in Addrs : \E objects :
              /\ Effect(s, p, objects)
              /\ CopiesApart /\ CopiesApart' /\ ChanTypeOK => Quiet(s, p, objects)
<1> PICK s \in Fds, p \in Addrs :
       \/ Register(s, p)
       \/ OtherCommand(s, p)
       \/ \E ch \in Chans : UseChannel(s, p, ch)
       \/ \E hasText \in BOOLEAN : HandlePrivmsg(s, p, hasText)
  BY DEF RunCommand
<1>1. CASE Register(s, p) \/ OtherCommand(s, p)
  BY <1>1, RegistrationEffect DEF Registers
<1>2. CASE \E ch \in Chans : UseChannel(s, p, ch)
  <2>1. PICK ch \in Chans : UseChannel(s, p, ch)
    BY <1>2
  <2>2. Command(s, p)
    BY <2>1 DEF UseChannel, ManageChannel, HandleJoin, HandleTopic, HandleKick, HandleInvite,
       HandleMode, LoggedCommand
  <2>3. (\E objects : ChannelEffect(s, p, ch, objects)) \/ Crash("null_deref")
    BY <2>1, JoinEffect, ManageEffect DEF UseChannel
  <2> QED
    BY <2>2, <2>3, ChannelEffectIsEffect, ChannelEffectIsQuiet
<1>3. CASE \E hasText \in BOOLEAN : HandlePrivmsg(s, p, hasText)
  BY <1>3, DoneEffect DEF HandlePrivmsg, LoggedCommand, Refuse
<1> QED
  BY <1>1, <1>2, <1>3

(* Any command preserves ObjectsInv, and ConnInv with the copies apart.    *)
LEMMA RunCommandKeepsObjectsInv ==
  ASSUME ObjectsInv, RunCommand
  PROVE  ObjectsInv'
BY RunCommandEffect, EffectKeepsObjectsInv, CrashKeepsObjectsInv DEF Ends

(* The latter.                                                             *)
LEMMA RunCommandKeepsConnInv ==
  ASSUME ConnInv, ChanTypeOK, CopiesApart, CopiesApart', RunCommand
  PROVE  ConnInv'
<1>1. ObjectsInv
  BY DEF ConnInv
<1> QED
  BY <1>1, RunCommandEffect, EffectKeepsConnInv, CrashKeepsConnInv DEF Ends

-----------------------------------------------------------------------------
(* acceptClient makes an object that is new, though its address may not be.*)
LEMMA AcceptEffect ==
  ASSUME ConnTypeOK, NEW s \in Fds, NEW a \in Addrs, AcceptClient(s, a)
  PROVE  /\ ConnTypeOK'
         /\ client'[a] = NewClient(s)
         /\ \A b \in Addrs : b # a => client'[b] = client[b]
         /\ NewClient(s).fd = s
         /\ NewClient(s).nick = NULL
         /\ NewClient(s).logged = FALSE
         /\ NewClient(s).pswd = FALSE
         /\ Range(clients') = Range(clients) \cup {a}
<1>1. /\ server' = server /\ handling' = handling
      /\ conn' = [conn EXCEPT ![s] = a]
      /\ live' = live \cup {a}
      /\ client' = [client EXCEPT ![a] = NewClient(s)]
      /\ clients' = Append(Append(clients, a), a)
      /\ firstConnexion' = IsNewClient(s)
  BY DEF AcceptClient
<1>2. clients' \in Seq(Addrs) /\ Range(clients') = Range(clients) \cup {a}
  BY <1>1, TableAfterAccept
<1>3. /\ NewClient(s) \in ClientRecord
      /\ NewClient(s).fd = s
      /\ NewClient(s).nick = NULL
      /\ NewClient(s).logged = FALSE
      /\ NewClient(s).pswd = FALSE
  BY DEF NewClient, ClientRecord, Numbers
<1>4. /\ client'[a] = NewClient(s)
      /\ \A b \in Addrs : b # a => client'[b] = client[b]
      /\ client' \in [Addrs -> ClientRecord]
  BY <1>1, <1>3 DEF ConnTypeOK
<1> HIDE DEF NewClient
<1>5. ConnTypeOK'
  BY <1>1, <1>2, <1>4 DEF ConnTypeOK, IsNewClient
<1> QED
  BY <1>2, <1>3, <1>4, <1>5

(* It preserves ObjectsInv.                                                *)
LEMMA AcceptKeepsObjectsInv ==
  ASSUME ObjectsInv, NEW s \in Fds, NEW a \in Addrs, AcceptClient(s, a)
  PROVE  ObjectsInv'
<1>1. a \notin live /\ live' = live \cup {a}
  BY DEF AcceptClient
<1>2. ConnTypeOK
  BY DEF ObjectsInv
<1>3. /\ ConnTypeOK'
      /\ client'[a] = NewClient(s)
      /\ \A b \in Addrs : b # a => client'[b] = client[b]
      /\ NewClient(s).nick = NULL
      /\ NewClient(s).logged = FALSE
      /\ NewClient(s).pswd = FALSE
      /\ Range(clients') = Range(clients) \cup {a}
  BY <1>2, AcceptEffect
<1> HIDE DEF NewClient
<1>4. LiveAreListed'
  BY <1>1, <1>3 DEF ObjectsInv, LiveAreListed
<1>5. \A b \in live' : b \in Addrs /\ (b = a \/ b \in live)
  BY <1>1, <1>2 DEF ConnTypeOK
<1>6. LoggedIffRegistered'
  BY <1>1, <1>3, <1>5 DEF ObjectsInv, LoggedIffRegistered
<1>7. UniqueNicks'
  BY <1>1, <1>3, <1>5 DEF ObjectsInv, UniqueNicks
<1> QED
  BY <1>3, <1>4, <1>6, <1>7 DEF ObjectsInv

(* And ConnInv.                                                            *)
LEMMA AcceptKeepsConnInv ==
  ASSUME ConnInv, NEW s \in Fds, NEW a \in Addrs, AcceptClient(s, a)
  PROVE  ConnInv'
<1>1. /\ server = "up" /\ server' = server
      /\ handling = NULL /\ handling' = handling
      /\ conn' = [conn EXCEPT ![s] = a]
      /\ a \notin live /\ live' = live \cup {a}
  BY DEF AcceptClient
<1>2. ConnTypeOK /\ Range(clients) \subseteq Addrs
  BY DEF ConnInv, ObjectsInv, ConnTypeOK, Range
<1>3. /\ client'[a] = NewClient(s)
      /\ \A b \in Addrs : b # a => client'[b] = client[b]
      /\ NewClient(s).fd = s
      /\ Range(clients') = Range(clients) \cup {a}
  BY <1>2, AcceptEffect
<1> HIDE DEF NewClient
<1>4. ObjectsInv'
  BY AcceptKeepsObjectsInv DEF ConnInv
<1>5. FreedAreBlank'
  BY <1>1, <1>2, <1>3 DEF ConnInv, FreedAreBlank
<1>6. ConnectedAreLive'
  <2> SUFFICES ASSUME NEW t \in Fds, conn'[t] # NULL
               PROVE  conn'[t] \in live' /\ client'[conn'[t]].fd = t
    BY DEF ConnectedAreLive
  <2>1. CASE t = s
    BY <2>1, <1>1, <1>2, <1>3 DEF ConnTypeOK
  <2>2. CASE t # s
    <3>1. conn'[t] = conn[t]
      BY <2>2, <1>1, <1>2 DEF ConnTypeOK
    <3>2. conn[t] \in live /\ client[conn[t]].fd = t
      BY <3>1 DEF ConnInv, ConnectedAreLive
    <3> QED
      BY <3>1, <3>2, <1>1, <1>2, <1>3 DEF ConnTypeOK
  <2> QED
    BY <2>1, <2>2
<1>7. HandledIsFreed'
  BY <1>1 DEF HandledIsFreed
<1> QED
  BY <1>4, <1>5, <1>6, <1>7 DEF ConnInv

(* A socket that closes leaves the object allocated and listed.            *)
LEMMA DisconnectKeepsObjectsInv ==
  ASSUME ObjectsInv, NEW s \in Fds, Disconnect(s)
  PROVE  ObjectsInv'
<1>1. /\ conn' = [conn EXCEPT ![s] = NULL]
      /\ UNCHANGED << server, firstConnexion, live, client, clients, handling >>
  BY DEF Disconnect
<1>2. ConnTypeOK'
  BY <1>1 DEF ObjectsInv, ConnTypeOK
<1> QED
  BY <1>1, <1>2 DEF ObjectsInv, LiveAreListed, LoggedIffRegistered, UniqueNicks

(* And so does it with ConnInv.                                            *)
LEMMA DisconnectKeepsConnInv ==
  ASSUME ConnInv, NEW s \in Fds, Disconnect(s)
  PROVE  ConnInv'
<1>1. /\ conn' = [conn EXCEPT ![s] = NULL]
      /\ UNCHANGED << server, firstConnexion, live, client, clients, handling >>
  BY DEF Disconnect
<1>2. ObjectsInv'
  BY DisconnectKeepsObjectsInv DEF ConnInv
<1>3. ConnectedAreLive'
  BY <1>1 DEF ConnInv, ObjectsInv, ConnTypeOK, ConnectedAreLive
<1> QED
  BY <1>1, <1>2, <1>3 DEF ConnInv, FreedAreBlank, HandledIsFreed

(* handleQuit frees the block the socket leads to; what still points to it *)
(* finds neither a socket nor a nickname there.                            *)
LEMMA QuitEffect ==
  ASSUME ConnTypeOK, NEW s \in Fds, NEW p \in Addrs, HandleQuit(s, p)
  PROVE  LET q == GetClient(s) IN
         /\ q \in Addrs /\ q \in Range(clients) /\ client[q].fd = s
         /\ live' = live \ {q} /\ held' = held \ {q}
         /\ clients' = WithoutFirst(q)
         /\ Range(clients') \subseteq Range(clients)
         /\ \A a \in Range(clients) : a # q => a \in Range(clients')
         /\ conn' = [conn EXCEPT ![s] = NULL]
         /\ server = "up" /\ server' = server
         /\ client'[q].fd = NULL /\ client'[q].nick = NULL
         /\ \A a \in Addrs : a # q => client'[a] = client[a]
         /\ handling = NULL => p = q
         /\ handling' \in {NULL, <<s, p>>}
         /\ ConnTypeOK'
<1> DEFINE q == GetClient(s)
<1>1. Command(s, p) /\ q # NULL
  BY DEF HandleQuit
<1>2. PICK garbage \in BOOLEAN : QuitClient(s, p, q, garbage)
  BY DEF HandleQuit
<1>3. client[q].fd = s /\ q \in Addrs /\ q \in Range(clients)
  BY <1>1, GetClientResult
<1>4. server = "up" /\ (handling = NULL => p = q)
  BY <1>1 DEF Command
<1> HIDE DEF q
<1>5. /\ clients' = WithoutFirst(q)
      /\ live' = live \ {q} /\ held' = held \ {q}
      /\ client' = [client EXCEPT ![q] = Freed(client[q], garbage)]
      /\ conn' = [conn EXCEPT ![s] = NULL]
      /\ handling' \in {NULL, <<s, p>>}
      /\ server' = server /\ firstConnexion' = firstConnexion
  BY <1>2 DEF QuitClient, Deleted
<1>6. /\ clients' \in Seq(Addrs)
      /\ Range(clients') \subseteq Range(clients)
      /\ \A a \in Range(clients) : a # q => a \in Range(clients')
  BY <1>3, <1>5, TableWithoutFirst
<1>7. client[q] \in ClientRecord
  BY <1>3 DEF ConnTypeOK
<1>8. /\ Freed(client[q], garbage) \in ClientRecord
      /\ Freed(client[q], garbage).fd = NULL
      /\ Freed(client[q], garbage).nick = NULL
  BY <1>7 DEF Freed, NewClient, ClientRecord, Numbers
<1>9. /\ client'[q].fd = NULL /\ client'[q].nick = NULL
      /\ \A a \in Addrs : a # q => client'[a] = client[a]
      /\ client' \in [Addrs -> ClientRecord]
  BY <1>3, <1>5, <1>8 DEF ConnTypeOK
<1>10. ConnTypeOK'
  BY <1>5, <1>6, <1>9 DEF ConnTypeOK
<1> QED
  BY <1>3, <1>4, <1>5, <1>6, <1>9, <1>10 DEF q

(* It preserves ObjectsInv.                                                *)
LEMMA QuitKeepsObjectsInv ==
  ASSUME ObjectsInv, NEW s \in Fds, NEW p \in Addrs, HandleQuit(s, p)
  PROVE  ObjectsInv'
<1> DEFINE q == GetClient(s)
<1>1. /\ live' = live \ {q}
      /\ \A a \in Range(clients) : a # q => a \in Range(clients')
      /\ \A a \in Addrs : a # q => client'[a] = client[a]
      /\ ConnTypeOK'
  BY QuitEffect DEF ObjectsInv
<1> HIDE DEF q
<1>2. \A a \in live' : a \in live /\ a \in Addrs /\ a # q
  BY <1>1 DEF ObjectsInv, ConnTypeOK
<1>3. LiveAreListed'
  BY <1>1, <1>2 DEF ObjectsInv, LiveAreListed
<1>4. LoggedIffRegistered'
  BY <1>1, <1>2 DEF ObjectsInv, LoggedIffRegistered
<1>5. UniqueNicks'
  BY <1>1, <1>2 DEF ObjectsInv, UniqueNicks
<1> QED
  BY <1>1, <1>3, <1>4, <1>5 DEF ObjectsInv

(* And ConnInv: the block it frees is then the Client of the socket.       *)
LEMMA QuitKeepsConnInv ==
  ASSUME ConnInv, NEW s \in Fds, NEW p \in Addrs, HandleQuit(s, p)
  PROVE  ConnInv'
<1> DEFINE q == GetClient(s)
<1>1. /\ q \in Addrs /\ client[q].fd = s
      /\ live' = live \ {q}
      /\ Range(clients') \subseteq Range(clients)
      /\ conn' = [conn EXCEPT ![s] = NULL]
      /\ server = "up" /\ server' = server
      /\ client'[q].fd = NULL /\ client'[q].nick = NULL
      /\ \A a \in Addrs : a # q => client'[a] = client[a]
      /\ handling = NULL => p = q
      /\ handling' \in {NULL, <<s, p>>}
  BY QuitEffect DEF ConnInv, ObjectsInv
<1>2. Command(s, p)
  BY DEF HandleQuit
<1> HIDE DEF q
<1>3. ConnTypeOK /\ Range(clients) \subseteq Addrs
  BY DEF ConnInv, ObjectsInv, ConnTypeOK, Range
<1>4. ObjectsInv'
  BY QuitKeepsObjectsInv DEF ConnInv
<1>5. FreedAreBlank'
  BY <1>1, <1>3 DEF ConnInv, FreedAreBlank
<1>6. ConnectedAreLive'
  <2> SUFFICES ASSUME NEW t \in Fds, conn'[t] # NULL
               PROVE  conn'[t] \in live' /\ client'[conn'[t]].fd = t
    BY DEF ConnectedAreLive
  <2>1. t # s /\ conn'[t] = conn[t]
    BY <1>1, <1>3 DEF ConnTypeOK
  <2>2. conn[t] \in live /\ client[conn[t]].fd = t /\ conn[t] \in Addrs
    BY <2>1, <1>3 DEF ConnInv, ConnectedAreLive, ConnTypeOK
  <2>3. conn[t] # q
    BY <2>1, <2>2, <1>1
  <2> QED
    BY <2>1, <2>2, <2>3, <1>1
<1>7. HandledIsFreed'
  <2>1. p \notin live'
    <3>1. CASE handling = NULL
      BY <3>1, <1>1
    <3>2. CASE handling # NULL
      <4>1. handling = <<s, p>>
        BY <1>2, <3>2 DEF Command
      <4> QED
        BY <4>1, <1>1, <3>2 DEF ConnInv, HandledIsFreed
    <3> QED
      BY <3>1, <3>2
  <2> QED
    BY <2>1, <1>1 DEF HandledIsFreed
<1> QED
  BY <1>4, <1>5, <1>6, <1>7 DEF ConnInv

(* The end of the process by a signal takes clients away, and no more.     *)
LEMMA SignalEffect ==
  ASSUME ConnTypeOK, Signal
  PROVE  /\ ConnTypeOK'
         /\ server' # "up" /\ live' \subseteq live /\ client' = client /\ clients' = clients
         /\ \A s \in Fds : conn'[s] # NULL =>
              conn'[s] = conn[s] /\ (conn[s] \in live /\ client[conn[s]].fd = s
                                       => conn[s] \in live')
<1>1. CASE Hangup
  BY <1>1 DEF Hangup, connVars, ConnTypeOK, Ends
<1>2. CASE SignalHandler /\ FreesOnce
  <2> DEFINE gone == {clients[i] : i \in ClosedEntries}
  <2>1. /\ server' = "stopped"
        /\ live' = live \ gone
        /\ conn' = [s \in Fds |->
                      IF \E i \in ClosedEntries : client[clients[i]].fd = s
                        THEN NULL ELSE conn[s]]
        /\ UNCHANGED << firstConnexion, client, clients, handling >>
    BY <1>2 DEF SignalHandler
  <2>2. ConnTypeOK'
    BY <2>1 DEF ConnTypeOK, Ends
  <2>3. ASSUME NEW s \in Fds, conn'[s] # NULL
        PROVE  conn'[s] = conn[s] /\ (conn[s] \in live /\ client[conn[s]].fd = s
                                        => conn[s] \in live')
    <3>1. conn'[s] = conn[s] /\ \A i \in ClosedEntries : client[clients[i]].fd # s
      BY <2>1, <2>3
    <3> QED
      BY <2>1, <3>1
  <2> QED
    BY <2>1, <2>2, <2>3
<1>3. CASE SignalHandler /\ ~FreesOnce
  BY <1>3 DEF SignalHandler, Crash, connVars, ConnTypeOK, Ends
<1> QED
  BY <1>1, <1>2, <1>3 DEF Signal

(* It preserves ObjectsInv.                                                *)
LEMMA SignalKeepsObjectsInv ==
  ASSUME ObjectsInv, Signal
  PROVE  ObjectsInv'
<1>1. ConnTypeOK' /\ live' \subseteq live /\ client' = client /\ clients' = clients
  BY SignalEffect DEF ObjectsInv
<1> QED
  BY <1>1 DEF ObjectsInv, LiveAreListed, LoggedIffRegistered, UniqueNicks

(* And ConnInv.                                                            *)
LEMMA SignalKeepsConnInv ==
  ASSUME ConnInv, Signal
  PROVE  ConnInv'
<1>1. ConnTypeOK
  BY DEF ConnInv, ObjectsInv
<1>2. ObjectsInv'
  BY SignalKeepsObjectsInv DEF ConnInv
<1>3. FreedAreBlank' /\ HandledIsFreed'
  BY <1>1, SignalEffect DEF FreedAreBlank, HandledIsFreed
<1>4. ConnectedAreLive'
  BY <1>1, SignalEffect DEF ConnInv, ConnectedAreLive
<1> QED
  BY <1>2, <1>3, <1>4 DEF ConnInv

-----------------------------------------------------------------------------
(* The invariant of the connections holds at first and at every step.      *)
LEMMA InitConnInv == Init => ConnInv
<1> SUFFICES ASSUME Init PROVE ConnInv
  OBVIOUS
<1>1. \A a \in Addrs : client[a] = NewClient(NULL)
  BY DEF Init
<1>2. NewClient(NULL) \in ClientRecord
  BY DEF NewClient, ClientRecord, Numbers
<1>3. ConnTypeOK
  BY <1>2 DEF Init, ConnTypeOK
<1>4. Range(clients) = {}
  BY DEF Init, Range
<1> QED
  BY <1>3, <1>4 DEF Init, ConnInv, ObjectsInv, LiveAreListed, FreedAreBlank,
     ConnectedAreLive, HandledIsFreed, LoggedIffRegistered, UniqueNicks

(* Every step of the server preserves ObjectsInv.                          *)
LEMMA NextKeepsObjectsInv == ObjectsInv /\ [Next]_vars => ObjectsInv'
<1> SUFFICES ASSUME ObjectsInv, [Next]_vars PROVE ObjectsInv'
  OBVIOUS
<1>1. CASE Connect
  BY <1>1, AcceptKeepsObjectsInv DEF Connect
<1>2. CASE Leave
  BY <1>2, DisconnectKeepsObjectsInv, QuitKeepsObjectsInv DEF Leave
<1>3. CASE RunCommand
  BY <1>3, RunCommandKeepsObjectsInv
<1>4. CASE Signal
  BY <1>4, SignalKeepsObjectsInv
<1>5. CASE UNCHANGED vars
  BY <1>5 DEF vars, connVars, ObjectsInv, ConnTypeOK, LiveAreListed, LoggedIffRegistered,
     UniqueNicks
<1> QED
  BY <1>1, <1>2, <1>3, <1>4, <1>5 DEF Next

(* And every step that leaves the copies apart preserves ConnInv.          *)
LEMMA NextKeepsConnInv ==
  ConnInv /\ ChanTypeOK /\ CopiesApart /\ CopiesApart' /\ [Next]_vars => ConnInv'
<1> SUFFICES ASSUME ConnInv, ChanTypeOK, CopiesApart, CopiesApart', [Next]_vars
             PROVE  ConnInv'
  OBVIOUS
<1>1. CASE Connect
  BY <1>1, AcceptKeepsConnInv DEF Connect
<1>2. CASE Leave
  BY <1>2, DisconnectKeepsConnInv, QuitKeepsConnInv DEF Leave
<1>3. CASE RunCommand
  BY <1>3, RunCommandKeepsConnInv
<1>4. CASE Signal
  BY <1>4, SignalKeepsConnInv
<1>5. CASE UNCHANGED vars
  BY <1>5 DEF vars, connVars, ConnInv, ObjectsInv, ConnTypeOK, LiveAreListed,
     LoggedIffRegistered, UniqueNicks, FreedAreBlank, ConnectedAreLive, HandledIsFreed
<1> QED
  BY <1>1, <1>2, <1>3, <1>4, <1>5 DEF Next
=============================================================================
