----------------------------- MODULE IrcServer -----------------------------
(***************************************************************************)
(* The server: the loop of Server::run over the events of all connections, *)
(* and what must hold between any two of its steps.                        *)
(***************************************************************************)
EXTENDS Connections, Registration, ChannelCommands

Connect == \E s \in Fds, a \in Addrs : AcceptClient(s, a)

Leave == \E s \in Fds : Disconnect(s) \/ \E p \in Addrs : HandleQuit(s, p)

Register(s, p) ==
  \/ \E right \in BOOLEAN : HandlePass(s, p, right)
  \/ \E n \in Nicks \cup {BadNick} : HandleNick(s, p, n)
  \/ \E named \in BOOLEAN : HandleUser(s, p, named)

ManageChannel(s, p, ch) ==
  \/ \E t \in Topics \cup {NULL} : HandleTopic(s, p, ch, t)
  \/ \E n \in Nicks : HandleKick(s, p, ch, n) \/ HandleInvite(s, p, n, ch)
  \/ HandleMode(s, p, ch)

UseChannel(s, p, ch) ==
  \/ \E k \in Keys \cup {NULL} : HandleJoin(s, p, ch, k)
  \/ ManageChannel(s, p, ch)

(* Any command of any connection that has something to read.               *)
RunCommand ==
  \E s \in Fds, p \in Addrs :
    \/ Register(s, p)
    \/ OtherCommand(s, p)
    \/ \E ch \in Chans : UseChannel(s, p, ch)
    \/ \E hasText \in BOOLEAN : HandlePrivmsg(s, p, hasText)

Signal == SignalHandler \/ Hangup

Next == Connect \/ Leave \/ RunCommand \/ Signal

Spec == Init /\ [][Next]_vars

(***************************************************************************)
(* The same server when every client leaves with QUIT: recv meets no closed*)
(* connection and no error.                                                *)
(***************************************************************************)
OrderlyStep ==
  Connect \/ (\E s \in Fds, p \in Addrs : HandleQuit(s, p)) \/ RunCommand \/ Signal

Orderly == Init /\ [][OrderlyStep]_vars

(* And when no client does: each connection ends without a QUIT, if at all.*)
LossyStep == Connect \/ (\E s \in Fds : Disconnect(s)) \/ RunCommand \/ Signal

Lossy == Init /\ [][LossyStep]_vars

(***************************************************************************)
(* The copy of an operator and a Client are of one size, so that the block *)
(* QUIT has just given back is the one the next new channel asks for, with *)
(* an entry of the table still pointing to it: from then on the copy is    *)
(* found in the place of the Client it was made of.  CopiesApart says that *)
(* this has not happened, which is up to the allocator and to the order of *)
(* the QUIT, JOIN and accept; JOIN alone can end it.  Some of what follows *)
(* is true of the code always, some while the copies are apart, as is said *)
(* at each property.                                                       *)
(***************************************************************************)
CopiesApart == \A ch \in Chans : copy[ch] # NULL => copy[ch] \notin Range(clients)

-----------------------------------------------------------------------------
ConnTypeOK ==
  /\ server \in Ends \cup {"up"}
  /\ firstConnexion \in BOOLEAN
  /\ clients \in Seq(Addrs)
  /\ live \in SUBSET Addrs
  /\ client \in [Addrs -> ClientRecord]
  /\ conn \in [Fds -> Addrs \cup {NULL}]
  /\ handling \in {NULL} \cup (Fds \X Addrs)

ChanTypeOK ==
  /\ channels \in SUBSET Chans
  /\ members \in [Chans -> [Addrs -> Nat]]
  /\ admins \in [Chans -> [Numbers -> Nat]]
  /\ copy \in [Chans -> Addrs \cup {NULL}]
  /\ held \in SUBSET Addrs
  /\ invited \in [Chans -> SUBSET Addrs]
  /\ settings \in [Chans -> ChannelSettings]

(* Every variable has its type, always.                                    *)
TypeOK == ConnTypeOK /\ ChanTypeOK

(***************************************************************************)
(* Every open socket leads to the Client that was allocated for it: the    *)
(* object is still allocated, carries the socket and is in the table.      *)
(* Otherwise handleConnection would return without reading and epoll would *)
(* report the socket for ever.  True while the copies are apart, as in any *)
(* server without channels.                                                *)
(***************************************************************************)
OpenSocketHasClient ==
  \A s \in Fds : conn[s] # NULL =>
    /\ conn[s] \in live
    /\ client[conn[s]].fd = s
    /\ conn[s] \in Range(clients)

(***************************************************************************)
(* A client is logged in exactly when it has given the password, a         *)
(* nickname and a user name, in whatever order and however its commands    *)
(* interleaved with those of the other clients.  Always.                   *)
(***************************************************************************)
LoggedIffRegistered ==
  \A a \in live :
    client[a].logged <=>
      client[a].pswd /\ client[a].user /\ client[a].nick # NULL

(* No two clients ever have one nickname, be it of one long gone.          *)
UniqueNicks ==
  \A a, b \in live :
    client[a].nick = client[b].nick /\ client[a].nick # NULL => a = b

(***************************************************************************)
(* The client list of a channel holds no pointer to a freed Client, nor to *)
(* an operator's copy, which a MODE +o would free: a broadcast or a NAMES  *)
(* list would read through it.  True while the copies are apart.           *)
(***************************************************************************)
MembersAreLive ==
  server = "up" =>
    \A ch \in Chans, a \in Addrs : members[ch][a] > 0 => a \in live

(***************************************************************************)
(* When no connection ends without a QUIT, and while the copies are apart: *)
(* the socket leads to the Client made for it and to no other, and who is  *)
(* in a channel is connected and logged in.                                *)
(***************************************************************************)
SocketLeadsToOwnClient ==
  \A s \in Fds : server = "up" /\ conn[s] # NULL => GetClient(s) = conn[s]

MembersAreConnected ==
  \A ch \in Chans, a \in Addrs :
    server = "up" /\ members[ch][a] > 0 =>
      client[a].logged /\ \E s \in Fds : conn[s] = a

(***************************************************************************)
(* A channel lists a socket once, so that its limit counts clients and a   *)
(* message reaches each of them once.  True while the copies are apart.    *)
(***************************************************************************)
OneEntryPerMember ==
  \A ch \in Chans :
    /\ \A a \in Addrs : members[ch][a] <= 1
    /\ \A a, b \in Addrs :
         members[ch][a] > 0 /\ members[ch][b] > 0 /\ client[a].fd = client[b].fd
           => a = b

(* A channel always lists an operator once: one MODE -o is enough.         *)
OneEntryPerAdmin == \A ch \in Chans, n \in Numbers : Operators(ch)[n] <= 1

(***************************************************************************)
(* A mode that is on has its argument, always: JOIN compares with no limit *)
(* that the constructor left uninitialised, and no password never set.     *)
(***************************************************************************)
ModesHaveArguments ==
  \A ch \in channels :
    /\ settings[ch].limited => settings[ch].limit # NULL
    /\ settings[ch].keyed => settings[ch].key # NULL

(***************************************************************************)
(* The two entries of an allocated client stay next to each other, however *)
(* many entries before them were erased one by one: closing_sockets, which *)
(* looks at every other entry, meets each of them.  Always.                *)
(***************************************************************************)
EntriesPaired ==
  server = "up" =>
    \A a \in live : \E i \in ClosedEntries : clients[i] = a

(* A regular end closes every connection and frees every client, while the *)
(* copies are apart.                                                       *)
CleanStop ==
  server = "stopped" => live = {} /\ \A s \in Fds : conn[s] = NULL

(***************************************************************************)
(* While the table has two entries per client, as it has until the first   *)
(* QUIT, the signal handler frees each client once.  Always.               *)
(***************************************************************************)
FreesOnceBeforeQuit ==
  server = "up" /\ Len(clients) = 2 * Cardinality(live) => FreesOnce

-----------------------------------------------------------------------------
(***************************************************************************)
(* What a Client has given changes by the commands of the socket that leads*)
(* to it and of no other, whatever the handlers of the other connections   *)
(* do through the flag, the table and the freed objects they share.  True  *)
(* while the copies are apart.                                             *)
(***************************************************************************)
Answers(s, a) ==
  /\ GetClient(s) = a
  /\ conn[s] # NULL \/ (handling # NULL /\ handling[1] = s)

ChangedByItsSocket ==
  [][\A a \in live \cap live' :
       client'[a] # client[a] => \E s \in Fds : Answers(s, a)]_vars

(***************************************************************************)
(* A connection is answered with one Client for as long as it is open: no  *)
(* command of its own and no handler of another, erasing and adding entries*)
(* of the table and reusing freed objects it still points to, changes what *)
(* the socket leads to.  So the pointer handleConnection has looked up once*)
(* is the one every handler it calls would find.  True while the copies are*)
(* apart: one that is found in front of its original is what breaks it.    *)
(***************************************************************************)
LookupIsStable ==
  [][\A s \in Fds :
       server' = "up" /\ conn[s] # NULL /\ conn'[s] = conn[s] =>
         GetClient(s)' = GetClient(s)]_vars

(***************************************************************************)
(* Only a client of the channel becomes one of its operators, though the   *)
(* list of operators is kept by socket number and the client list by       *)
(* pointer: the operators KICK and INVITE rely on were let in.  True while *)
(* the copies are apart: a Client in the block of one would be an operator.*)
(***************************************************************************)
OperatorsComeFromMembers ==
  [][\A ch \in Chans, s \in Fds :
       IsAdmin(ch, s)' /\ ~IsAdmin(ch, s) => IsMember(ch, s)']_vars

(***************************************************************************)
(* Nobody enters a channel past its modes: an invited client when it is on *)
(* invitation only, and not beyond the limit when it has one.  A KICK and a*)
(* QUIT make room, a socket that closes does not.  Always.                 *)
(***************************************************************************)
EntryRespectsModes ==
  [][\A ch \in channels, a \in Addrs :
       members'[ch][a] > members[ch][a] =>
         /\ settings[ch].inviteOnly => a \in invited[ch]
         /\ settings[ch].limited => Occupancy(ch)' <= settings[ch].limit]_vars

-----------------------------------------------------------------------------
(***************************************************************************)
(* What is inductive whatever the allocator does.  A Client is listed, so  *)
(* that a nickname no entry has is free.                                   *)
(***************************************************************************)
LiveAreListed == live \subseteq Range(clients)

ObjectsInv ==
  /\ ConnTypeOK
  /\ LiveAreListed
  /\ LoggedIffRegistered
  /\ UniqueNicks

ListsInv ==
  /\ ChanTypeOK
  /\ OneEntryPerAdmin
  /\ ModesHaveArguments

BaseInv == ObjectsInv /\ ListsInv

(***************************************************************************)
(* And as long as the copies are apart.  The pointers to freed objects are *)
(* then harmless because an entry of the table that is no Client has no    *)
(* socket and no nickname, so that no lookup finds it.                     *)
(***************************************************************************)
FreedAreBlank ==
  server = "up" =>
    \A a \in Range(clients) \ live : client[a].fd = NULL /\ client[a].nick = NULL

ConnectedAreLive ==
  \A s \in Fds : conn[s] # NULL => conn[s] \in live /\ client[conn[s]].fd = s

HandledIsFreed == server = "up" /\ handling # NULL => handling[2] \notin live

ConnInv ==
  /\ ObjectsInv
  /\ FreedAreBlank
  /\ ConnectedAreLive
  /\ HandledIsFreed

(* The block of an operator is allocated, and of one channel only.         *)
CopiesAreHeld ==
  \A ch \in Chans :
    copy[ch] # NULL =>
      /\ copy[ch] \in held
      /\ \A other \in Chans : copy[other] = copy[ch] => other = ch

ChanInv ==
  /\ ListsInv
  /\ MembersAreLive
  /\ OneEntryPerMember
  /\ CopiesAreHeld

IInv == ConnInv /\ ChanInv
=============================================================================
