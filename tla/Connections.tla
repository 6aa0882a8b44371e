---------------------------- MODULE Connections ----------------------------
(***************************************************************************)
(* The life of a connection: accept, the QUIT command, a connection that   *)
(* ends without one, and the end of the process on a signal.               *)
(***************************************************************************)
EXTENDS ServerState

(* accept returns the lowest number that is not open.                      *)
LowestFree(s) ==
  /\ conn[s] = NULL
  /\ \A t \in Fds : t < s => conn[t] # NULL

(* A slip: acceptClient puts the Client into the table once, which looks   *)
(* like a repair but is not one as long as closing_sockets skips entries.  *)
AcceptClientOnce(s, a) ==
  /\ server = "up"
  /\ handling = NULL
  /\ LowestFree(s)
  /\ a \notin live \cup held
  /\ Len(clients) + 2 <= MaxTable
  /\ firstConnexion' = IsNewClient(s)
  /\ live' = live \cup {a}
  /\ client' = [client EXCEPT ![a] = NewClient(s)]
  /\ clients' = Append(clients, a)
  /\ conn' = [conn EXCEPT ![s] = a]
  /\ UNCHANGED << server, handling, chanVars >>

(***************************************************************************)
(* acceptClient: the new Client goes into the table twice.  `new' returns  *)
(* any block that is free, one of an earlier Client or operator included.  *)
(***************************************************************************)
AcceptClient(s, a) ==
  /\ server = "up"
  /\ handling = NULL
  /\ LowestFree(s)
  /\ a \notin live \cup held
  /\ Len(clients) + 2 <= MaxTable
  /\ firstConnexion' = IsNewClient(s)
  /\ live' = live \cup {a}
  /\ client' = [client EXCEPT ![a] = NewClient(s)]
  /\ clients' = Append(Append(clients, a), a)
  /\ conn' = [conn EXCEPT ![s] = a]
  /\ UNCHANGED << server, handling, chanVars >>

(***************************************************************************)
(* recv returns 0, or fails with an error other than EAGAIN: the socket is *)
(* closed and nothing else happens.  The Client stays in the table and in  *)
(* its channels, with the number of a socket that is free again.           *)
(***************************************************************************)
Disconnect(s) ==
  /\ server = "up"
  /\ handling = NULL
  /\ conn[s] # NULL
  /\ GetClient(s) # NULL
  /\ conn' = [conn EXCEPT ![s] = NULL]
  /\ UNCHANGED << server, firstConnexion, live, client, clients, handling,
                  chanVars >>

(* A slip: the entry erased is the front of the table.                     *)
WithoutFront(q) == Tail(clients)

(* Server::removeClient erases the first pointer to the client.            *)
WithoutFirst(q) == RemoveFirst(clients, q)

(* A slip: the nickname of the deleted Client is not emptied.              *)
FreedWithNick(c, garbage) == [c EXCEPT !.fd = NULL, !.logged = garbage]

(***************************************************************************)
(* What is left of a Client after `delete' and the setNickname("") that    *)
(* handleQuit still does on it: the allocator's link where the fd was, an  *)
(* empty nickname, logged_in kept or overwritten, and what the rest of the *)
(* call can still read.  The other fields are not read again, until the    *)
(* block is a Client again, or the copy of an operator.                    *)
(***************************************************************************)
Freed(c, garbage) ==
  [NewClient(NULL) EXCEPT !.tmpNick = c.tmpNick, !.tmpUser = c.tmpUser,
                          !.logged = garbage]

(* Two slips of handleQuit: the channels keep the client, or the socket    *)
(* is not closed.                                                          *)
QuitStaysInChannels(s, p, q, garbage) ==
  /\ clients' = WithoutFirst(q)
  /\ Deleted(q)
  /\ client' = [client EXCEPT ![q] = Freed(@, garbage)]
  /\ conn' = [conn EXCEPT ![s] = NULL]
  /\ handling' \in {NULL, <<s, p>>}
  /\ UNCHANGED << server, firstConnexion, channels, members, admins, copy, invited, settings >>

QuitLeavesSocket(s, p, q, garbage) ==
  /\ members' = [ch \in Chans |-> WithoutMember(ch, client[q].fd)]
  /\ clients' = WithoutFirst(q)
  /\ Deleted(q)
  /\ client' = [client EXCEPT ![q] = Freed(@, garbage)]
  /\ handling' \in {NULL, <<s, p>>}
  /\ UNCHANGED << server, firstConnexion, conn, channels, admins, copy, invited, settings >>

(***************************************************************************)
(* handleQuit: out of every channel, out of the table, deleted, closed.    *)
(* The admins and the invitations of the channels keep what they have.     *)
(***************************************************************************)
QuitClient(s, p, q, garbage) ==
  /\ members' = [ch \in Chans |-> WithoutMember(ch, client[q].fd)]
  /\ clients' = WithoutFirst(q)
  /\ Deleted(q)
  /\ client' = [client EXCEPT ![q] = Freed(@, garbage)]
  /\ conn' = [conn EXCEPT ![s] = NULL]
  /\ handling' \in {NULL, <<s, p>>}
  /\ UNCHANGED << server, firstConnexion, channels, admins, copy, invited, settings >>

HandleQuit(s, p) ==
  /\ Command(s, p)
  /\ GetClient(s) # NULL
  /\ \E garbage \in BOOLEAN : QuitClient(s, p, GetClient(s), garbage)

-----------------------------------------------------------------------------
(* A slip: the loop stops one step of two before the end of the table.     *)
ClosedEntriesShort == {i \in DOMAIN clients : i % 2 = 1 /\ i + 2 <= Len(clients)}

(* A slip: the loop does not skip the second entry of a Client.            *)
ClosedEntriesAll == DOMAIN clients

(***************************************************************************)
(* closing_sockets closes and deletes the Client of every other entry of   *)
(* the table, counting from the first.                                     *)
(***************************************************************************)
ClosedEntries == {i \in DOMAIN clients : i % 2 = 1}

FreesOnce ==
  /\ \A i \in ClosedEntries : clients[i] \in live \cup held
  /\ \A i, j \in ClosedEntries : clients[i] = clients[j] => i = j

(* SIGINT or SIGTERM: signal_handler, at any point between two handlers.   *)
SignalHandler ==
  /\ server = "up"
  /\ IF FreesOnce
       THEN /\ server' = "stopped"
            /\ live' = live \ {clients[i] : i \in ClosedEntries}
            /\ held' = held \ {clients[i] : i \in ClosedEntries}
            /\ conn' = [s \in Fds |->
                          IF \E i \in ClosedEntries : client[clients[i]].fd = s
                            THEN NULL ELSE conn[s]]
            /\ UNCHANGED << firstConnexion, client, clients, handling, channels, members,
                            admins, copy, invited, settings >>
       ELSE Crash("double_free")

(***************************************************************************)
(* SIGHUP while the server waits: its handler does nothing, but epoll_wait *)
(* returns EINTR and run exits.                                            *)
(***************************************************************************)
Hangup ==
  /\ server = "up"
  /\ handling = NULL
  /\ server' = "hangup"
  /\ UNCHANGED << firstConnexion, connVars, handling, chanVars >>
=============================================================================
