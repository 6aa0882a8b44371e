---------------------------- MODULE Registration ----------------------------
(***************************************************************************)
(* Registration: PASS, NICK and USER, in whatever order they come, and the *)
(* check after each command that logs a client in once it has given the    *)
(* password, a nickname and a user name.                                   *)
(*                                                                         *)
(* While firstConnexion is set, NICK and USER only note what they are given*)
(* and a right PASS applies it; when it is not they take effect at once.   *)
(* The flag belongs to the server: an accept sets or clears it, and a PASS *)
(* of any client clears it for all.                                        *)
(***************************************************************************)
EXTENDS ServerState

(* Two slips: a nickname is not checked, or not compared with the others.  *)
NickUsableUnchecked(n) == \A a \in Range(clients) : client[a].nick # n

NickUsableTaken(n) == n \in Nicks

(* handleNick takes a nickname that checkNick accepts and no entry has.    *)
NickUsable(n) ==
  /\ n \in Nicks
  /\ \A a \in Range(clients) : client[a].nick # n

(***************************************************************************)
(* handlePass for the client q of the socket.  The pending nickname and    *)
(* user name are read through p, the pointer of handleConnection.          *)
(***************************************************************************)
PassAccepted(q, p) ==
  [client[q] EXCEPT
     !.pswd = TRUE,
     !.nick = IF firstConnexion /\ NickUsable(client[p].tmpNick)
                THEN client[p].tmpNick ELSE @,
     !.user = @ \/ (firstConnexion /\ client[p].tmpUser)]

(* PASS with one parameter, right or wrong.                                *)
HandlePass(s, p, right) ==
  LET q == GetClient(s) IN
  /\ Command(s, p)
  /\ EndCommand(s, p, IF right /\ q # NULL
                        THEN [client EXCEPT ![q] = PassAccepted(q, p)]
                        ELSE client)
  /\ firstConnexion' = FALSE
  /\ UNCHANGED << server, live, conn, clients, chanVars >>

(***************************************************************************)
(* NICK with one parameter: noted, or tried at once.  handleNick goes on   *)
(* when the socket has no client any more, and dereferences the pointer    *)
(* once the nickname has passed its checks.                                *)
(***************************************************************************)
NickNoted(s, p, n) ==
  /\ firstConnexion
  /\ EndCommand(s, p, [client EXCEPT ![p].tmpNick = n])
  /\ UNCHANGED << server, firstConnexion, live, conn, clients, chanVars >>

(* A slip: the nickname goes to the client that connected last.            *)
NickSetLatest(s, p, n) ==
  /\ ~firstConnexion /\ NickUsable(n) /\ GetClient(s) # NULL
  /\ EndCommand(s, p, [client EXCEPT ![Last(clients)].nick = n])
  /\ UNCHANGED << server, firstConnexion, live, conn, clients, chanVars >>

NickSet(s, p, n) ==
  /\ ~firstConnexion /\ NickUsable(n) /\ GetClient(s) # NULL
  /\ EndCommand(s, p, [client EXCEPT ![GetClient(s)].nick = n])
  /\ UNCHANGED << server, firstConnexion, live, conn, clients, chanVars >>

NickRefused(s, p, n) ==
  /\ ~firstConnexion /\ ~NickUsable(n)
  /\ EndCommand(s, p, client)
  /\ UNCHANGED << server, firstConnexion, live, conn, clients, chanVars >>

NickCrash(s, n) ==
  /\ ~firstConnexion /\ NickUsable(n) /\ GetClient(s) = NULL
  /\ Crash("null_deref")

HandleNick(s, p, n) ==
  /\ Command(s, p)
  /\ \/ NickNoted(s, p, n)
     \/ NickSet(s, p, n)
     \/ NickRefused(s, p, n)
     \/ NickCrash(s, n)

(* USER, with a user name among its parameters or without.                 *)
HandleUser(s, p, named) ==
  LET q == GetClient(s) IN
  /\ Command(s, p)
  /\ EndCommand(s, p,
       IF firstConnexion THEN [client EXCEPT ![p].tmpUser = named]
       ELSE IF q # NULL /\ named THEN [client EXCEPT ![q].user = TRUE]
       ELSE client)
  /\ UNCHANGED << server, firstConnexion, live, conn, clients, chanVars >>

(***************************************************************************)
(* A command that touches nothing of this state: CAP, OPER, one that is    *)
(* unknown, has a wrong number of parameters, or needs authentication.     *)
(***************************************************************************)
OtherCommand(s, p) ==
  /\ Command(s, p)
  /\ EndCommand(s, p, client)
  /\ UNCHANGED << server, firstConnexion, live, conn, clients, chanVars >>
=============================================================================
