------------------------------- MODULE Claims -------------------------------
(***************************************************************************)
(* What comments, messages and the todo list of the repository say of the  *)
(* server, and what its code does not do.  Each is refuted by a run.       *)
(***************************************************************************)
EXTENDS IrcServer

(***************************************************************************)
(* srcs/Server.cpp:120, "Recupere le client via son socket": a connection  *)
(* is answered with the Client that acceptClient made for it.  After a     *)
(* disconnection without QUIT the socket number leads to the old one, with *)
(* its nickname and its login.                                             *)
(***************************************************************************)
ConnectionGetsItsClient ==
  \A s \in Fds : server = "up" /\ conn[s] # NULL => GetClient(s) = conn[s]

(***************************************************************************)
(* todolist.txt:1, "user/nickname -> password -> logged_in": who has noted *)
(* a user name and a free nickname is logged in by the right password.     *)
(* It is not when another client has sent PASS since.                      *)
(***************************************************************************)
PasswordCompletesLogin ==
  [][\A a \in live \cap live' :
       /\ ~client[a].pswd /\ client'[a].pswd
       /\ client[a].tmpUser /\ NickUsable(client[a].tmpNick)
       => client'[a].logged]_vars

(***************************************************************************)
(* srcs/signal.cpp:21, "Fermeture propre des connexions, libération des    *)
(* ressources": the signal handler frees what is allocated, once.          *)
(***************************************************************************)
SignalStopsCleanly == server # "double_free"

(***************************************************************************)
(* srcs/Server.cpp:481, "Libération de la mémoire": QUIT deletes the Client*)
(* of the connection it closes.  When an operator's copy has taken the     *)
(* block of an earlier Client, it is the copy that is found and deleted;   *)
(* the Client stays, logged in, for the next connection on the number.     *)
(* A connection that ends otherwise is the subject of the claim above.     *)
(***************************************************************************)
QuitFreesItsClient ==
  [][\A s \in Fds :
       server' = "up" /\ conn[s] # NULL /\ conn'[s] = NULL => conn[s] \notin live']_vars

(***************************************************************************)
(* srcs/cmd.cpp:435, "Vérifiez si le client est invité": INVITE names a    *)
(* client by its nickname, so that whoever an invitation admits has one.   *)
(***************************************************************************)
InvitedClientsHaveNicks ==
  \A ch \in Chans, a \in live : a \in invited[ch] => client[a].nick # NULL

(***************************************************************************)
(* srcs/Channel.cpp:122, "Le client est un opérateur": whom isAdmin takes  *)
(* for an operator was made one, and had logged in to be.                  *)
(***************************************************************************)
OperatorsAreLoggedIn ==
  \A ch \in Chans, s \in Fds :
    server = "up" /\ conn[s] # NULL /\ IsAdmin(ch, s) => client[GetClient(s)].logged
=============================================================================
