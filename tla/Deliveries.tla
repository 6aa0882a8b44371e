----------------------------- MODULE Deliveries -----------------------------
(***************************************************************************)
(* The messages the handlers send to the clients other than by answering:  *)
(* who gets the QUIT and the KICK of a channel, a TOPIC, a PRIVMSG and an  *)
(* INVITE.  The code addresses a message to socket numbers, which it reads *)
(* from the client list of a channel or from the table; whether they are   *)
(* those of the clients the message is for is what this module is about.   *)
(* A message is its command, its target, the Client it comes from and how  *)
(* many copies go to each socket; that a send to a slow client may fail is *)
(* left out.                                                               *)
(***************************************************************************)
EXTENDS IrcServer

(* checkNick accepts no '#', with which the name of a channel begins.      *)
ASSUME NamesAssumption == Chans \cap (Nicks \cup {NULL}) = {}

VARIABLE mail  (* The messages of the last step.                           *)

Message(what, to, from, copies) ==
  [what |-> what, to |-> to, from |-> from, copies |-> copies]

(* send to a number that is not open fails, and nothing looks at it.       *)
Sent(s, n) == IF conn[s] = NULL THEN 0 ELSE n

(* A slip: nobody is spared.                                               *)
ToAllOfChannel(ch, spared) ==
  [s \in Fds |-> Sent(s, Cardinality({e \in Entries(ch) : client[e[1]].fd = s}))]

(* One copy for each entry of the client list that is not spared.          *)
ToChannel(ch, spared) ==
  [s \in Fds |->
     Sent(s, Cardinality({e \in Entries(ch) : e[1] \notin spared /\ client[e[1]].fd = s}))]

ToClient(q) == [s \in Fds |-> Sent(s, IF client[q].fd = s THEN 1 ELSE 0)]

-----------------------------------------------------------------------------
(* A slip: the client leaves the channels before they are told.            *)
QuitNoticesLate(q) ==
  {Message("QUIT", ch, q, ToChannel(ch, {q})) :
     ch \in {c \in channels : \E a \in Addrs :
               WithoutMember(c, client[q].fd)[a] > 0 /\ client[a].fd = client[q].fd}}

(* handleQuit tells each channel of the client, which it spares as an      *)
(* object, before it takes it out.                                         *)
QuitNotices(q) ==
  {Message("QUIT", ch, q, ToChannel(ch, {q})) :
     ch \in {c \in channels : IsMember(c, client[q].fd)}}

DeliverQuit(s, p) ==
  /\ HandleQuit(s, p)
  /\ mail' = QuitNotices(GetClient(s))

(* handleKick tells the channel, but not the client it takes out.          *)
DeliverKick(s, p, ch, n) ==
  LET kickee == GetClientByNick(n) IN
  /\ HandleKick(s, p, ch, n)
  /\ mail' = IF MayKick(s, ch, kickee)
               THEN {Message("KICK", ch, GetClient(s), ToChannel(ch, {kickee}))}
               ELSE {}

(* handleTopic sends the topic to the whole channel, also when it was only *)
(* asked for.                                                              *)
DeliverTopic(s, p, ch, t) ==
  /\ HandleTopic(s, p, ch, t)
  /\ mail' = IF GetClient(s) # NULL /\ ch \in channels
               THEN {Message("TOPIC", ch, GetClient(s), ToChannel(ch, {}))}
               ELSE {}

(* handlePrivmsg to a channel spares the sender by its socket number.      *)
DeliverToChannel(s, p, ch) ==
  LET q == GetClient(s) IN
  /\ HandlePrivmsg(s, p, TRUE)
  /\ mail' = IF q # NULL /\ ch \in channels
               THEN {Message("PRIVMSG", ch, q,
                             ToChannel(ch, {a \in Addrs : client[a].fd = client[q].fd}))}
               ELSE {}

(* Two spaces after PRIVMSG make an empty target, NULL, with a text: it is *)
(* the nickname of who has none yet, and of a Client that has been deleted.*)
DeliverToClient(s, p, n) ==
  LET target == GetClientByNick(n) IN
  /\ HandlePrivmsg(s, p, TRUE)
  /\ mail' = IF GetClient(s) # NULL /\ target # NULL
               THEN {Message("PRIVMSG", n, GetClient(s), ToClient(target))}
               ELSE {}

DeliverInvite(s, p, n, ch) ==
  LET invitee == GetClientByNick(n) IN
  /\ HandleInvite(s, p, n, ch)
  /\ mail' = IF MayInvite(s, ch, invitee)
               THEN {Message("INVITE", n, GetClient(s), ToClient(invitee))}
               ELSE {}

-----------------------------------------------------------------------------
(* What is sent by a step of a server whose clients all leave with QUIT.   *)
Quits == \E s \in Fds, p \in Addrs : DeliverQuit(s, p)

ChannelMail ==
  \E s \in Fds, p \in Addrs, ch \in Chans :
    \/ \E n \in Nicks : DeliverKick(s, p, ch, n)
    \/ \E t \in Topics \cup {NULL} : DeliverTopic(s, p, ch, t)
    \/ DeliverToChannel(s, p, ch)

PersonalMail ==
  \E s \in Fds, p \in Addrs :
    \/ \E n \in Nicks \cup {NULL} : DeliverToClient(s, p, n)
    \/ \E n \in Nicks, ch \in Chans : DeliverInvite(s, p, n, ch)

(* The other commands answer the client that sent them, at most.           *)
QuietCommand(s, p) ==
  \/ Register(s, p)
  \/ OtherCommand(s, p)
  \/ HandlePrivmsg(s, p, FALSE)
  \/ \E ch \in Chans :
       HandleMode(s, p, ch) \/ \E k \in Keys \cup {NULL} : HandleJoin(s, p, ch, k)

NoMail ==
  /\ Connect \/ Signal \/ \E s \in Fds, p \in Addrs : QuietCommand(s, p)
  /\ mail' = {}

MailNext == Quits \/ ChannelMail \/ PersonalMail \/ NoMail

MailSpec == Init /\ mail = {} /\ [][MailNext]_<< vars, mail >>

-----------------------------------------------------------------------------
(***************************************************************************)
(* A message to a channel reaches the connection of each of its clients    *)
(* once, and nobody else: for a QUIT and a KICK those who stay, for a      *)
(* PRIVMSG the others.  Whether the client that is kicked is told, too, is *)
(* left open: the code spares it, and comments want all members told.      *)
(* True while the copies are apart, like the next one.                     *)
(***************************************************************************)
Audience(m, a) ==
  /\ members'[m.to][a] > 0
  /\ m.what = "PRIVMSG" => a # m.from

Kicked(m, a) ==
  m.what = "KICK" /\ members[m.to][a] > 0 /\ members'[m.to][a] = 0

ChannelMailIsExact ==
  [][\A m \in mail', s \in Fds :
       m.to \in Chans =>
         IF conn[s] # NULL /\ Kicked(m, conn[s])
           THEN m.copies[s] <= 1
           ELSE m.copies[s] = IF conn[s] # NULL /\ Audience(m, conn[s]) THEN 1 ELSE 0
    ]_<< vars, mail >>

(***************************************************************************)
(* A message to a nickname reaches the one connection whose client has it, *)
(* once, whatever the freed entries of the table hold.                     *)
(***************************************************************************)
PersonalMailIsExact ==
  [][\A m \in mail', s \in Fds :
       m.to \in Nicks =>
         m.copies[s] = IF conn[s] # NULL /\ client[conn[s]].nick = m.to THEN 1 ELSE 0
    ]_<< vars, mail >>

(***************************************************************************)
(* Nobody ever leaves a channel without its clients being told which one.  *)
(***************************************************************************)
DeparturesAreAnnounced ==
  [][\A ch \in Chans, a \in Addrs :
       members[ch][a] > 0 /\ members'[ch][a] = 0 =>
         \E m \in mail' : m.to = ch /\ m.what \in {"QUIT", "KICK"}
    ]_<< vars, mail >>
-----------------------------------------------------------------------------
(***************************************************************************)
(* The heap, the table with its dangling entries, the shared flag and the  *)
(* batches do not show: such a server does what ChatService does.  The     *)
(* session of a socket is the Client accepted on it, and a channel has the *)
(* sockets isClient finds in it.  True while the copies are apart.         *)
(***************************************************************************)
Online == {s \in Fds : server = "up" /\ conn[s] # NULL}

Shown(a) ==
  [nick |-> client[a].nick, pswd |-> client[a].pswd, user |-> client[a].user,
   logged |-> client[a].logged]

Sessions ==
  [s \in Fds |-> IF s \in Online THEN Shown(conn[s])
                 ELSE [nick |-> NULL, pswd |-> FALSE, user |-> FALSE, logged |-> FALSE]]

Rooms == [ch \in Chans |-> {s \in Fds : server = "up" /\ IsMember(ch, s)}]

Chat ==
  INSTANCE ChatService
    WITH up <- server = "up", online <- Online, session <- Sessions, room <- Rooms

ActsAsChat == [][Chat!Next]_(Chat!vars)
=============================================================================
