---------------------------- MODULE OrderlyProofs ----------------------------
(***************************************************************************)
(* The server whose clients all leave with QUIT.  While no operator's copy *)
(* is in a block the table points to, a socket number leads to the Client  *)
(* of its present connection, in spite of the dangling entries each QUIT   *)
(* leaves in the table, and the client lists of the channels name connected*)
(* and authenticated clients only: a message finds those it is for.  That  *)
(* no departure goes unannounced is true wherever the copies are.          *)
(***************************************************************************)
EXTENDS StepProofs, Deliveries

(***************************************************************************)
(* What makes the two inductive: an allocated client is the one its socket *)
(* was accepted for, a member is logged in, and the commands left after a  *)
(* QUIT run for a socket that is closed.                                   *)
(***************************************************************************)
AllocatedAreConnected ==
  \A a \in live : client[a].fd \in Fds /\ conn[client[a].fd] = a

MembersAreLogged ==
  \A ch \in Chans, a \in Addrs : members[ch][a] > 0 => client[a].logged

HandledIsClosed == handling # NULL => conn[handling[1]] = NULL

OrderlyInv ==
  server = "up" => AllocatedAreConnected /\ MembersAreLogged /\ HandledIsClosed

(* Such a command keeps OrderlyInv when who becomes a member is logged in. *)
LEMMA CommandKeepsOrderly ==
  ASSUME IInv, OrderlyInv, RunCommand, NEW s \in Fds, NEW p \in Addrs, NEW objects,
         Effect(s, p, objects), Quiet(s, p, objects),
         \A ch \in Chans, a \in Addrs :
           members'[ch][a] > 0 => a \in live /\ client[a].logged
  PROVE  OrderlyInv'
<1>1. /\ server = "up" /\ live' = live /\ conn' = conn
      /\ \A a \in live : client'[a].fd = client[a].fd
  BY QuietFrame DEF IInv, Effect
<1>2. \A a \in live : client[a].logged => client'[a].logged
  BY CommandTakesNothing DEF IInv, ConnInv
<1>3. AllocatedAreConnected'
  BY <1>1 DEF OrderlyInv, AllocatedAreConnected
<1>4. MembersAreLogged'
  BY <1>2 DEF MembersAreLogged
<1>5. HandledIsClosed'
  <2>1. handling' \in {NULL, handling}
    BY QuietIsHandled DEF IInv
  <2> QED
    BY <1>1, <2>1 DEF OrderlyInv, HandledIsClosed
<1> QED
  BY <1>3, <1>4, <1>5 DEF OrderlyInv

(* The members there are were logged in.                                   *)
LEMMA MembersWereLogged ==
  ASSUME IInv, OrderlyInv, server = "up"
  PROVE  \A ch \in Chans, a \in Addrs :
           members[ch][a] > 0 => a \in live /\ client[a].logged
BY DEF IInv, ChanInv, MembersAreLive, OrderlyInv, MembersAreLogged

(***************************************************************************)
(* JOIN is the one command that makes members.  The login it asks for is   *)
(* that of the pointer of handleConnection, who enters is the client of the*)
(* socket: after a QUIT there is none.                                     *)
(***************************************************************************)
LEMMA JoinerIsLogged ==
  ASSUME IInv, OrderlyInv, NEW s \in Fds, NEW p \in Addrs,
         LoggedCommand(s, p), GetClient(s) # NULL
  PROVE  GetClient(s) \in live /\ client[GetClient(s)].logged
<1>1. server = "up" /\ Command(s, p) /\ client[p].logged
  BY DEF LoggedCommand, Command
<1>2. GetClient(s) \in live /\ client[GetClient(s)].fd = s
  BY <1>1, GetClientIsLive DEF IInv
<1>3. handling = NULL
  <2> SUFFICES ASSUME handling # NULL PROVE FALSE
    OBVIOUS
  <2>1. handling = <<s, p>> /\ conn[s] = NULL
    BY <1>1 DEF Command, OrderlyInv, HandledIsClosed
  <2>2. conn[s] = GetClient(s)
    BY <1>1, <1>2 DEF OrderlyInv, AllocatedAreConnected
  <2> QED
    BY <2>1, <2>2
<1>4. p = GetClient(s)
  BY <1>1, <1>3 DEF Command
<1> QED
  BY <1>1, <1>2, <1>4

(* After any channel command the members are logged in.                    *)
LEMMA ChannelMembersAreLogged ==
  ASSUME IInv, OrderlyInv, NEW s \in Fds, NEW p \in Addrs, NEW ch \in Chans,
         UseChannel(s, p, ch), server = "up"
  PROVE  \A c \in Chans, a \in Addrs :
           members'[c][a] > 0 => a \in live /\ client[a].logged
<1>1. \A c \in Chans, a \in Addrs :
        members'[c][a] > 0 =>
          \/ members[c][a] > 0
          \/ a = GetClient(s) /\ a # NULL /\ LoggedCommand(s, p)
  BY MembersComeByJoin DEF IInv, ChanInv
<1> QED
  BY <1>1, MembersWereLogged, JoinerIsLogged

(* And after any command.                                                  *)
LEMMA CommandMembersAreLogged ==
  ASSUME IInv, OrderlyInv, RunCommand
  PROVE  \A ch \in Chans, a \in Addrs :
           members'[ch][a] > 0 => a \in live /\ client[a].logged
<1>1. ObjectsInv /\ server = "up"
  BY CommandFrame DEF IInv, ConnInv
<1> PICK s \in Fds, p \in Addrs :
       \/ Register(s, p)
       \/ OtherCommand(s, p)
       \/ \E ch \in Chans : UseChannel(s, p, ch)
       \/ \E hasText \in BOOLEAN : HandlePrivmsg(s, p, hasText)
  BY DEF RunCommand
<1>2. CASE members' = members
  BY <1>1, <1>2, MembersWereLogged
<1>3. CASE Register(s, p) \/ OtherCommand(s, p)
  BY <1>1, <1>2, <1>3, RegistrationEffect DEF Registers, Crash, chanVars
<1>4. CASE \E ch \in Chans : UseChannel(s, p, ch)
  BY <1>1, <1>4, ChannelMembersAreLogged
<1>5. CASE \E hasText \in BOOLEAN : HandlePrivmsg(s, p, hasText)
  BY <1>2, <1>5 DEF HandlePrivmsg, Refuse, Crash, chanVars
<1> QED
  BY <1>3, <1>4, <1>5

(* Every command but QUIT keeps OrderlyInv.                                *)
LEMMA RunCommandKeepsOrderly ==
  ASSUME IInv, OrderlyInv, CopiesApart, CopiesApart', RunCommand
  PROVE  OrderlyInv'
<1>1. CASE Crash("null_deref") \/ Crash("uncaught")
  BY <1>1 DEF Crash, OrderlyInv
<1>2. ASSUME NEW s \in Fds, NEW p \in Addrs, NEW objects,
             Effect(s, p, objects), Quiet(s, p, objects)
      PROVE  OrderlyInv'
  BY <1>2, CommandKeepsOrderly, CommandMembersAreLogged
<1> QED
  BY <1>1, <1>2, RunCommandEffect DEF IInv, ConnInv, ChanInv, ListsInv

(* accept connects the client it allocates, on a number nobody has.        *)
LEMMA AcceptKeepsOrderly ==
  ASSUME IInv, OrderlyInv, NEW s \in Fds, NEW a \in Addrs, AcceptClient(s, a)
  PROVE  OrderlyInv'
<1>1. /\ server = "up" /\ handling = NULL /\ handling' = NULL
      /\ conn[s] = NULL /\ conn' = [conn EXCEPT ![s] = a]
      /\ a \notin live /\ live' = live \cup {a}
      /\ client' = [client EXCEPT ![a] = NewClient(s)]
      /\ members' = members
  BY DEF AcceptClient, LowestFree, chanVars
<1>2. /\ client \in [Addrs -> ClientRecord] /\ live \subseteq Addrs
      /\ conn \in [Fds -> Addrs \cup {NULL}]
  BY DEF IInv, ConnInv, ObjectsInv, ConnTypeOK
<1>3. AllocatedAreConnected'
  <2> SUFFICES ASSUME NEW b \in live'
               PROVE  client'[b].fd \in Fds /\ conn'[client'[b].fd] = b
    BY DEF AllocatedAreConnected
  <2>1. CASE b = a
    <3>1. client'[b].fd = s
      BY <1>1, <1>2, <2>1 DEF NewClient
    <3> QED
      BY <1>1, <1>2, <2>1, <3>1
  <2>2. CASE b # a
    <3>1. b \in live /\ client'[b] = client[b]
      BY <1>1, <1>2, <2>2
    <3>2. client[b].fd \in Fds /\ conn[client[b].fd] = b /\ b # NULL
      BY <1>1, <1>2, <3>1, ConstantsAssumption DEF OrderlyInv, AllocatedAreConnected
    <3> QED
      BY <1>1, <1>2, <3>1, <3>2
  <2> QED
    BY <2>1, <2>2
<1>4. MembersAreLogged'
  <2> SUFFICES ASSUME NEW ch \in Chans, NEW b \in Addrs, members'[ch][b] > 0
               PROVE  client'[b].logged
    BY DEF MembersAreLogged
  <2>1. b \in live /\ client[b].logged
    BY <1>1, MembersWereLogged
  <2>2. client'[b] = client[b]
    BY <1>1, <1>2, <2>1
  <2> QED
    BY <2>1, <2>2
<1> QED
  BY <1>1, <1>3, <1>4 DEF OrderlyInv, HandledIsClosed

(* QUIT closes the socket of the client it frees, and no other.            *)
LEMMA QuitKeepsOrderly ==
  ASSUME IInv, OrderlyInv, NEW s \in Fds, NEW p \in Addrs, HandleQuit(s, p)
  PROVE  OrderlyInv'
<1> DEFINE q == GetClient(s)
<1>1. server = "up" /\ q # NULL
  BY DEF HandleQuit, Command
<1>2. q \in live /\ client[q].fd = s
  BY <1>1, GetClientIsLive DEF IInv
<1>3. PICK garbage \in BOOLEAN : QuitClient(s, p, q, garbage)
  BY DEF HandleQuit
<1> HIDE DEF q
<1>4. /\ members' = [ch \in Chans |-> WithoutMember(ch, s)]
      /\ live' = live \ {q}
      /\ client' = [client EXCEPT ![q] = Freed(client[q], garbage)]
      /\ conn' = [conn EXCEPT ![s] = NULL]
      /\ handling' \in {NULL, <<s, p>>}
  BY <1>2, <1>3 DEF QuitClient, Deleted
<1>5. /\ client \in [Addrs -> ClientRecord] /\ live \subseteq Addrs
      /\ conn \in [Fds -> Addrs \cup {NULL}]
  BY DEF IInv, ConnInv, ObjectsInv, ConnTypeOK
<1>6. AllocatedAreConnected'
  <2> SUFFICES ASSUME NEW b \in live'
               PROVE  client'[b].fd \in Fds /\ conn'[client'[b].fd] = b
    BY DEF AllocatedAreConnected
  <2>1. b \in live /\ b # q /\ client'[b] = client[b]
    BY <1>4, <1>5
  <2>2. client[b].fd \in Fds /\ conn[client[b].fd] = b /\ conn[s] = q
    BY <1>1, <1>2, <2>1 DEF OrderlyInv, AllocatedAreConnected
  <2>3. client[b].fd # s
    BY <2>1, <2>2
  <2> QED
    BY <1>4, <1>5, <2>1, <2>2, <2>3
<1>7. MembersAreLogged'
  <2> SUFFICES ASSUME NEW ch \in Chans, NEW b \in Addrs, members'[ch][b] > 0
               PROVE  client'[b].logged
    BY DEF MembersAreLogged
  <2>1. members'[ch][b] = IF client[b].fd = s THEN 0 ELSE members[ch][b]
    BY <1>4 DEF WithoutMember
  <2>2. client[b].fd # s /\ members[ch][b] > 0
    BY <2>1
  <2>3. b # q /\ client[b].logged
    BY <1>1, <1>2, <2>2, MembersWereLogged
  <2> QED
    BY <1>4, <1>5, <2>3
<1>8. HandledIsClosed'
  BY <1>4, <1>5 DEF HandledIsClosed
<1> QED
  BY <1>6, <1>7, <1>8 DEF OrderlyInv

(* No step of the orderly server breaks it.                                *)
LEMMA NextKeepsOrderly ==
  IInv /\ OrderlyInv /\ CopiesApart /\ CopiesApart' /\ [OrderlyStep]_vars => OrderlyInv'
<1> SUFFICES ASSUME IInv, OrderlyInv, CopiesApart, CopiesApart', [OrderlyStep]_vars
             PROVE  OrderlyInv'
  OBVIOUS
<1>1. CASE Connect
  BY <1>1, AcceptKeepsOrderly DEF Connect
<1>2. ASSUME NEW s \in Fds, NEW p \in Addrs, HandleQuit(s, p) PROVE OrderlyInv'
  BY <1>2, QuitKeepsOrderly
<1>3. CASE RunCommand
  BY <1>3, RunCommandKeepsOrderly
<1>4. CASE Signal
  BY <1>4 DEF Signal, SignalHandler, Hangup, Crash, OrderlyInv
<1>5. CASE UNCHANGED vars
  BY <1>5 DEF vars, connVars, chanVars, OrderlyInv, AllocatedAreConnected,
     MembersAreLogged, HandledIsClosed
<1> QED
  BY <1>1, <1>2, <1>3, <1>4, <1>5 DEF OrderlyStep

(* The orderly server is the server with fewer steps.                      *)
LEMMA OrderlySteps == [OrderlyStep]_vars => [Next]_vars
BY DEF OrderlyStep, Next, Leave

(* The two invariants of an orderly server.                                *)
LEMMA OrderlyInvariance == Orderly /\ []CopiesApart => [](IInv /\ OrderlyInv)
<1>1. Init => IInv /\ OrderlyInv
  <2>1. Init => OrderlyInv
    BY DEF Init, OrderlyInv, AllocatedAreConnected, MembersAreLogged, HandledIsClosed
  <2> QED
    BY <2>1, InitIInv
<1>2. IInv /\ OrderlyInv /\ CopiesApart /\ CopiesApart' /\ [OrderlyStep]_vars
        => IInv' /\ OrderlyInv'
  BY OrderlySteps, NextKeepsIInv, NextKeepsOrderly
<1> QED
  BY <1>1, <1>2, PTL DEF Orderly

(* An open socket leads to the Client that was accepted on it.             *)
LEMMA OpenSocketLeadsHome ==
  ASSUME IInv, OrderlyInv, server = "up", NEW s \in Fds, conn[s] # NULL
  PROVE  GetClient(s) = conn[s]
<1>1. GetClient(s) # NULL
  BY OpenSocketIsFound DEF IInv
<1>2. GetClient(s) \in live /\ client[GetClient(s)].fd = s
  BY <1>1, GetClientIsLive DEF IInv
<1> QED
  BY <1>2 DEF OrderlyInv, AllocatedAreConnected

(***************************************************************************)
(* When all clients leave with QUIT, the lookup by socket number returns   *)
(* the Client made for the connection, however often the number and the    *)
(* address have been used before and whatever pointers dangle, as long as  *)
(* none of them leads to the copy of an operator.                          *)
(***************************************************************************)
THEOREM SocketsLeadHome == Orderly /\ []CopiesApart => []SocketLeadsToOwnClient
<1>1. IInv /\ OrderlyInv => SocketLeadsToOwnClient
  BY OpenSocketLeadsHome DEF SocketLeadsToOwnClient
<1> QED
  BY <1>1, OrderlyInvariance, PTL

(* What QuitFreesItsClient says of a step.                                 *)
QuitFrees ==
  \A s \in Fds :
    server' = "up" /\ conn[s] # NULL /\ conn'[s] = NULL => conn[s] \notin live'

(***************************************************************************)
(* So a QUIT gives back the Client of its connection, while it is true that*)
(* no entry of the table leads to the copy of an operator.                 *)
(***************************************************************************)
THEOREM QuitsFreeTheirClient == Orderly /\ []CopiesApart => QuitFreesItsClient
<1>1. IInv /\ OrderlyInv /\ [OrderlyStep]_vars => QuitFrees
  <2> SUFFICES ASSUME IInv, OrderlyInv, [OrderlyStep]_vars,
                      NEW s \in Fds, conn[s] # NULL, conn'[s] = NULL, server' = "up"
               PROVE  conn[s] \notin live'
    BY DEF QuitFrees
  <2>1. CASE Connect
    BY <2>1 DEF Connect, AcceptClient, LowestFree, IInv, ConnInv, ObjectsInv, ConnTypeOK
  <2>2. ASSUME NEW t \in Fds, NEW p \in Addrs, HandleQuit(t, p)
        PROVE  conn[s] \notin live'
    <3>1. /\ server = "up" /\ conn' = [conn EXCEPT ![t] = NULL]
          /\ live' = live \ {GetClient(t)}
      BY <2>2, QuitEffect DEF IInv, ConnInv, ObjectsInv
    <3>2. s = t
      BY <3>1 DEF IInv, ConnInv, ObjectsInv, ConnTypeOK
    <3> QED
      BY <3>1, <3>2, OpenSocketLeadsHome
  <2>3. CASE RunCommand
    <3>1. ObjectsInv
      BY DEF IInv, ConnInv
    <3>2. conn' = conn
      BY <2>3, <3>1, RunCommandEffect DEF Effect, Crash, connVars
    <3> QED
      BY <3>2
  <2>4. CASE Signal
    BY <2>4, SignalEffect DEF IInv, ConnInv, ObjectsInv
  <2>5. CASE UNCHANGED vars
    BY <2>5 DEF vars, connVars
  <2> QED
    BY <2>1, <2>2, <2>3, <2>4, <2>5 DEF OrderlyStep
<1> QED
  BY <1>1, OrderlyInvariance, PTL DEF QuitFreesItsClient, QuitFrees, Orderly

(* And who is in a channel is connected and logged in.                     *)
THEOREM MembersStayConnected == Orderly /\ []CopiesApart => []MembersAreConnected
<1>1. IInv /\ OrderlyInv => MembersAreConnected
  <2> SUFFICES ASSUME IInv, OrderlyInv, NEW ch \in Chans, NEW a \in Addrs,
                      server = "up", members[ch][a] > 0
               PROVE  client[a].logged /\ \E s \in Fds : conn[s] = a
    BY DEF MembersAreConnected
  <2>1. a \in live /\ client[a].logged
    BY MembersWereLogged
  <2>2. client[a].fd \in Fds /\ conn[client[a].fd] = a
    BY <2>1 DEF OrderlyInv, AllocatedAreConnected
  <2> QED
    BY <2>1, <2>2
<1> QED
  BY <1>1, OrderlyInvariance, PTL
-----------------------------------------------------------------------------
(* A client list belongs to a channel that has been created.               *)
OnlyChannelsHaveMembers ==
  \A ch \in Chans \ channels, a \in Addrs : members[ch][a] = 0

(* JOIN fills the list of a channel there is, or of the one it creates.    *)
LEMMA JoinMakesMembers ==
  ASSUME ListsInv, NEW s \in Fds, NEW p \in Addrs, NEW ch \in Chans,
         NEW k \in Keys \cup {NULL}, HandleJoin(s, p, ch, k)
  PROVE  /\ channels \subseteq channels'
         /\ \A c \in Chans, a \in Addrs :
              /\ c \in channels => members'[c][a] >= members[c][a]
              /\ c \notin channels' => members'[c][a] = members[c][a]
              /\ c # ch => members'[c][a] = members[c][a]
<1> DEFINE q == GetClient(s)
<1>1. members \in [Chans -> [Addrs -> Nat]]
  BY DEF ListsInv, ChanTypeOK
<1>2. \/ \E b \in Addrs : CreateChannel(q, b, ch, k)
      \/ EnterChannel(q, ch, k)
      \/ UNCHANGED chanVars
  BY DEF HandleJoin, Refuse
<1> HIDE DEF q
<1>3. CASE \E b \in Addrs : CreateChannel(q, b, ch, k)
  <2>1. /\ ch \notin channels /\ channels' = channels \cup {ch}
        /\ members' = [members EXCEPT ![ch] = [a \in Addrs |-> IF a = q THEN 1 ELSE 0]]
    BY <1>3 DEF CreateChannel
  <2> QED
    BY <1>1, <2>1
<1>4. CASE EnterChannel(q, ch, k)
  <2>1. /\ ch \in channels /\ channels' = channels
        /\ members' = [members EXCEPT ![ch][q] = @ + 1]
    BY <1>4 DEF EnterChannel
  <2> QED
    BY <1>1, <2>1
<1>5. CASE UNCHANGED chanVars
  BY <1>1, <1>5 DEF chanVars
<1> QED
  BY <1>2, <1>3, <1>4, <1>5

(* MODE leaves the client lists alone.                                     *)
LEMMA ModeKeepsMembers ==
  ASSUME NEW s \in Fds, NEW p \in Addrs, NEW ch \in Chans, HandleMode(s, p, ch)
  PROVE  members' = members /\ channels' = channels
<1>1. CASE ModeCrash(s, ch) \/ ModeRefused(s, p, ch)
  BY <1>1 DEF ModeCrash, ModeRefused, Refuse, Crash, chanVars
<1>2. CASE \E on \in BOOLEAN : ModeFlag(s, p, ch, on)
  BY <1>2 DEF ModeFlag, Set
<1>3. CASE \E k \in Keys \cup {NULL} : ModeKey(s, p, ch, k)
  BY <1>3 DEF ModeKey, Set
<1>4. CASE \E l \in Limits \cup {BadLimit, NULL} : ModeLimit(s, p, ch, l)
  BY <1>4 DEF ModeLimit, Set
<1>5. CASE \E n \in Nicks, on \in BOOLEAN : ModeOperator(s, p, ch, n, on)
  BY <1>5 DEF ModeOperator, SetOperator, Refuse, Crash, chanVars
<1> QED
  BY <1>1, <1>2, <1>3, <1>4, <1>5 DEF HandleMode

(***************************************************************************)
(* What a command that announces nothing does to the client lists: JOIN    *)
(* may add to one.                                                         *)
(***************************************************************************)
LEMMA QuietKeepsMembers ==
  ASSUME BaseInv, OnlyChannelsHaveMembers, NoMail
  PROVE  /\ channels \subseteq channels'
         /\ \A c \in Chans, a \in Addrs :
              /\ members'[c][a] >= members[c][a]
              /\ c \notin channels' => members'[c][a] = members[c][a]
<1>1. /\ ObjectsInv /\ ListsInv
      /\ \A c \in Chans, a \in Addrs : members[c][a] \in Nat
  BY DEF BaseInv, ListsInv, ChanTypeOK
<1>2. CASE members' = members /\ channels' = channels
  BY <1>1, <1>2
<1>3. CASE Connect \/ Signal
  BY <1>2, <1>3 DEF Connect, AcceptClient, Signal, SignalHandler, Hangup, Crash, chanVars
<1>4. ASSUME NEW s \in Fds, NEW p \in Addrs, Register(s, p) \/ OtherCommand(s, p)
      PROVE  members' = members /\ channels' = channels
  BY <1>1, <1>4, RegistrationEffect DEF Registers, Crash, chanVars
<1>5. ASSUME NEW s \in Fds, NEW p \in Addrs, HandlePrivmsg(s, p, FALSE)
      PROVE  members' = members /\ channels' = channels
  BY <1>5 DEF HandlePrivmsg, Refuse, Crash, chanVars
<1>6. ASSUME NEW s \in Fds, NEW p \in Addrs, NEW ch \in Chans, HandleMode(s, p, ch)
      PROVE  members' = members /\ channels' = channels
  BY <1>6, ModeKeepsMembers
<1>7. ASSUME NEW s \in Fds, NEW p \in Addrs, NEW ch \in Chans,
             NEW k \in Keys \cup {NULL}, HandleJoin(s, p, ch, k)
      PROVE  /\ channels \subseteq channels'
             /\ \A c \in Chans, a \in Addrs :
                  /\ members'[c][a] >= members[c][a]
                  /\ c \notin channels' => members'[c][a] = members[c][a]
  <2> SUFFICES ASSUME NEW c \in Chans, NEW a \in Addrs, c \notin channels
               PROVE  members'[c][a] >= members[c][a]
    BY <1>1, <1>7, JoinMakesMembers
  <2>1. members[c][a] = 0
    BY DEF OnlyChannelsHaveMembers
  <2>2. ListsInv'
    BY <1>1, <1>7, JoinKeepsListsInv
  <2>3. members'[c][a] \in Nat
    BY <2>2 DEF ListsInv, ChanTypeOK
  <2> QED
    BY <2>1, <2>3
<1> QED
  BY <1>2, <1>3, <1>4, <1>5, <1>6, <1>7 DEF NoMail, QuietCommand

(* QUIT and KICK only take entries out of the lists.                       *)
LEMMA LeaversOnly ==
  ASSUME NEW s \in Fds, NEW p \in Addrs,
         \/ HandleQuit(s, p)
         \/ \E ch \in Chans, n \in Nicks : HandleKick(s, p, ch, n),
         members \in [Chans -> [Addrs -> Nat]]
  PROVE  /\ channels' = channels
         /\ \A ch \in Chans, a \in Addrs :
              members'[ch][a] = members[ch][a] \/ members'[ch][a] = 0
<1>1. CASE HandleQuit(s, p)
  <2>1. PICK q : /\ channels' = channels
                 /\ members' = [ch \in Chans |-> WithoutMember(ch, client[q].fd)]
    BY <1>1 DEF HandleQuit, QuitClient
  <2> QED
    BY <2>1 DEF WithoutMember
<1>2. ASSUME NEW ch \in Chans, NEW n \in Nicks, HandleKick(s, p, ch, n)
      PROVE  /\ channels' = channels
             /\ \A c \in Chans, a \in Addrs :
                  members'[c][a] = members[c][a] \/ members'[c][a] = 0
  <2>1. CASE UNCHANGED chanVars
    BY <2>1 DEF chanVars
  <2>2. CASE \E f : /\ channels' = channels
                    /\ members' = [members EXCEPT ![ch] = WithoutMember(ch, f)]
    <3>1. PICK f : /\ channels' = channels
                   /\ members' = [members EXCEPT ![ch] = WithoutMember(ch, f)]
      BY <2>2
    <3> QED
      BY <3>1 DEF WithoutMember
  <2> QED
    BY <1>2, <2>1, <2>2 DEF HandleKick
<1> QED
  BY <1>1, <1>2

(* The messages of the other commands change no client list.               *)
LEMMA TalkKeepsMembers ==
  ASSUME NEW s \in Fds, NEW p \in Addrs,
         \/ \E ch \in Chans, t \in Topics \cup {NULL} : DeliverTopic(s, p, ch, t)
         \/ \E ch \in Chans : DeliverToChannel(s, p, ch)
         \/ \E n \in Nicks \cup {NULL} : DeliverToClient(s, p, n)
         \/ \E n \in Nicks, ch \in Chans : DeliverInvite(s, p, n, ch)
  PROVE  members' = members /\ channels' = channels
<1>1. ASSUME NEW ch, NEW t, HandleTopic(s, p, ch, t)
      PROVE  members' = members /\ channels' = channels
  BY <1>1 DEF HandleTopic, chanVars
<1>2. ASSUME HandlePrivmsg(s, p, TRUE)
      PROVE  members' = members /\ channels' = channels
  BY <1>2 DEF HandlePrivmsg, Refuse, Crash, chanVars
<1>3. ASSUME NEW n, NEW ch, HandleInvite(s, p, n, ch)
      PROVE  members' = members /\ channels' = channels
  BY <1>3 DEF HandleInvite, chanVars
<1> QED
  BY <1>1, <1>2, <1>3 DEF DeliverTopic, DeliverToChannel, DeliverToClient, DeliverInvite

(* A step with its messages is a step of the orderly server.               *)
LEMMA MailStepIsOrderly == [MailNext]_<< vars, mail >> => [OrderlyStep]_vars
<1>1. Quits => OrderlyStep
  BY DEF Quits, DeliverQuit, OrderlyStep
<1>2. ChannelMail => OrderlyStep
  BY DEF ChannelMail, DeliverKick, DeliverTopic, DeliverToChannel, OrderlyStep, RunCommand,
     UseChannel, ManageChannel
<1>3. ASSUME PersonalMail PROVE OrderlyStep
  <2>1. PICK s \in Fds, p \in Addrs :
          \/ \E n \in Nicks \cup {NULL} : DeliverToClient(s, p, n)
          \/ \E n \in Nicks, ch \in Chans : DeliverInvite(s, p, n, ch)
    BY <1>3 DEF PersonalMail
  <2> QED
    BY <2>1 DEF DeliverToClient, DeliverInvite, OrderlyStep, RunCommand, UseChannel,
       ManageChannel
<1>4. ASSUME NEW s \in Fds, NEW p \in Addrs, QuietCommand(s, p)
      PROVE  OrderlyStep
  BY <1>4 DEF QuietCommand, OrderlyStep, RunCommand, UseChannel, ManageChannel
<1>5. NoMail => OrderlyStep
  BY <1>4 DEF NoMail, OrderlyStep
<1> QED
  BY <1>1, <1>2, <1>3, <1>5 DEF MailNext

(* No step lists a client in a channel that is not there.                  *)
LEMMA MailKeepsOnlyChannels ==
  BaseInv /\ OnlyChannelsHaveMembers /\ [MailNext]_<< vars, mail >>
    => OnlyChannelsHaveMembers'
<1> SUFFICES ASSUME BaseInv, OnlyChannelsHaveMembers, [MailNext]_<< vars, mail >>
             PROVE  OnlyChannelsHaveMembers'
  OBVIOUS
<1>1. members \in [Chans -> [Addrs -> Nat]]
  BY DEF BaseInv, ListsInv, ChanTypeOK
<1>2. CASE members' = members /\ channels' = channels
  BY <1>2 DEF OnlyChannelsHaveMembers
<1>3. ASSUME NEW s \in Fds, NEW p \in Addrs,
             \/ HandleQuit(s, p)
             \/ \E ch \in Chans, n \in Nicks : HandleKick(s, p, ch, n)
      PROVE  OnlyChannelsHaveMembers'
  BY <1>1, <1>3, LeaversOnly DEF OnlyChannelsHaveMembers
<1>4. CASE Quits
  BY <1>3, <1>4 DEF Quits, DeliverQuit
<1>5. CASE ChannelMail
  <2>1. PICK s \in Fds, p \in Addrs, ch \in Chans :
          \/ \E n \in Nicks : DeliverKick(s, p, ch, n)
          \/ \E t \in Topics \cup {NULL} : DeliverTopic(s, p, ch, t)
          \/ DeliverToChannel(s, p, ch)
    BY <1>5 DEF ChannelMail
  <2>2. CASE \E n \in Nicks : DeliverKick(s, p, ch, n)
    BY <1>3, <2>2 DEF DeliverKick
  <2>3. CASE \/ \E t \in Topics \cup {NULL} : DeliverTopic(s, p, ch, t)
             \/ DeliverToChannel(s, p, ch)
    BY <1>2, <2>3, TalkKeepsMembers
  <2> QED
    BY <2>1, <2>2, <2>3
<1>6. CASE PersonalMail
  BY <1>2, <1>6, TalkKeepsMembers DEF PersonalMail
<1>7. CASE NoMail
  BY <1>1, <1>7, QuietKeepsMembers DEF OnlyChannelsHaveMembers
<1>8. CASE UNCHANGED << vars, mail >>
  BY <1>2, <1>8 DEF vars, chanVars
<1> QED
  BY <1>4, <1>5, <1>6, <1>7, <1>8 DEF MailNext

(* It holds of the server with its messages wherever the copies are.       *)
LEMMA OnlyChannelsInvariance == MailSpec => [](BaseInv /\ OnlyChannelsHaveMembers)
<1>1. Init => OnlyChannelsHaveMembers
  BY DEF Init, OnlyChannelsHaveMembers
<1>2. [MailNext]_<< vars, mail >> => [Next]_vars
  BY MailStepIsOrderly, OrderlySteps
<1>3. BaseInv /\ OnlyChannelsHaveMembers /\ [MailNext]_<< vars, mail >>
        => OnlyChannelsHaveMembers'
  BY MailKeepsOnlyChannels
<1> QED
  BY <1>1, <1>2, <1>3, BaseInvariance, PTL DEF MailSpec, Spec

(* And as long as they are apart so do the invariants of the orderly one.  *)
LEMMA MailInvariance ==
  MailSpec /\ []CopiesApart => [](IInv /\ OrderlyInv /\ OnlyChannelsHaveMembers)
<1>1. MailSpec => Orderly
  BY MailStepIsOrderly, PTL DEF MailSpec, Orderly
<1> QED
  BY <1>1, OrderlyInvariance, OnlyChannelsInvariance, PTL
-----------------------------------------------------------------------------
(* What DeparturesAreAnnounced and PersonalMailIsExact say of a step.      *)
Announced ==
  \A ch \in Chans, a \in Addrs :
    members[ch][a] > 0 /\ members'[ch][a] = 0 =>
      \E m \in mail' : m.to = ch /\ m.what \in {"QUIT", "KICK"}

PersonalExact ==
  \A m \in mail', s \in Fds :
    m.to \in Nicks =>
      m.copies[s] = IF conn[s] # NULL /\ client[conn[s]].nick = m.to THEN 1 ELSE 0

(* QUIT tells every channel it takes a client out of.                      *)
LEMMA QuitIsAnnounced ==
  ASSUME OnlyChannelsHaveMembers, NEW s \in Fds, NEW p \in Addrs, DeliverQuit(s, p)
  PROVE  Announced
<1> DEFINE q == GetClient(s)
<1> SUFFICES ASSUME NEW ch \in Chans, NEW a \in Addrs,
                    members[ch][a] > 0, members'[ch][a] = 0
             PROVE  \E m \in mail' : m.to = ch /\ m.what \in {"QUIT", "KICK"}
  BY DEF Announced
<1>1. /\ members' = [c \in Chans |-> WithoutMember(c, client[q].fd)]
      /\ mail' = QuitNotices(q)
  BY DEF DeliverQuit, HandleQuit, QuitClient
<1> HIDE DEF q
<1>2. client[a].fd = client[q].fd
  BY <1>1 DEF WithoutMember
<1>3. ch \in channels /\ IsMember(ch, client[q].fd)
  BY <1>2 DEF OnlyChannelsHaveMembers, IsMember
<1>4. Message("QUIT", ch, q, ToChannel(ch, {q})) \in mail'
  BY <1>1, <1>3 DEF QuitNotices
<1> QED
  BY <1>4 DEF Message

(* KICK tells the channel it takes the client out of.                      *)
LEMMA KickIsAnnounced ==
  ASSUME NEW s \in Fds, NEW p \in Addrs, NEW ch \in Chans, NEW n \in Nicks,
         DeliverKick(s, p, ch, n), members \in [Chans -> [Addrs -> Nat]]
  PROVE  Announced
<1> DEFINE kickee == GetClientByNick(n)
           notice == Message("KICK", ch, GetClient(s), ToChannel(ch, {kickee}))
<1>1. CASE MayKick(s, ch, kickee)
  <2>1. /\ members' = [members EXCEPT ![ch] = WithoutMember(ch, client[kickee].fd)]
        /\ notice \in mail'
    BY <1>1 DEF DeliverKick, HandleKick
  <2>2. notice.to = ch /\ notice.what = "KICK"
    BY DEF Message
  <2>3. \A c \in Chans : c # ch => members'[c] = members[c]
    BY <2>1
  <2> HIDE DEF notice, kickee
  <2> QED
    BY <2>1, <2>2, <2>3 DEF Announced
<1>2. CASE ~MayKick(s, ch, kickee)
  <2>1. members' = members
    BY <1>2 DEF DeliverKick, HandleKick, chanVars
  <2> QED
    BY <2>1 DEF Announced
<1> QED
  BY <1>1, <1>2

(* A message to a live client goes to the connection with its nickname.    *)
LEMMA ToClientIsExact ==
  ASSUME IInv, OrderlyInv, server = "up", NEW n \in Nicks, GetClientByNick(n) # NULL,
         NEW s \in Fds
  PROVE  ToClient(GetClientByNick(n))[s] =
           IF conn[s] # NULL /\ client[conn[s]].nick = n THEN 1 ELSE 0
<1> DEFINE q == GetClientByNick(n)
<1>1. q \in live /\ client[q].nick = n /\ n # NULL
  BY GetClientByNickIsLive, GetClientByNickResult, ConstantsAssumption DEF IInv, ConnInv, ObjectsInv
<1> HIDE DEF q
<1>2. client[q].fd \in Fds /\ conn[client[q].fd] = q /\ q # NULL
  BY <1>1, ConstantsAssumption DEF OrderlyInv, AllocatedAreConnected, IInv, ConnInv,
     ObjectsInv, ConnTypeOK
<1>3. ToClient(q)[s] = IF conn[s] = NULL THEN 0 ELSE IF client[q].fd = s THEN 1 ELSE 0
  BY DEF ToClient, Sent
<1>4. ASSUME conn[s] # NULL PROVE client[q].fd = s <=> client[conn[s]].nick = n
  <2>1. conn[s] \in live /\ client[conn[s]].fd = s
    BY <1>4 DEF IInv, ConnInv, ConnectedAreLive
  <2>2. client[conn[s]].nick = n => conn[s] = q
    BY <1>1, <2>1 DEF IInv, ConnInv, ObjectsInv, UniqueNicks
  <2> QED
    BY <1>1, <1>2, <2>1, <2>2
<1>5. ToClient(q)[s] = IF conn[s] # NULL /\ client[conn[s]].nick = n THEN 1 ELSE 0
  BY <1>3, <1>4
<1> QED
  BY <1>5 DEF q

(* Of the clients of the open sockets, a live one is told by its socket.   *)
LEMMA SocketsTellApart ==
  ASSUME IInv, OrderlyInv, server = "up", NEW q \in live, NEW s \in Fds, conn[s] # NULL
  PROVE  client[conn[s]].fd = client[q].fd <=> conn[s] = q
<1>1. conn[s] \in live /\ client[conn[s]].fd = s
  BY DEF IInv, ConnInv, ConnectedAreLive
<1>2. conn[client[q].fd] = q
  BY DEF OrderlyInv, AllocatedAreConnected
<1> QED
  BY <1>1, <1>2

(* Where nobody is listed twice, an entry stands for a client.             *)
LEMMA EntriesOfList ==
  ASSUME NEW list \in [Addrs -> Nat], \A a \in Addrs : list[a] <= 1
  PROVE  UNION {{<<a, i>> : i \in 1 .. list[a]} : a \in Addrs}
           = {e \in Addrs \X {1} : list[e[1]] > 0}
<1>1. \A a \in Addrs : list[a] = 0 \/ list[a] = 1
  OBVIOUS
<1>2. \A a \in Addrs : {<<a, i>> : i \in 1 .. list[a]} = IF list[a] > 0 THEN {<<a, 1>>} ELSE {}
  BY <1>1
<1> QED
  BY <1>2

(* A broadcast to a channel goes once to each member that is not spared.   *)
LEMMA ToChannelIsExact ==
  ASSUME IInv, OrderlyInv, server = "up", NEW ch \in Chans, NEW spared, NEW s \in Fds
  PROVE  ToChannel(ch, spared)[s] =
           IF conn[s] # NULL /\ members[ch][conn[s]] > 0 /\ conn[s] \notin spared THEN 1 ELSE 0
<1> DEFINE meant == {e \in Entries(ch) : e[1] \notin spared /\ client[e[1]].fd = s}
<1>1. ToChannel(ch, spared)[s] = IF conn[s] = NULL THEN 0 ELSE Cardinality(meant)
  BY DEF ToChannel, Sent
<1>2. members[ch] \in [Addrs -> Nat] /\ \A a \in Addrs : members[ch][a] <= 1
  BY DEF IInv, ChanInv, ListsInv, ChanTypeOK, OneEntryPerMember
<1>3. Entries(ch) = {e \in Addrs \X {1} : members[ch][e[1]] > 0}
  BY <1>2, EntriesOfList DEF Entries
<1>4. \A e \in Entries(ch) : e = <<e[1], 1>> /\ conn[client[e[1]].fd] = e[1]
  BY <1>3, MembersWereLogged DEF OrderlyInv, AllocatedAreConnected
<1>5. ASSUME conn[s] # NULL
      PROVE  /\ conn[s] \in Addrs
             /\ client[conn[s]].fd = s
  BY <1>5 DEF IInv, ConnInv, ObjectsInv, ConnTypeOK, ConnectedAreLive
<1>6. CASE conn[s] # NULL /\ members[ch][conn[s]] > 0 /\ conn[s] \notin spared
  <2>1. <<conn[s], 1>> \in meant
    BY <1>3, <1>5, <1>6
  <2>2. \A e \in meant : e = <<conn[s], 1>>
    BY <1>4
  <2>3. meant = {<<conn[s], 1>>}
    BY <2>1, <2>2
  <2> HIDE DEF meant
  <2> QED
    BY <1>1, <1>6, <2>3, FS_Singleton
<1>7. CASE conn[s] # NULL /\ ~(members[ch][conn[s]] > 0 /\ conn[s] \notin spared)
  <2>1. \A e \in meant : e[1] = conn[s] /\ members[ch][e[1]] > 0 /\ e[1] \notin spared
    BY <1>3, <1>4
  <2>2. meant = {}
    BY <1>7, <2>1
  <2> HIDE DEF meant
  <2> QED
    BY <1>1, <1>7, <2>2, FS_EmptySet
<1> HIDE DEF meant
<1> QED
  BY <1>1, <1>6, <1>7

(* What ChannelMailIsExact says of a step.                                 *)
ChannelExact ==
  \A m \in mail', s \in Fds :
    m.to \in Chans =>
      IF conn[s] # NULL /\ Kicked(m, conn[s])
        THEN m.copies[s] <= 1
        ELSE m.copies[s] = IF conn[s] # NULL /\ Audience(m, conn[s]) THEN 1 ELSE 0

(* A broadcast is exact when it spares those the step takes out, and, if it*)
(* is a PRIVMSG, the sender.                                               *)
LEMMA BroadcastIsExact ==
  ASSUME IInv, OrderlyInv, server = "up", NEW ch \in Chans, NEW spared, NEW what, NEW from,
         mail' = {Message(what, ch, from, ToChannel(ch, spared))},
         \A s \in Fds :
           conn[s] # NULL =>
             (members[ch][conn[s]] > 0 /\ conn[s] \notin spared <=>
                /\ members'[ch][conn[s]] > 0
                /\ what = "PRIVMSG" => conn[s] # from)
  PROVE  ChannelExact
<1> SUFFICES ASSUME NEW m \in mail', NEW s \in Fds
             PROVE  m.copies[s] = IF conn[s] # NULL /\ Audience(m, conn[s]) THEN 1 ELSE 0
  BY DEF ChannelExact
<1>1. m.what = what /\ m.to = ch /\ m.from = from /\ m.copies = ToChannel(ch, spared)
  BY DEF Message
<1>2. m.copies[s] =
        IF conn[s] # NULL /\ members[ch][conn[s]] > 0 /\ conn[s] \notin spared THEN 1 ELSE 0
  BY <1>1, ToChannelIsExact
<1>3. conn[s] # NULL =>
        (members[ch][conn[s]] > 0 /\ conn[s] \notin spared <=> Audience(m, conn[s]))
  BY <1>1 DEF Audience
<1> QED
  BY <1>2, <1>3

(* QUIT spares the client it takes out of every channel.                   *)
LEMMA QuitMailIsExact ==
  ASSUME IInv, OrderlyInv, NEW s \in Fds, NEW p \in Addrs, DeliverQuit(s, p)
  PROVE  ChannelExact
<1> DEFINE q == GetClient(s)
<1>1. server = "up" /\ q # NULL
  BY DEF DeliverQuit, HandleQuit, Command
<1>2. q \in live
  BY <1>1, GetClientIsLive DEF IInv
<1>3. /\ members' = [ch \in Chans |-> WithoutMember(ch, client[q].fd)]
      /\ mail' = QuitNotices(q)
  BY DEF DeliverQuit, HandleQuit, QuitClient
<1> HIDE DEF q
<1>4. channels \subseteq Chans /\ members \in [Chans -> [Addrs -> Nat]]
  BY DEF IInv, ChanInv, ListsInv, ChanTypeOK
<1> SUFFICES ASSUME NEW m \in mail', NEW f \in Fds
             PROVE  m.copies[f] = IF conn[f] # NULL /\ Audience(m, conn[f]) THEN 1 ELSE 0
  BY DEF ChannelExact
<1>5. PICK ch \in Chans : m = Message("QUIT", ch, q, ToChannel(ch, {q}))
  BY <1>3, <1>4 DEF QuitNotices
<1>6. m.what = "QUIT" /\ m.to = ch /\ m.copies = ToChannel(ch, {q})
  BY <1>5 DEF Message
<1>7. m.copies[f] = IF conn[f] # NULL /\ members[ch][conn[f]] > 0 /\ conn[f] # q THEN 1 ELSE 0
  BY <1>1, <1>6, ToChannelIsExact
<1>8. ASSUME conn[f] # NULL
      PROVE  members[ch][conn[f]] > 0 /\ conn[f] # q <=> Audience(m, conn[f])
  <2>1. conn[f] \in Addrs
    BY <1>8 DEF IInv, ConnInv, ObjectsInv, ConnTypeOK
  <2>2. members'[ch][conn[f]] =
          IF client[conn[f]].fd = client[q].fd THEN 0 ELSE members[ch][conn[f]]
    BY <1>3, <2>1 DEF WithoutMember
  <2>3. client[conn[f]].fd = client[q].fd <=> conn[f] = q
    BY <1>1, <1>2, <1>8, SocketsTellApart
  <2> QED
    BY <1>6, <2>2, <2>3 DEF Audience
<1> QED
  BY <1>7, <1>8

(* KICK spares the client it takes out of the channel.                     *)
LEMMA KickMailIsExact ==
  ASSUME IInv, OrderlyInv, NEW s \in Fds, NEW p \in Addrs, NEW ch \in Chans, NEW n \in Nicks,
         DeliverKick(s, p, ch, n)
  PROVE  ChannelExact
<1> DEFINE kickee == GetClientByNick(n)
<1>1. server = "up"
  BY DEF DeliverKick, HandleKick, LoggedCommand, Command
<1>2. kickee # NULL => kickee \in live
  BY <1>1, GetClientByNickIsLive, ConstantsAssumption DEF IInv
<1>3. CASE MayKick(s, ch, kickee)
  <2>1. /\ members' = [members EXCEPT ![ch] = WithoutMember(ch, client[kickee].fd)]
        /\ mail' = {Message("KICK", ch, GetClient(s), ToChannel(ch, {kickee}))}
    BY <1>3 DEF DeliverKick, HandleKick
  <2>2. kickee \in live
    BY <1>2, <1>3 DEF MayKick
  <2> HIDE DEF kickee
  <2>3. ASSUME NEW f \in Fds, conn[f] # NULL
        PROVE  members[ch][conn[f]] > 0 /\ conn[f] \notin {kickee} <=> members'[ch][conn[f]] > 0
    <3>1. conn[f] \in Addrs /\ members \in [Chans -> [Addrs -> Nat]]
      BY <2>3 DEF IInv, ConnInv, ObjectsInv, ConnTypeOK, ChanInv, ListsInv, ChanTypeOK
    <3>2. members'[ch][conn[f]] =
            IF client[conn[f]].fd = client[kickee].fd THEN 0 ELSE members[ch][conn[f]]
      BY <2>1, <3>1 DEF WithoutMember
    <3>3. client[conn[f]].fd = client[kickee].fd <=> conn[f] = kickee
      BY <1>1, <2>2, <2>3, SocketsTellApart
    <3> QED
      BY <3>2, <3>3
  <2> QED
    BY <1>1, <2>1, <2>3, BroadcastIsExact
<1>4. CASE ~MayKick(s, ch, kickee)
  BY <1>4 DEF DeliverKick, ChannelExact
<1> QED
  BY <1>3, <1>4

(* TOPIC spares nobody, PRIVMSG the sender, and the lists stay.            *)
LEMMA TalkMailIsExact ==
  ASSUME IInv, OrderlyInv, NEW s \in Fds, NEW p \in Addrs, NEW ch \in Chans,
         \/ \E t \in Topics \cup {NULL} : DeliverTopic(s, p, ch, t)
         \/ DeliverToChannel(s, p, ch)
  PROVE  ChannelExact
<1> DEFINE q == GetClient(s)
<1>1. server = "up"
  BY DEF DeliverTopic, DeliverToChannel, HandleTopic, HandlePrivmsg, LoggedCommand, Command
<1>2. members' = members
  BY TalkKeepsMembers
<1>3. q # NULL => q \in live
  BY <1>1, GetClientIsLive DEF IInv
<1>4. CASE mail' = {}
  BY <1>4 DEF ChannelExact
<1>5. CASE mail' = {Message("TOPIC", ch, q, ToChannel(ch, {}))}
  <2> HIDE DEF q
  <2> QED
    BY <1>1, <1>2, <1>5, BroadcastIsExact
<1>6. CASE q # NULL /\ mail' = {Message("PRIVMSG", ch, q,
                                     ToChannel(ch, {a \in Addrs : client[a].fd = client[q].fd}))}
  <2> HIDE DEF q
  <2> DEFINE spared == {a \in Addrs : client[a].fd = client[q].fd}
  <2>1. ASSUME NEW f \in Fds, conn[f] # NULL
        PROVE  conn[f] \in spared <=> conn[f] = q
    <3>1. conn[f] \in Addrs
      BY <2>1 DEF IInv, ConnInv, ObjectsInv, ConnTypeOK
    <3> QED
      BY <1>1, <1>3, <1>6, <2>1, <3>1, SocketsTellApart
  <2>2. mail' = {Message("PRIVMSG", ch, q, ToChannel(ch, spared))}
    BY <1>6
  <2> HIDE DEF spared
  <2> QED
    BY <1>1, <1>2, <2>1, <2>2, BroadcastIsExact
<1> QED
  BY <1>4, <1>5, <1>6 DEF DeliverTopic, DeliverToChannel

-----------------------------------------------------------------------------
(***************************************************************************)
(* When all clients leave with QUIT, nobody is taken out of a channel      *)
(* unless the channel is sent the QUIT or the KICK: handleQuit leaves out  *)
(* no channel of the client, and handleKick no other.                      *)
(***************************************************************************)
THEOREM DeparturesAnnounced == MailSpec => DeparturesAreAnnounced
<1>1. ASSUME BaseInv, OnlyChannelsHaveMembers, [MailNext]_<< vars, mail >>
      PROVE  Announced
  <2>1. members \in [Chans -> [Addrs -> Nat]]
    BY <1>1 DEF BaseInv, ListsInv, ChanTypeOK
  <2>2. CASE \A ch \in Chans, a \in Addrs : members'[ch][a] >= members[ch][a]
    <3> SUFFICES ASSUME NEW ch \in Chans, NEW a \in Addrs,
                        members[ch][a] > 0, members'[ch][a] = 0
                 PROVE  FALSE
      BY DEF Announced
    <3>1. 0 >= members[ch][a] /\ members[ch][a] \in Nat
      BY <2>1, <2>2
    <3> QED
      BY <3>1
  <2>3. CASE members' = members
    BY <2>3 DEF Announced
  <2>4. CASE Quits
    BY <1>1, <2>4, QuitIsAnnounced DEF Quits
  <2>5. CASE ChannelMail
    <3>1. PICK s \in Fds, p \in Addrs, ch \in Chans :
            \/ \E n \in Nicks : DeliverKick(s, p, ch, n)
            \/ \E t \in Topics \cup {NULL} : DeliverTopic(s, p, ch, t)
            \/ DeliverToChannel(s, p, ch)
      BY <2>5 DEF ChannelMail
    <3>2. CASE \E n \in Nicks : DeliverKick(s, p, ch, n)
      BY <2>1, <3>2, KickIsAnnounced
    <3>3. CASE \/ \E t \in Topics \cup {NULL} : DeliverTopic(s, p, ch, t)
               \/ DeliverToChannel(s, p, ch)
      BY <2>3, <3>3, TalkKeepsMembers
    <3> QED
      BY <3>1, <3>2, <3>3
  <2>6. CASE PersonalMail
    BY <2>3, <2>6, TalkKeepsMembers DEF PersonalMail
  <2>7. CASE NoMail
    BY <1>1, <2>2, <2>7, QuietKeepsMembers
  <2>8. CASE UNCHANGED << vars, mail >>
    BY <2>3, <2>8 DEF vars, chanVars
  <2> QED
    BY <1>1, <2>4, <2>5, <2>6, <2>7, <2>8 DEF MailNext
<1> QED
  BY <1>1, OnlyChannelsInvariance, PTL DEF MailSpec, DeparturesAreAnnounced, Announced

(***************************************************************************)
(* And a message to a nickname is sent once, to the connection whose client*)
(* has that nickname: the search by nickname never ends at a freed entry.  *)
(***************************************************************************)
THEOREM PersonalMailReaches == MailSpec /\ []CopiesApart => PersonalMailIsExact
<1>1. ASSUME IInv, OrderlyInv, [MailNext]_<< vars, mail >>,
             ~UNCHANGED << vars, mail >>
      PROVE  PersonalExact
  <2>1. CASE \A m \in mail' : m.to \in Chans
    BY <2>1, NamesAssumption DEF PersonalExact
  <2>2. CASE Quits
    <3>1. PICK s \in Fds : mail' = QuitNotices(GetClient(s))
      BY <2>2 DEF Quits, DeliverQuit
    <3>2. channels \subseteq Chans
      BY <1>1 DEF IInv, ChanInv, ListsInv, ChanTypeOK
    <3>3. ASSUME NEW m \in mail' PROVE m.to \in Chans
      <4>1. PICK ch \in channels :
              m = Message("QUIT", ch, GetClient(s), ToChannel(ch, {GetClient(s)}))
        BY <3>1, <3>3 DEF QuitNotices
      <4> QED
        BY <3>2, <4>1 DEF Message
    <3> QED
      BY <2>1, <3>3
  <2>3. CASE ChannelMail
    <3>1. PICK s \in Fds, p \in Addrs, ch \in Chans :
            \/ \E n \in Nicks : DeliverKick(s, p, ch, n)
            \/ \E t \in Topics \cup {NULL} : DeliverTopic(s, p, ch, t)
            \/ DeliverToChannel(s, p, ch)
      BY <2>3 DEF ChannelMail
    <3>2. ASSUME NEW m \in mail' PROVE m.to = ch
      <4>1. \E what, from, spared : m = Message(what, ch, from, ToChannel(ch, spared))
        <5>1. CASE \E n \in Nicks : DeliverKick(s, p, ch, n)
          BY <3>2, <5>1 DEF DeliverKick
        <5>2. CASE \E t \in Topics \cup {NULL} : DeliverTopic(s, p, ch, t)
          BY <3>2, <5>2 DEF DeliverTopic
        <5>3. CASE DeliverToChannel(s, p, ch)
          BY <3>2, <5>3 DEF DeliverToChannel
        <5> QED
          BY <3>1, <5>1, <5>2, <5>3
      <4> QED
        BY <4>1 DEF Message
    <3> QED
      BY <2>1, <3>2
  <2>4. CASE PersonalMail
    <3>1. PICK s \in Fds, p \in Addrs, n \in Nicks \cup {NULL} :
            \/ DeliverToClient(s, p, n)
            \/ \E ch \in Chans : DeliverInvite(s, p, n, ch)
      BY <2>4 DEF PersonalMail
    <3> DEFINE q == GetClientByNick(n)
    <3>2. server = "up"
      BY <3>1 DEF DeliverToClient, DeliverInvite, HandlePrivmsg, HandleInvite, LoggedCommand,
         Command
    <3>3. ASSUME NEW m \in mail'
          PROVE  q # NULL /\ m.to = n /\ m.copies = ToClient(q)
      <4>1. PICK what : q # NULL /\ m = Message(what, n, GetClient(s), ToClient(q))
        BY <3>1, <3>3 DEF DeliverToClient, DeliverInvite, MayInvite
      <4> QED
        BY <4>1 DEF Message
    <3> SUFFICES ASSUME NEW m \in mail', NEW f \in Fds, m.to \in Nicks
                 PROVE  m.copies[f] =
                          IF conn[f] # NULL /\ client[conn[f]].nick = m.to THEN 1 ELSE 0
      BY DEF PersonalExact
    <3> QED
      BY <1>1, <3>2, <3>3, ToClientIsExact
  <2>5. CASE NoMail
    BY <2>5 DEF NoMail, PersonalExact
  <2> QED
    BY <1>1, <2>2, <2>3, <2>4, <2>5 DEF MailNext
<1>2. IInv /\ OrderlyInv /\ [MailNext]_<< vars, mail >> => [PersonalExact]_<< vars, mail >>
  BY <1>1
<1> QED
  BY <1>2, MailInvariance, PTL DEF MailSpec, PersonalMailIsExact, PersonalExact

(***************************************************************************)
(* And a message to a channel is sent once to each of its clients that stay*)
(* (for a PRIVMSG: to the others), and to nobody else: the socket numbers  *)
(* read from the list are those of the connections meant.                  *)
(***************************************************************************)
THEOREM ChannelMailReaches == MailSpec /\ []CopiesApart => ChannelMailIsExact
<1>1. ASSUME IInv, OrderlyInv, [MailNext]_<< vars, mail >>,
             ~UNCHANGED << vars, mail >>
      PROVE  ChannelExact
  <2>1. CASE Quits
    BY <1>1, <2>1, QuitMailIsExact DEF Quits
  <2>2. CASE ChannelMail
    <3>1. PICK s \in Fds, p \in Addrs, ch \in Chans :
            \/ \E n \in Nicks : DeliverKick(s, p, ch, n)
            \/ \E t \in Topics \cup {NULL} : DeliverTopic(s, p, ch, t)
            \/ DeliverToChannel(s, p, ch)
      BY <2>2 DEF ChannelMail
    <3>2. CASE \E n \in Nicks : DeliverKick(s, p, ch, n)
      BY <1>1, <3>2, KickMailIsExact
    <3>3. CASE \/ \E t \in Topics \cup {NULL} : DeliverTopic(s, p, ch, t)
               \/ DeliverToChannel(s, p, ch)
      BY <1>1, <3>3, TalkMailIsExact
    <3> QED
      BY <3>1, <3>2, <3>3
  <2>3. CASE PersonalMail
    <3>1. ASSUME NEW m \in mail' PROVE m.to \in Nicks \cup {NULL}
      <4>1. PICK s \in Fds, p \in Addrs, n \in Nicks \cup {NULL} :
              \/ DeliverToClient(s, p, n)
              \/ \E ch \in Chans : DeliverInvite(s, p, n, ch)
        BY <2>3 DEF PersonalMail
      <4>2. PICK what, q : m = Message(what, n, GetClient(s), ToClient(q))
        BY <3>1, <4>1 DEF DeliverToClient, DeliverInvite
      <4> QED
        BY <4>2 DEF Message
    <3> QED
      BY <3>1, NamesAssumption DEF ChannelExact
  <2>4. CASE NoMail
    BY <2>4 DEF NoMail, ChannelExact
  <2> QED
    BY <1>1, <2>1, <2>2, <2>3, <2>4 DEF MailNext
<1>2. IInv /\ OrderlyInv /\ [MailNext]_<< vars, mail >> => [ChannelExact]_<< vars, mail >>
  BY <1>1
<1> QED
  BY <1>2, MailInvariance, PTL DEF MailSpec, ChannelMailIsExact, ChannelExact

-----------------------------------------------------------------------------
(***************************************************************************)
(* The users' view.  A step that keeps who is connected and what they gave *)
(* keeps the sessions: the login follows from the rest.                    *)
(***************************************************************************)
LEMMA SameSessions ==
  ASSUME IInv, IInv', UNCHANGED << server, live, conn >>,
         \A a \in live : /\ client'[a].nick = client[a].nick
                         /\ client'[a].pswd = client[a].pswd
                         /\ client'[a].user = client[a].user
  PROVE  Online' = Online /\ Sessions' = Sessions
<1>1. Online' = Online
  BY DEF Online
<1>2. ASSUME NEW a \in live PROVE client'[a].logged = client[a].logged
  <2>1. a \in Addrs /\ a \in live'
    BY DEF IInv, ConnInv, ObjectsInv, ConnTypeOK
  <2>2. client[a].logged \in BOOLEAN /\ client'[a].logged \in BOOLEAN
    BY <2>1 DEF IInv, ConnInv, ObjectsInv, ConnTypeOK, ClientRecord
  <2>3. client'[a].logged <=> client[a].logged
    BY <2>1 DEF IInv, ConnInv, ObjectsInv, LoggedIffRegistered
  <2> QED
    BY <2>2, <2>3
<1>3. ASSUME NEW s \in Online PROVE Shown(conn[s])' = Shown(conn[s])
  <2>1. conn[s] \in live
    BY DEF Online, IInv, ConnInv, ConnectedAreLive
  <2> QED
    BY <1>2, <2>1 DEF Shown
<1> QED
  BY <1>1, <1>3 DEF Sessions

(* And the rooms are those of the client lists.                            *)
LEMMA SameRooms ==
  ASSUME UNCHANGED << server, members >>,
         \A ch \in Chans, a \in Addrs :
           server = "up" /\ members[ch][a] > 0 => client'[a].fd = client[a].fd
  PROVE  Rooms' = Rooms
BY DEF Rooms, IsMember

(* However the process ends, every connection ends with it.                *)
LEMMA EndIsStop ==
  ASSUME server = "up", server' # "up"
  PROVE  Chat!Stop
<1>1. Online' = {} /\ Rooms' = [ch \in Chans |-> {}]
  BY DEF Online, Rooms
<1>2. Sessions' = [s \in Fds |-> Chat!Blank]
  BY <1>1 DEF Sessions, Chat!Blank
<1> QED
  BY <1>1, <1>2 DEF Chat!Stop

(* A new connection starts blank, whoever had the number or the address.   *)
LEMMA AcceptIsConnect ==
  ASSUME IInv, OrderlyInv, NEW s \in Fds, NEW a \in Addrs, AcceptClient(s, a)
  PROVE  Chat!Connect(s)
<1>1. /\ server = "up" /\ server' = "up"
      /\ conn[s] = NULL /\ conn' = [conn EXCEPT ![s] = a]
      /\ a \notin live /\ members' = members
      /\ client' = [client EXCEPT ![a] = NewClient(s)]
  BY DEF AcceptClient, LowestFree, chanVars
<1>2. /\ client \in [Addrs -> ClientRecord] /\ live \subseteq Addrs
      /\ conn \in [Fds -> Addrs \cup {NULL}] /\ a # NULL
  BY ConstantsAssumption DEF IInv, ConnInv, ObjectsInv, ConnTypeOK
<1>3. Online' = Online \cup {s} /\ s \notin Online
  BY <1>1, <1>2 DEF Online
<1>4. Sessions' = Sessions
  <2>1. ASSUME NEW t \in Fds, t # s PROVE Sessions'[t] = Sessions[t]
    <3>1. CASE t \in Online
      <4>1. conn[t] \in live /\ conn'[t] = conn[t]
        BY <1>1, <1>2, <2>1, <3>1 DEF Online, IInv, ConnInv, ConnectedAreLive
      <4>2. client'[conn[t]] = client[conn[t]]
        BY <1>1, <1>2, <4>1
      <4> QED
        BY <1>3, <3>1, <4>1, <4>2 DEF Sessions, Shown
    <3>2. CASE t \notin Online
      BY <1>3, <2>1, <3>2 DEF Sessions
    <3> QED
      BY <3>1, <3>2
  <2>2. Sessions'[s] = Sessions[s]
    <3>1. conn'[s] = a /\ client'[a] = NewClient(s)
      BY <1>1, <1>2
    <3>2. Sessions'[s] = [nick |-> client'[a].nick, pswd |-> client'[a].pswd,
                          user |-> client'[a].user, logged |-> client'[a].logged]
      BY <1>3, <3>1 DEF Sessions, Shown
    <3>3. Sessions[s] = [nick |-> NULL, pswd |-> FALSE, user |-> FALSE, logged |-> FALSE]
      BY <1>3 DEF Sessions
    <3> QED
      BY <3>1, <3>2, <3>3 DEF NewClient
  <2> QED
    BY <2>1, <2>2 DEF Sessions
<1>5. Rooms' = Rooms
  <2>1. \A ch \in Chans, b \in Addrs : members[ch][b] > 0 => client'[b] = client[b]
    BY <1>1, <1>2, MembersWereLogged
  <2> QED
    BY <1>1, <2>1 DEF Rooms, IsMember
<1> QED
  BY <1>1, <1>3, <1>4, <1>5 DEF Chat!Connect

(* QUIT leaves nothing of the connection.                                  *)
LEMMA QuitIsLeave ==
  ASSUME IInv, OrderlyInv, NEW s \in Fds, NEW p \in Addrs, HandleQuit(s, p)
  PROVE  Chat!Leave(s)
<1> DEFINE q == GetClient(s)
<1>1. server = "up" /\ q # NULL
  BY DEF HandleQuit, Command
<1>2. q \in live /\ client[q].fd = s
  BY <1>1, GetClientIsLive DEF IInv
<1>3. PICK garbage \in BOOLEAN : QuitClient(s, p, q, garbage)
  BY DEF HandleQuit
<1> HIDE DEF q
<1>4. /\ server' = "up"
      /\ members' = [ch \in Chans |-> WithoutMember(ch, s)]
      /\ client' = [client EXCEPT ![q] = Freed(client[q], garbage)]
      /\ conn' = [conn EXCEPT ![s] = NULL]
  BY <1>1, <1>2, <1>3 DEF QuitClient
<1>5. /\ client \in [Addrs -> ClientRecord] /\ live \subseteq Addrs
      /\ conn \in [Fds -> Addrs \cup {NULL}] /\ conn[s] = q
  BY <1>1, <1>2 DEF IInv, ConnInv, ObjectsInv, ConnTypeOK, OrderlyInv, AllocatedAreConnected
<1>6. Online' = Online \ {s} /\ s \in Online
  BY <1>1, <1>4, <1>5 DEF Online
<1>7. Sessions' = [Sessions EXCEPT ![s] = Chat!Blank]
  <2>1. ASSUME NEW t \in Fds, t # s PROVE Sessions'[t] = Sessions[t]
    <3>1. CASE t \in Online
      <4>1. client[conn[t]].fd = t /\ conn'[t] = conn[t]
        BY <1>4, <1>5, <2>1, <3>1 DEF Online, IInv, ConnInv, ConnectedAreLive
      <4>2. client'[conn[t]] = client[conn[t]]
        BY <1>2, <1>4, <1>5, <2>1, <4>1
      <4> QED
        BY <1>6, <2>1, <3>1, <4>1, <4>2 DEF Sessions, Shown
    <3>2. CASE t \notin Online
      BY <1>6, <3>2 DEF Sessions
    <3> QED
      BY <3>1, <3>2
  <2>2. Sessions'[s] = Chat!Blank
    BY <1>6 DEF Sessions, Chat!Blank
  <2> QED
    BY <2>1, <2>2 DEF Sessions
<1>8. Rooms' = [ch \in Chans |-> Rooms[ch] \ {s}]
  <2>1. ASSUME NEW ch \in Chans, NEW b \in Addrs
        PROVE  members'[ch][b] > 0 <=> members[ch][b] > 0 /\ client[b].fd # s
    BY <1>4 DEF WithoutMember
  <2>2. ASSUME NEW ch \in Chans, NEW b \in Addrs, members'[ch][b] > 0
        PROVE  client'[b] = client[b]
    BY <1>2, <1>4, <1>5, <2>1, <2>2
  <2>3. ASSUME NEW ch \in Chans, NEW t \in Fds
        PROVE  IsMember(ch, t)' <=> IsMember(ch, t) /\ t # s
    BY <2>1, <2>2 DEF IsMember
  <2> QED
    BY <1>1, <1>4, <2>3 DEF Rooms
<1> QED
  BY <1>1, <1>4, <1>6, <1>7, <1>8 DEF Chat!Leave

(* A command of a client changes at most its own session.                  *)
LEMMA RegistersIsTell ==
  ASSUME IInv, IInv', OrderlyInv, NEW s \in Fds, NEW p \in Addrs, NEW objects,
         Registers(s, p, objects)
  PROVE  Chat!Tell(s) \/ UNCHANGED Chat!vars
<1> DEFINE q == GetClient(s)
<1>1. Effect(s, p, objects) /\ Quiet(s, p, objects)
  BY DEF Registers
<1>2. /\ server = "up" /\ server' = "up" /\ UNCHANGED << live, conn, members >>
      /\ Keeps(objects, q)
  BY <1>1, QuietFrame, QuietIsHandled DEF Registers, Effect, chanVars, IInv
<1>3. /\ q \in Addrs \cup {NULL} /\ live \subseteq Addrs
      /\ q # NULL => q \in live /\ client[q].fd = s
  BY <1>2, GetClientResult, GetClientIsLive DEF IInv, ConnInv, ObjectsInv, ConnTypeOK
<1>4. \A a \in Addrs : /\ client'[a].fd = client[a].fd
                       /\ client'[a].nick = objects[a].nick
                       /\ client'[a].pswd = objects[a].pswd
                       /\ client'[a].user = objects[a].user
                       /\ a # q => client'[a] = objects[a]
  BY <1>1, EffectObjects, QuietIsHandled DEF Registers, IInv, ConnInv, ObjectsInv
<1> HIDE DEF q
<1>5. Online' = Online /\ Rooms' = Rooms
  BY <1>2, <1>4, SameRooms DEF Online, IInv, ChanInv, ListsInv, ChanTypeOK
<1>6. CASE q = NULL
  <2>1. \A a \in live : a # q
    BY <1>3, <1>6, ConstantsAssumption
  <2>2. Sessions' = Sessions
    BY <1>2, <1>3, <1>4, <2>1, SameSessions DEF Keeps
  <2> QED
    BY <1>2, <1>5, <2>2 DEF Chat!vars
<1>7. CASE q # NULL
  <2>1. q \in live /\ q \in Addrs /\ conn[s] = q /\ s \in Online
    BY <1>2, <1>3, <1>7 DEF OrderlyInv, AllocatedAreConnected, Online
  <2>2. /\ Sessions[s] = Shown(q)
        /\ Sessions'[s] = [nick |-> client'[q].nick, pswd |-> client'[q].pswd,
                           user |-> client'[q].user, logged |-> client'[q].logged]
    BY <1>2, <1>5, <2>1 DEF Sessions, Shown
  <2>3. client[q] \in ClientRecord /\ client'[q] \in ClientRecord
    BY <2>1 DEF IInv, ConnInv, ObjectsInv, ConnTypeOK
  <2>4. Sessions'[s] \in Chat!Session
    BY <2>2, <2>3 DEF Shown, ClientRecord, Chat!Session
  <2>5. /\ Sessions[s].pswd => Sessions'[s].pswd
        /\ Sessions[s].user => Sessions'[s].user
    BY <1>2, <1>4, <2>1, <2>2 DEF Shown, Keeps
  <2>6. \/ Sessions'[s].nick = Sessions[s].nick
        \/ /\ Sessions'[s].nick # NULL
           /\ \A t \in Online : Sessions[t].nick # Sessions'[s].nick
    <3> SUFFICES ASSUME client'[q].nick # client[q].nick
                 PROVE  /\ client'[q].nick # NULL
                        /\ \A t \in Online : Sessions[t].nick # client'[q].nick
      BY <2>2 DEF Shown
    <3>1. objects[q].nick = client'[q].nick /\ client'[q].nick # NULL
      BY <1>2, <1>4, <2>1 DEF Keeps
    <3> SUFFICES ASSUME NEW t \in Online, Sessions[t].nick = client'[q].nick
                 PROVE  FALSE
      BY <3>1
    <3>2. t \in Fds /\ conn[t] \in live /\ client[conn[t]].nick = client'[q].nick
      BY DEF Online, Sessions, Shown, IInv, ConnInv, ConnectedAreLive
    <3>3. conn[t] # q
      BY <3>2
    <3>4. objects[conn[t]].nick = client[conn[t]].nick
      BY <1>2, <3>2, <3>3 DEF Keeps
    <3> QED
      BY <1>2, <2>1, <3>1, <3>2, <3>3, <3>4 DEF Keeps
  <2>7. Sessions'[s].logged <=>
          Sessions'[s].pswd /\ Sessions'[s].user /\ Sessions'[s].nick # NULL
    BY <1>2, <2>1, <2>2 DEF Shown, IInv, ConnInv, ObjectsInv, LoggedIffRegistered
  <2>8. Sessions' = [Sessions EXCEPT ![s] = Sessions'[s]]
    <3> SUFFICES ASSUME NEW t \in Fds, t # s PROVE Sessions'[t] = Sessions[t]
      BY DEF Sessions
    <3>1. CASE t \in Online
      <4>1. conn[t] \in live /\ conn[t] \in Addrs /\ client[conn[t]].fd = t
        BY <1>3, <3>1 DEF Online, IInv, ConnInv, ConnectedAreLive
      <4>2. conn[t] # q
        BY <1>3, <1>7, <4>1
      <4>3. /\ client'[conn[t]] = objects[conn[t]]
            /\ objects[conn[t]].nick = client[conn[t]].nick
            /\ objects[conn[t]].pswd = client[conn[t]].pswd
            /\ objects[conn[t]].user = client[conn[t]].user
            /\ objects[conn[t]].logged = client[conn[t]].logged
        BY <1>2, <4>1, <4>2, <1>4 DEF Keeps
      <4> QED
        BY <1>2, <1>5, <3>1, <4>3 DEF Sessions, Shown
    <3>2. CASE t \notin Online
      BY <1>5, <3>2 DEF Sessions
    <3> QED
      BY <3>1, <3>2
  <2> QED
    BY <1>2, <1>5, <2>1, <2>4, <2>5, <2>6, <2>7, <2>8 DEF Chat!Tell
<1> QED
  BY <1>6, <1>7

(* A command that changes nothing a user has given shows in the rooms only.*)
LEMMA EffectShowsRooms ==
  ASSUME IInv, IInv', NEW s \in Fds, NEW p \in Addrs, NEW objects,
         Effect(s, p, objects), Quiet(s, p, objects),
         \A a \in live : /\ objects[a].nick = client[a].nick
                         /\ objects[a].pswd = client[a].pswd
                         /\ objects[a].user = client[a].user
  PROVE  /\ Online' = Online /\ Sessions' = Sessions
         /\ server = "up" /\ server' = "up"
         /\ \A a \in live : client'[a].fd = client[a].fd
<1>1. /\ server = "up" /\ server' = "up" /\ live' = live /\ conn' = conn
      /\ \A a \in live : client'[a].fd = client[a].fd
  BY QuietFrame DEF IInv, Effect
<1>2. \A a \in live : /\ client'[a].nick = client[a].nick
                      /\ client'[a].pswd = client[a].pswd
                      /\ client'[a].user = client[a].user
  BY EffectObjects DEF IInv, ConnInv, ObjectsInv, ConnTypeOK
<1> QED
  BY <1>1, <1>2, SameSessions

(* So does a channel command that runs to its end.                         *)
LEMMA ChannelShowsRooms ==
  ASSUME IInv, IInv', CopiesApart, CopiesApart',
         NEW s \in Fds, NEW p \in Addrs, NEW ch \in Chans, UseChannel(s, p, ch)
  PROVE  \/ Command(s, p) /\ Crash("null_deref")
         \/ /\ Online' = Online /\ Sessions' = Sessions
            /\ server = "up" /\ server' = "up"
            /\ \A a \in live : client'[a].fd = client[a].fd
<1>1. ObjectsInv /\ ChanTypeOK /\ live \subseteq Addrs
  BY DEF IInv, ConnInv, ObjectsInv, ConnTypeOK, ChanInv, ListsInv
<1>2. Command(s, p)
  BY DEF UseChannel, ManageChannel, HandleJoin, HandleTopic, HandleKick, HandleInvite,
     HandleMode, LoggedCommand
<1>3. ASSUME NEW objects, ChannelEffect(s, p, ch, objects)
      PROVE  \A a \in live : /\ objects[a].nick = client[a].nick
                             /\ objects[a].pswd = client[a].pswd
                             /\ objects[a].user = client[a].user
  <2>1. client \in [Addrs -> ClientRecord]
    BY <1>1 DEF ObjectsInv, ConnTypeOK
  <2>2. CASE \E a : NewOperator(s, p, ch, a, objects)
    BY <1>1, <2>1, <2>2 DEF NewOperator
  <2>3. CASE Grows(s, p, ch, objects)
    BY <1>1, <2>1, <2>3 DEF Grows, WithoutCopy, ClientRecord
  <2> QED
    BY <1>3, <2>2, <2>3 DEF ChannelEffect
<1>4. ASSUME NEW objects, ChannelEffect(s, p, ch, objects)
      PROVE  Effect(s, p, objects) /\ Quiet(s, p, objects)
  BY <1>1, <1>2, <1>4, ChannelEffectIsEffect, ChannelEffectIsQuiet
<1>5. (\E objects : ChannelEffect(s, p, ch, objects)) \/ Crash("null_deref")
  BY JoinEffect, ManageEffect DEF UseChannel
<1> QED
  BY <1>2, <1>3, <1>4, <1>5, EffectShowsRooms

(* One that changes no client list does not show at all.                   *)
LEMMA SameListsAreUnseen ==
  ASSUME IInv, UNCHANGED << server, members >>, Online' = Online, Sessions' = Sessions,
         \A a \in live : client'[a].fd = client[a].fd
  PROVE  UNCHANGED Chat!vars
<1>1. \A ch \in Chans, a \in Addrs :
        server = "up" /\ members[ch][a] > 0 => client'[a].fd = client[a].fd
  BY DEF IInv, ChanInv, MembersAreLive
<1> QED
  BY <1>1, SameRooms DEF Chat!vars

(* JOIN lets the logged-in client of the socket in, or nobody.             *)
LEMMA JoinIsJoin ==
  ASSUME IInv, IInv', CopiesApart, CopiesApart', OrderlyInv, OnlyChannelsHaveMembers,
         NEW s \in Fds, NEW p \in Addrs, NEW ch \in Chans, NEW k \in Keys \cup {NULL},
         HandleJoin(s, p, ch, k)
  PROVE  Chat!Join(s, ch) \/ UNCHANGED Chat!vars
<1> DEFINE q == GetClient(s)
           Lets == (\E b \in Addrs : CreateChannel(q, b, ch, k)) \/ EnterChannel(q, ch, k)
<1>1. UseChannel(s, p, ch) /\ server' = server
  BY DEF UseChannel, HandleJoin, Refuse, Done, tableVars
<1>2. /\ Online' = Online /\ Sessions' = Sessions
      /\ server = "up" /\ server' = "up"
      /\ \A a \in live : client'[a].fd = client[a].fd
  BY <1>1, ChannelShowsRooms DEF Command, Crash
<1>3. /\ members \in [Chans -> [Addrs -> Nat]] /\ live \subseteq Addrs
      /\ conn \in [Fds -> Addrs \cup {NULL}]
      /\ \A c \in Chans, a \in Addrs : members[c][a] > 0 => a \in live
  BY <1>2 DEF IInv, ConnInv, ObjectsInv, ConnTypeOK, ChanInv, ListsInv, ChanTypeOK,
     MembersAreLive
<1>4. q # NULL => q \in live /\ client[q].logged /\ client[q].fd = s
  BY <1>2, JoinerIsLogged, GetClientIsLive DEF HandleJoin, IInv
<1>5. UNCHANGED chanVars \/ (q # NULL /\ Lets)
  BY DEF HandleJoin, Refuse
<1> HIDE DEF q
<1>6. CASE UNCHANGED chanVars
  BY <1>2, <1>6, SameListsAreUnseen DEF chanVars
<1>7. CASE q # NULL /\ Lets
  <2>1. q \in Addrs /\ q # NULL /\ conn[s] = q
    BY <1>2, <1>3, <1>4, <1>7 DEF OrderlyInv, AllocatedAreConnected
  <2>2. s \in Online /\ Sessions[s].logged
    BY <1>2, <1>4, <1>7, <2>1 DEF Online, Sessions, Shown
  <2>3. /\ ~IsMember(ch, s)
        /\ \A b \in Addrs : members'[ch][b] > 0 <=> members[ch][b] > 0 \/ b = q
        /\ \A c \in Chans : c # ch => members'[c] = members[c]
    <3>1. CASE \E b \in Addrs : CreateChannel(q, b, ch, k)
      <4>1. /\ ch \notin channels
            /\ members' = [members EXCEPT ![ch] = [a \in Addrs |-> IF a = q THEN 1 ELSE 0]]
        BY <3>1 DEF CreateChannel
      <4>2. \A b \in Addrs : members[ch][b] = 0
        BY <4>1 DEF OnlyChannelsHaveMembers
      <4> QED
        BY <1>3, <4>1, <4>2 DEF IsMember
    <3>2. CASE EnterChannel(q, ch, k)
      <4>1. /\ ~IsMember(ch, s)
            /\ members' = [members EXCEPT ![ch][q] = @ + 1]
        BY <1>4, <1>7, <3>2 DEF EnterChannel, Admits
      <4> QED
        BY <1>3, <2>1, <4>1
    <3> QED
      BY <1>7, <3>1, <3>2
  <2>4. Rooms' = [Rooms EXCEPT ![ch] = @ \cup {s}] /\ s \notin Rooms[ch]
    <3>1. ASSUME NEW t \in Fds
          PROVE  IsMember(ch, t)' <=> IsMember(ch, t) \/ t = s
      BY <1>2, <1>3, <1>4, <1>7, <2>1, <2>3 DEF IsMember
    <3>2. ASSUME NEW c \in Chans, c # ch, NEW t \in Fds
          PROVE  IsMember(c, t)' <=> IsMember(c, t)
      BY <1>2, <1>3, <2>3, <3>2 DEF IsMember
    <3> QED
      BY <1>2, <2>3, <3>1, <3>2 DEF Rooms
  <2> QED
    BY <1>2, <2>2, <2>4 DEF Chat!Join
<1> QED
  BY <1>5, <1>6, <1>7

(* KICK takes one client out, on the word of another of the channel.       *)
LEMMA KickIsKick ==
  ASSUME IInv, IInv', CopiesApart, CopiesApart', OrderlyInv,
         NEW s \in Fds, NEW p \in Addrs, NEW ch \in Chans, NEW n \in Nicks,
         HandleKick(s, p, ch, n)
  PROVE  (\E t \in Fds : Chat!Kick(s, t, ch)) \/ UNCHANGED Chat!vars
<1> DEFINE q == GetClient(s)
           kickee == GetClientByNick(n)
           t == client[kickee].fd
<1>1. UseChannel(s, p, ch) /\ server' = server
  BY DEF UseChannel, ManageChannel, HandleKick, Done, tableVars
<1>2. /\ Online' = Online /\ Sessions' = Sessions
      /\ server = "up" /\ server' = "up"
      /\ \A a \in live : client'[a].fd = client[a].fd
      /\ \A c \in Chans, a \in Addrs : members[c][a] > 0 => a \in live
  BY <1>1, ChannelShowsRooms DEF Command, Crash, IInv, ChanInv, MembersAreLive
<1>3. CASE ~MayKick(s, ch, kickee)
  <2>1. members' = members
    BY <1>3 DEF HandleKick, chanVars
  <2> QED
    BY <1>2, <2>1, SameListsAreUnseen
<1>4. CASE MayKick(s, ch, kickee)
  <2>1. q # NULL /\ kickee # NULL /\ IsMember(ch, client[q].fd) /\ IsMember(ch, t)
    BY <1>4 DEF MayKick, MayManage
  <2>2. client[q].fd = s /\ kickee \in live
    BY <1>2, <2>1, GetClientIsLive, GetClientByNickIsLive DEF IInv
  <2>3. members' = [members EXCEPT ![ch] = WithoutMember(ch, t)]
    BY <1>4 DEF HandleKick
  <2> HIDE DEF q, kickee
  <2>4. t \in Fds
    BY <1>2, <2>2 DEF OrderlyInv, AllocatedAreConnected
  <2> HIDE DEF t
  <2>5. members \in [Chans -> [Addrs -> Nat]]
    BY DEF IInv, ChanInv, ListsInv, ChanTypeOK
  <2>6. Rooms' = [Rooms EXCEPT ![ch] = @ \ {t}]
    <3>1. ASSUME NEW f \in Fds
          PROVE  IsMember(ch, f)' <=> IsMember(ch, f) /\ f # t
      <4>1. \A b \in Addrs : members'[ch][b] > 0 <=> members[ch][b] > 0 /\ client[b].fd # t
        BY <2>3, <2>5 DEF WithoutMember
      <4> QED
        BY <1>2, <4>1 DEF IsMember
    <3>2. ASSUME NEW c \in Chans, c # ch, NEW f \in Fds
          PROVE  IsMember(c, f)' <=> IsMember(c, f)
      BY <1>2, <2>3, <2>5, <3>2 DEF IsMember
    <3> QED
      BY <1>2, <3>1, <3>2 DEF Rooms
  <2>7. s \in Rooms[ch] /\ t \in Rooms[ch]
    BY <1>2, <2>1, <2>2, <2>4 DEF Rooms
  <2> QED
    BY <1>2, <2>4, <2>6, <2>7 DEF Chat!Kick
<1> QED
  BY <1>3, <1>4

(* Any other channel command does not show, or ends the process.           *)
LEMMA TalkIsUnseen ==
  ASSUME IInv, IInv', CopiesApart, CopiesApart',
         NEW s \in Fds, NEW p \in Addrs, members' = members,
         \/ \E ch \in Chans : UseChannel(s, p, ch)
         \/ \E hasText \in BOOLEAN : HandlePrivmsg(s, p, hasText)
  PROVE  Chat!Stop \/ UNCHANGED Chat!vars
<1>1. CASE Command(s, p) /\ (Crash("uncaught") \/ Crash("null_deref"))
  <2>1. server = "up" /\ server' # "up"
    BY <1>1 DEF Command, Crash
  <2> QED
    BY <2>1, EndIsStop
<1>2. CASE \E ch \in Chans : UseChannel(s, p, ch)
  BY <1>1, <1>2, ChannelShowsRooms, SameListsAreUnseen
<1>3. CASE Command(s, p) /\ Done(s, p)
  <2>1. Effect(s, p, client) /\ Quiet(s, p, client)
    BY <1>3, DoneEffect DEF IInv, ConnInv
  <2> QED
    BY <2>1, EffectShowsRooms, SameListsAreUnseen
<1>4. CASE \E hasText \in BOOLEAN : HandlePrivmsg(s, p, hasText)
  BY <1>1, <1>3, <1>4 DEF HandlePrivmsg, LoggedCommand, Refuse
<1> QED
  BY <1>2, <1>4

(* Every step of the server is one of ChatService, or does not show there. *)
LEMMA StepIsChat ==
  ASSUME IInv, IInv', CopiesApart, CopiesApart', OrderlyInv, OnlyChannelsHaveMembers,
         [MailNext]_<< vars, mail >>
  PROVE  Chat!Next \/ UNCHANGED Chat!vars
<1>1. CASE Quits
  BY <1>1, QuitIsLeave DEF Quits, DeliverQuit, Chat!Next
<1>2. CASE ChannelMail
  <2>1. PICK s \in Fds, p \in Addrs, ch \in Chans :
          \/ \E n \in Nicks : DeliverKick(s, p, ch, n)
          \/ \E t \in Topics \cup {NULL} : DeliverTopic(s, p, ch, t)
          \/ DeliverToChannel(s, p, ch)
    BY <1>2 DEF ChannelMail
  <2>2. CASE \E n \in Nicks : DeliverKick(s, p, ch, n)
    BY <2>2, KickIsKick DEF DeliverKick, Chat!Next
  <2>3. CASE \/ \E t \in Topics \cup {NULL} : DeliverTopic(s, p, ch, t)
             \/ DeliverToChannel(s, p, ch)
    <3>1. members' = members
      BY <2>3, TalkKeepsMembers
    <3>2. \/ UseChannel(s, p, ch)
          \/ \E hasText \in BOOLEAN : HandlePrivmsg(s, p, hasText)
      BY <2>3 DEF DeliverTopic, DeliverToChannel, UseChannel, ManageChannel
    <3> QED
      BY <3>1, <3>2, TalkIsUnseen DEF Chat!Next
  <2> QED
    BY <2>1, <2>2, <2>3
<1>3. CASE PersonalMail
  <2>1. PICK s \in Fds, p \in Addrs :
          \/ \E n \in Nicks \cup {NULL} : DeliverToClient(s, p, n)
          \/ \E n \in Nicks, ch \in Chans : DeliverInvite(s, p, n, ch)
    BY <1>3 DEF PersonalMail
  <2>2. members' = members
    BY <2>1, TalkKeepsMembers
  <2>3. \/ \E ch \in Chans : UseChannel(s, p, ch)
        \/ \E hasText \in BOOLEAN : HandlePrivmsg(s, p, hasText)
    BY <2>1 DEF DeliverToClient, DeliverInvite, UseChannel, ManageChannel
  <2> QED
    BY <2>2, <2>3, TalkIsUnseen DEF Chat!Next
<1>4. CASE Connect
  BY <1>4, AcceptIsConnect DEF Connect, Chat!Next
<1>5. CASE Signal
  <2>1. server = "up" /\ server' # "up"
    BY <1>5 DEF Signal, SignalHandler, Hangup, Crash
  <2> QED
    BY <2>1, EndIsStop DEF Chat!Next
<1>6. ASSUME NEW s \in Fds, NEW p \in Addrs, QuietCommand(s, p)
      PROVE  Chat!Next \/ UNCHANGED Chat!vars
  <2>1. CASE Register(s, p) \/ OtherCommand(s, p)
    <3>1. ASSUME NEW objects, Registers(s, p, objects)
          PROVE  Chat!Next \/ UNCHANGED Chat!vars
      BY <3>1, RegistersIsTell DEF Chat!Next
    <3>2. ASSUME Crash("null_deref")
          PROVE  Chat!Next
      <4>1. server = "up" /\ server' # "up"
        BY <2>1, <3>2 DEF Crash, Register, OtherCommand, HandlePass, HandleNick, HandleUser,
           Command
      <4> QED
        BY <4>1, EndIsStop DEF Chat!Next
    <3> QED
      BY <2>1, <3>1, <3>2, RegistrationEffect DEF IInv, ConnInv
  <2>2. CASE HandlePrivmsg(s, p, FALSE)
    <3>1. members' = members
      BY <2>2 DEF HandlePrivmsg, Refuse, Crash, chanVars
    <3> QED
      BY <2>2, <3>1, TalkIsUnseen DEF Chat!Next
  <2>3. ASSUME NEW ch \in Chans, HandleMode(s, p, ch)
        PROVE  Chat!Next \/ UNCHANGED Chat!vars
    BY <2>3, ModeKeepsMembers, TalkIsUnseen DEF UseChannel, ManageChannel, Chat!Next
  <2>4. ASSUME NEW ch \in Chans, NEW k \in Keys \cup {NULL}, HandleJoin(s, p, ch, k)
        PROVE  Chat!Next \/ UNCHANGED Chat!vars
    BY <2>4, JoinIsJoin DEF Chat!Next
  <2> QED
    BY <1>6, <2>1, <2>2, <2>3, <2>4 DEF QuietCommand
<1>7. CASE UNCHANGED << vars, mail >>
  <2>1. UNCHANGED << server, conn, client, members >>
    BY <1>7 DEF vars, connVars, chanVars
  <2> QED
    BY <2>1 DEF Chat!vars, Online, Sessions, Shown, Rooms, IsMember
<1> QED
  BY <1>1, <1>2, <1>3, <1>4, <1>5, <1>6, <1>7 DEF MailNext, NoMail

(***************************************************************************)
(* Nothing of the heap, the dangling entries, the shared flag or the       *)
(* commands after a QUIT can be seen from outside when clients leave with  *)
(* QUIT and no copy of an operator takes the block of a Client that the    *)
(* table still lists: the server begins and goes on like ChatService.      *)
(***************************************************************************)
THEOREM ServerIsChat == MailSpec /\ []CopiesApart => Chat!Init /\ ActsAsChat
<1>1. Init => Chat!Init
  BY DEF Init, Chat!Init, Chat!Blank, Online, Sessions, Rooms, IsMember
<1>2. /\ IInv /\ IInv' /\ CopiesApart /\ CopiesApart'
      /\ OrderlyInv /\ OnlyChannelsHaveMembers
      /\ [MailNext]_<< vars, mail >>
      => [Chat!Next]_(Chat!vars)
  BY StepIsChat
<1> QED
  BY <1>1, <1>2, MailInvariance, PTL DEF MailSpec, ActsAsChat
=============================================================================
