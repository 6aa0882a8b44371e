----------------------------- MODULE StepProofs -----------------------------
(***************************************************************************)
(* What a step of the server may do.  While the copies of operators are    *)
(* apart from the table it changes the clients of its own socket only, and *)
(* makes operators of members; in any case it lets nobody into a channel   *)
(* past its modes.  At the end, what fails only when clients QUIT, the     *)
(* copies in the table included.                                           *)
(***************************************************************************)
EXTENDS TableProofs, Claims

(* What ChangedByItsSocket says of one step.                               *)
OnlyOwnClients ==
  \A a \in live \cap live' :
    client'[a] # client[a] => \E s \in Fds : Answers(s, a)

(***************************************************************************)
(* A quiet command changes the client of its socket, and what the pointer  *)
(* of the call leads to: the same one, or after a QUIT a freed object.     *)
(***************************************************************************)
LEMMA CommandChangesOwn ==
  ASSUME ConnInv, NEW s \in Fds, NEW p \in Addrs, NEW objects,
         Effect(s, p, objects), Quiet(s, p, objects)
  PROVE  OnlyOwnClients
<1> SUFFICES ASSUME NEW a \in live, client'[a] # client[a]
             PROVE  \E t \in Fds : Answers(t, a)
  BY DEF OnlyOwnClients
<1>1. ConnTypeOK /\ a \in Addrs /\ a \in Range(clients) /\ Command(s, p)
  BY DEF ConnInv, ObjectsInv, ConnTypeOK, LiveAreListed, Effect
<1>2. a # GetClient(s) => client'[a] = objects[a]
  BY <1>1, EffectObjects, QuietIsHandled
<1>3. a = p \/ a = GetClient(s)
  BY <1>1, <1>2 DEF Quiet
<1>4. CASE handling = NULL
  BY <1>1, <1>3, <1>4 DEF Command, Answers
<1>5. CASE handling # NULL
  <2>1. server = "up" /\ handling = <<s, p>>
    BY <1>1, <1>5 DEF Command
  <2>2. p \notin live
    BY <1>5, <2>1 DEF ConnInv, HandledIsFreed
  <2>3. a = GetClient(s) /\ handling[1] = s
    BY <1>3, <2>1, <2>2
  <2> QED
    BY <1>5, <2>3 DEF Answers
<1> QED
  BY <1>4, <1>5

(* Every step that leaves the copies apart changes the clients of its own  *)
(* socket only.                                                            *)
LEMMA NextChangesOwn ==
  IInv /\ CopiesApart /\ CopiesApart' /\ [Next]_vars => OnlyOwnClients
<1> SUFFICES ASSUME IInv, CopiesApart, CopiesApart', [Next]_vars PROVE OnlyOwnClients
  OBVIOUS
<1>1. ConnInv /\ ObjectsInv /\ ConnTypeOK /\ ChanTypeOK
  BY DEF IInv, ConnInv, ObjectsInv, ChanInv, ListsInv
<1>2. CASE Connect
  <2>1. PICK s \in Fds, a \in Addrs : AcceptClient(s, a)
    BY <1>2 DEF Connect
  <2>2. a \notin live
    BY <2>1 DEF AcceptClient
  <2>3. \A b \in Addrs : b # a => client'[b] = client[b]
    BY <1>1, <2>1, AcceptEffect
  <2>4. \A b \in live \cap live' : b \in Addrs /\ b # a
    BY <1>1, <2>2 DEF ConnTypeOK
  <2> QED
    BY <2>3, <2>4 DEF OnlyOwnClients
<1>3. ASSUME NEW s \in Fds, NEW p \in Addrs, HandleQuit(s, p) PROVE OnlyOwnClients
  <2>1. \A a \in live \cap live' : a \in Addrs /\ a # GetClient(s)
    BY <1>1, <1>3, QuitEffect DEF ConnTypeOK
  <2> QED
    BY <1>1, <1>3, <2>1, QuitEffect DEF OnlyOwnClients
<1>4. ASSUME UNCHANGED client PROVE OnlyOwnClients
  BY <1>4 DEF OnlyOwnClients
<1>5. CASE RunCommand
  BY <1>1, <1>4, <1>5, RunCommandEffect, CommandChangesOwn DEF Crash, connVars
<1>6. CASE Signal
  BY <1>1, <1>4, <1>6, SignalEffect
<1>7. CASE (\E s \in Fds : Disconnect(s)) \/ UNCHANGED vars
  BY <1>4, <1>7 DEF Disconnect, vars, connVars
<1> QED
  BY <1>2, <1>3, <1>5, <1>6, <1>7 DEF Next, Leave

(***************************************************************************)
(* With the copies apart, whatever the handlers share, an allocated client *)
(* changes by a command of the socket that leads to it.                    *)
(***************************************************************************)
THEOREM ClientsAreTheirOwn == Spec /\ []CopiesApart => ChangedByItsSocket
<1>1. IInv /\ CopiesApart /\ CopiesApart' /\ [Next]_vars => [OnlyOwnClients]_vars
  BY NextChangesOwn
<1> QED
  BY <1>1, Invariance, PTL DEF Spec, ChangedByItsSocket, OnlyOwnClients

-----------------------------------------------------------------------------
(* What OperatorsComeFromMembers says of one step.                         *)
OperatorsFromMembers ==
  \A ch \in Chans, s \in Fds : IsAdmin(ch, s)' /\ ~IsAdmin(ch, s) => IsMember(ch, s)'

(* A channel has the operators it had when its list and the block of its   *)
(* only one are as they were.                                              *)
LEMMA OperatorsStay ==
  ASSUME NEW ch \in Chans, copy'[ch] = copy[ch], admins'[ch] = admins[ch],
         copy[ch] # NULL => client'[copy[ch]].fd = client[copy[ch]].fd
  PROVE  \A n : IsAdmin(ch, n)' <=> IsAdmin(ch, n)
<1>1. Operators(ch)' = Operators(ch)
  BY DEF Operators
<1> QED
  BY <1>1 DEF IsAdmin

(* A step that leaves all of them alone makes no operator.                 *)
LEMMA SameOperators ==
  ASSUME UNCHANGED << admins, copy >>,
         \A ch \in Chans : copy[ch] # NULL => client'[copy[ch]].fd = client[copy[ch]].fd
  PROVE  OperatorsFromMembers
<1>1. ASSUME NEW ch \in Chans PROVE \A n : IsAdmin(ch, n)' <=> IsAdmin(ch, n)
  BY OperatorsStay
<1> QED
  BY <1>1 DEF OperatorsFromMembers

(* Most commands change no number.                                         *)
LEMMA DoneKeepsNumbers ==
  ASSUME ObjectsInv, NEW s \in Fds, NEW p \in Addrs, Command(s, p), Done(s, p)
  PROVE  \A a \in Addrs : client'[a].fd = client[a].fd
BY DoneEffect, EffectObjects DEF ObjectsInv

(* Who creates a channel is its first operator and its first member.       *)
LEMMA CreatorIsMember ==
  ASSUME IInv, NEW s \in Fds, NEW p \in Addrs, Command(s, p), GetClient(s) # NULL,
         NEW ch \in Chans, NEW k, NEW a \in Addrs, NEW garbage \in BOOLEAN,
         CreateChannel(GetClient(s), a, ch, k),
         EndCommand(s, p, [client EXCEPT ![a] = OperatorCopy(client[GetClient(s)], garbage)]),
         UNCHANGED << tableVars, live >>
  PROVE  OperatorsFromMembers
<1> DEFINE q == GetClient(s)
           objects == [client EXCEPT ![a] = OperatorCopy(client[q], garbage)]
<1>1. ObjectsInv /\ ConnTypeOK /\ ChanTypeOK /\ client \in [Addrs -> ClientRecord]
  BY DEF IInv, ConnInv, ObjectsInv, ConnTypeOK, ChanInv, ListsInv
<1>2. /\ a \notin held /\ admins' = admins /\ copy' = [copy EXCEPT ![ch] = a]
      /\ members' = [members EXCEPT ![ch] = [b \in Addrs |-> IF b = q THEN 1 ELSE 0]]
  BY DEF CreateChannel
<1>3. NewOperator(s, p, ch, a, objects)
  BY DEF NewOperator, CreateChannel
<1>4. Effect(s, p, objects)
  BY <1>1, <1>3, ChannelEffectIsEffect DEF ChannelEffect
<1>5. q \in Addrs /\ client[q].fd = s /\ OperatorCopy(client[q], garbage).fd = s
  BY <1>1, GetClientResult, OperatorCopyType
<1> HIDE DEF q
<1>6. /\ objects[a].fd = s
      /\ \A b \in Addrs : b # a => objects[b] = client[b]
  BY <1>1, <1>5
<1> HIDE DEF objects
<1>7. \A b \in Addrs : client'[b].fd = objects[b].fd
  BY <1>1, <1>4, EffectObjects
<1>8. client'[a].fd = s /\ client'[q].fd = s
  BY <1>5, <1>6, <1>7
<1>9. members'[ch][q] > 0
  BY <1>1, <1>2, <1>5 DEF ChanTypeOK
<1>10. IsMember(ch, s)'
  BY <1>5, <1>8, <1>9 DEF IsMember
<1> SUFFICES ASSUME NEW c \in Chans, NEW f \in Fds, IsAdmin(c, f)', ~IsAdmin(c, f)
             PROVE  IsMember(c, f)'
  BY DEF OperatorsFromMembers
<1>11. CASE c = ch
  <2>1. copy'[ch] = a /\ a # NULL /\ f \in Numbers
    BY <1>1, <1>2, ConstantsAssumption DEF ChanTypeOK, Numbers
  <2>2. f = s
    BY <1>8, <1>11, <2>1 DEF IsAdmin, Operators
  <2> QED
    BY <1>10, <1>11, <2>2
<1>12. CASE c # ch
  <2>1. copy'[c] = copy[c] /\ admins'[c] = admins[c]
    BY <1>1, <1>2, <1>12 DEF ChanTypeOK
  <2>2. copy[c] # NULL => copy[c] \in Addrs /\ copy[c] # a
    BY <1>1, <1>2 DEF ChanTypeOK, IInv, ChanInv, CopiesAreHeld
  <2>3. copy[c] # NULL => client'[copy[c]].fd = client[copy[c]].fd
    BY <1>6, <1>7, <2>2
  <2> QED
    BY <2>1, <2>3, OperatorsStay
<1> QED
  BY <1>11, <1>12

(* MODE +o asks for a member of the channel.                               *)
LEMMA PromotedIsMember ==
  ASSUME IInv, CopiesApart, CopiesApart', NEW s \in Fds, NEW p \in Addrs, Command(s, p),
         NEW ch \in Chans, NEW f \in Numbers, NEW on \in BOOLEAN, IsMember(ch, f),
         SetOperator(ch, f, on), EndCommand(s, p, WithoutCopy(ch, on)), UNCHANGED tableVars
  PROVE  OperatorsFromMembers
<1> DEFINE objects == WithoutCopy(ch, on)
<1>1. /\ ConnInv /\ ObjectsInv /\ ConnTypeOK /\ ListsInv /\ ChanTypeOK
      /\ client \in [Addrs -> ClientRecord]
  BY DEF IInv, ConnInv, ObjectsInv, ConnTypeOK, ChanInv, ListsInv
<1>2. /\ admins' = [admins EXCEPT ![ch] =
                      [Operators(ch) EXCEPT ![f] = IF on THEN @ + 1 ELSE @ - 1]]
      /\ copy' = [copy EXCEPT ![ch] = NULL] /\ members' = members
  BY DEF SetOperator
<1>3. ChannelEffect(s, p, ch, objects)
  <2>1. CASE on
    BY <2>1 DEF ChannelEffect, Grows, SetOperator
  <2>2. CASE ~on
    BY <2>2 DEF ChannelEffect, SetOperator, WithoutCopy, Done
  <2> QED
    BY <2>1, <2>2
<1>4. Effect(s, p, objects) /\ Quiet(s, p, objects)
  BY <1>1, <1>3, ChannelEffectIsEffect, ChannelEffectIsQuiet
<1>5. server = "up" /\ \A b \in live : client'[b].fd = client[b].fd
  BY <1>1, <1>4, QuietFrame
<1>6. IsMember(ch, f)'
  <2>1. PICK b \in Addrs : members[ch][b] > 0 /\ client[b].fd = f
    BY DEF IsMember
  <2>2. b \in live
    BY <1>5, <2>1 DEF IInv, ChanInv, MembersAreLive
  <2> QED
    BY <1>2, <1>5, <2>1, <2>2 DEF IsMember
<1>7. \A b \in Addrs : b # copy[ch] => client'[b].fd = client[b].fd
  <2>1. \A b \in Addrs : b # copy[ch] => objects[b] = client[b]
    BY DEF WithoutCopy
  <2> HIDE DEF objects
  <2>2. \A b \in Addrs : client'[b].fd = objects[b].fd
    BY <1>1, <1>4, EffectObjects
  <2> QED
    BY <2>1, <2>2
<1> SUFFICES ASSUME NEW c \in Chans, NEW g \in Fds, IsAdmin(c, g)', ~IsAdmin(c, g)
             PROVE  IsMember(c, g)'
  BY DEF OperatorsFromMembers
<1>8. CASE c = ch
  <2>1. Operators(ch) \in [Numbers -> Nat] /\ g \in Numbers
    BY <1>1, OperatorsType DEF Numbers
  <2>2. Operators(ch)' = [Operators(ch) EXCEPT ![f] = IF on THEN @ + 1 ELSE @ - 1]
    BY <1>1, <1>2 DEF Operators, ChanTypeOK
  <2>3. Operators(ch)'[g] > 0 /\ ~(Operators(ch)[g] > 0)
    BY <1>8 DEF IsAdmin
  <2>4. g = f
    BY <2>1, <2>2, <2>3
  <2> QED
    BY <1>6, <1>8, <2>4
<1>9. CASE c # ch
  <2>1. copy'[c] = copy[c] /\ admins'[c] = admins[c]
    BY <1>1, <1>2, <1>9 DEF ChanTypeOK
  <2>2. copy[c] # NULL => copy[c] \in Addrs /\ copy[c] # copy[ch]
    BY <1>1, <1>9 DEF ChanTypeOK, IInv, ChanInv, CopiesAreHeld
  <2>3. copy[c] # NULL => client'[copy[c]].fd = client[copy[c]].fd
    BY <1>7, <2>2
  <2> QED
    BY <1>9, <2>1, <2>3, OperatorsStay
<1> QED
  BY <1>8, <1>9

(* Of the channel commands JOIN and MODE make operators, and of members.   *)
LEMMA ChannelMakesOperators ==
  ASSUME IInv, CopiesApart, CopiesApart', NEW s \in Fds, NEW p \in Addrs, NEW ch \in Chans,
         UseChannel(s, p, ch)
  PROVE  OperatorsFromMembers
<1>1. /\ ObjectsInv /\ copy \in [Chans -> Addrs \cup {NULL}]
      /\ client \in [Addrs -> ClientRecord]
  BY DEF IInv, ConnInv, ObjectsInv, ConnTypeOK, ChanInv, ListsInv, ChanTypeOK
<1>2. ASSUME Command(s, p), Done(s, p), UNCHANGED << admins, copy >>
      PROVE  OperatorsFromMembers
  BY <1>1, <1>2, DoneKeepsNumbers, SameOperators
<1>3. ASSUME NEW how, Crash(how) PROVE OperatorsFromMembers
  BY <1>3, SameOperators DEF Crash, connVars, chanVars, adminVars
<1>4. ASSUME NEW k, HandleJoin(s, p, ch, k) PROVE OperatorsFromMembers
  <2>1. Command(s, p)
    BY <1>4 DEF HandleJoin, LoggedCommand
  <2>2. CASE /\ GetClient(s) # NULL
             /\ \E a \in Addrs, garbage \in BOOLEAN :
                  /\ CreateChannel(GetClient(s), a, ch, k)
                  /\ EndCommand(s, p,
                       [client EXCEPT ![a] = OperatorCopy(client[GetClient(s)], garbage)])
             /\ UNCHANGED << tableVars, live >>
    BY <2>1, <2>2, CreatorIsMember
  <2>3. CASE Done(s, p) /\ UNCHANGED << admins, copy >>
    BY <1>2, <2>1, <2>3
  <2> QED
    BY <1>4, <2>2, <2>3 DEF HandleJoin, EnterChannel, Refuse, chanVars, adminVars
<1>5. ASSUME HandleMode(s, p, ch) PROVE OperatorsFromMembers
  <2>1. Command(s, p)
    BY <1>5 DEF HandleMode, LoggedCommand
  <2>2. CASE ModeCrash(s, ch) \/ ModeRefused(s, p, ch)
    BY <1>2, <1>3, <2>1, <2>2 DEF ModeCrash, ModeRefused, Refuse, chanVars, adminVars
  <2>3. CASE \E on \in BOOLEAN : ModeFlag(s, p, ch, on)
    BY <1>2, <2>1, <2>3 DEF ModeFlag, Set, adminVars
  <2>4. CASE \E k \in Keys \cup {NULL} : ModeKey(s, p, ch, k)
    BY <1>2, <2>1, <2>4 DEF ModeKey, Set, adminVars
  <2>5. CASE \E l \in Limits \cup {BadLimit, NULL} : ModeLimit(s, p, ch, l)
    BY <1>2, <2>1, <2>5 DEF ModeLimit, Set, adminVars
  <2>6. ASSUME NEW n \in Nicks, NEW on \in BOOLEAN, ModeOperator(s, p, ch, n, on)
        PROVE  OperatorsFromMembers
    <3> DEFINE target == GetClientByNick(n)
               f == client[target].fd
    <3>1. CASE /\ target # NULL /\ OperatorChanges(ch, f, on) /\ SetOperator(ch, f, on)
               /\ EndCommand(s, p, WithoutCopy(ch, on)) /\ UNCHANGED tableVars
      <4>1. target \in Addrs
        BY <1>1, <3>1, GetClientByNickResult DEF ObjectsInv
      <4>2. f \in Numbers
        BY <1>1, <4>1 DEF ClientRecord
      <4> QED
        BY <2>1, <3>1, <4>2, PromotedIsMember DEF OperatorChanges
    <3>2. CASE Refuse(s, p)
      BY <1>2, <2>1, <3>2 DEF Refuse, chanVars, adminVars
    <3> QED
      BY <1>3, <2>6, <3>1, <3>2 DEF ModeOperator
  <2> QED
    BY <1>5, <2>2, <2>3, <2>4, <2>5, <2>6 DEF HandleMode
<1>6. ASSUME NEW t, HandleTopic(s, p, ch, t) PROVE OperatorsFromMembers
  BY <1>2, <1>6 DEF HandleTopic, LoggedCommand, chanVars, adminVars
<1>7. ASSUME NEW n, HandleKick(s, p, ch, n) \/ HandleInvite(s, p, n, ch)
      PROVE  OperatorsFromMembers
  BY <1>2, <1>7 DEF HandleKick, HandleInvite, LoggedCommand, chanVars, adminVars
<1> QED
  BY <1>4, <1>5, <1>6, <1>7 DEF UseChannel, ManageChannel

(* No other step that leaves the copies apart makes an operator.           *)
LEMMA NextMakesOperators ==
  IInv /\ CopiesApart /\ CopiesApart' /\ [Next]_vars => OperatorsFromMembers
<1> SUFFICES ASSUME IInv, CopiesApart, CopiesApart', [Next]_vars PROVE OperatorsFromMembers
  OBVIOUS
<1>1. ObjectsInv /\ ConnTypeOK /\ copy \in [Chans -> Addrs \cup {NULL}]
  BY DEF IInv, ConnInv, ObjectsInv, ChanInv, ListsInv, ChanTypeOK
<1>2. ASSUME UNCHANGED chanVars, \A a \in Addrs : client'[a].fd = client[a].fd
      PROVE  OperatorsFromMembers
  BY <1>1, <1>2, SameOperators DEF chanVars, adminVars
<1>3. ASSUME NEW s \in Fds, NEW a \in Addrs, AcceptClient(s, a) PROVE OperatorsFromMembers
  <2>1. a \notin held /\ UNCHANGED << admins, copy >>
    BY <1>3 DEF AcceptClient, chanVars, adminVars
  <2>2. \A ch \in Chans : copy[ch] # NULL => copy[ch] \in Addrs /\ copy[ch] # a
    BY <1>1, <2>1 DEF IInv, ChanInv, CopiesAreHeld
  <2>3. \A b \in Addrs : b # a => client'[b] = client[b]
    BY <1>1, <1>3, AcceptEffect
  <2> QED
    BY <2>1, <2>2, <2>3, SameOperators
<1>4. ASSUME NEW s \in Fds, NEW p \in Addrs, HandleQuit(s, p) PROVE OperatorsFromMembers
  <2>1. UNCHANGED << admins, copy >>
    BY <1>4 DEF HandleQuit, QuitClient
  <2>2. \A ch \in Chans : copy[ch] # NULL => copy[ch] \in Addrs /\ copy[ch] # GetClient(s)
    BY <1>1, <1>4, QuitEffect DEF CopiesApart
  <2>3. \A b \in Addrs : b # GetClient(s) => client'[b] = client[b]
    BY <1>1, <1>4, QuitEffect
  <2> QED
    BY <2>1, <2>2, <2>3, SameOperators
<1>5. CASE Signal
  <2>1. client' = client
    BY <1>1, <1>5, SignalEffect
  <2>2. UNCHANGED << admins, copy >>
    BY <1>5 DEF Signal, SignalHandler, Hangup, Crash, chanVars, adminVars
  <2> QED
    BY <2>1, <2>2, SameOperators
<1>6. CASE RunCommand
  <2> PICK s \in Fds, p \in Addrs :
         \/ Register(s, p)
         \/ OtherCommand(s, p)
         \/ \E ch \in Chans : UseChannel(s, p, ch)
         \/ \E hasText \in BOOLEAN : HandlePrivmsg(s, p, hasText)
    BY <1>6 DEF RunCommand
  <2>1. CASE Crash("null_deref") \/ Crash("uncaught")
    BY <1>2, <2>1 DEF Crash, connVars
  <2>2. ASSUME NEW objects, Registers(s, p, objects) PROVE OperatorsFromMembers
    BY <1>1, <1>2, <2>2, EffectObjects DEF Registers
  <2>3. CASE \E ch \in Chans : UseChannel(s, p, ch)
    BY <2>3, ChannelMakesOperators
  <2>4. CASE \E hasText \in BOOLEAN : HandlePrivmsg(s, p, hasText)
    BY <1>1, <1>2, <2>1, <2>4, DoneKeepsNumbers DEF HandlePrivmsg, LoggedCommand, Refuse
  <2> QED
    BY <1>1, <2>1, <2>2, <2>3, <2>4, RegistrationEffect
<1>7. CASE (\E s \in Fds : Disconnect(s)) \/ UNCHANGED vars
  <2>1. UNCHANGED chanVars /\ client' = client
    BY <1>7 DEF Disconnect, vars, connVars
  <2> QED
    BY <1>2, <2>1
<1> QED
  BY <1>3, <1>4, <1>5, <1>6, <1>7 DEF Next, Connect, Leave

(* With the copies apart, nobody becomes an operator of a channel without  *)
(* being in it.                                                            *)
THEOREM OperatorsWereMembers == Spec /\ []CopiesApart => OperatorsComeFromMembers
<1>1. IInv /\ CopiesApart /\ CopiesApart' /\ [Next]_vars => [OperatorsFromMembers]_vars
  BY NextMakesOperators
<1> QED
  BY <1>1, Invariance, PTL DEF Spec, OperatorsComeFromMembers, OperatorsFromMembers

-----------------------------------------------------------------------------
(* The entries of a list that has each pointer as often as `list' says.    *)
EntriesIn(list) == UNION {{<<a, i>> : i \in 1 .. list[a]} : a \in Addrs}

(* What a step may do to the client list of a channel.                     *)
Shortened(ch) == \A a \in Addrs : members'[ch][a] \in {0, members[ch][a]}

Created(ch) ==
  /\ ch \notin channels
  /\ \E q \in Addrs : members'[ch] = [a \in Addrs |-> IF a = q THEN 1 ELSE 0]

Entered(ch) == \E q \in Addrs, k \in Keys \cup {NULL} : EnterChannel(q, ch, k)

(* JOIN alone makes a list longer.                                         *)
LEMMA ChannelChangesLists ==
  ASSUME BaseInv, NEW s \in Fds, NEW p \in Addrs, NEW ch \in Chans, UseChannel(s, p, ch),
         NEW c \in Chans
  PROVE  Shortened(c) \/ Created(c) \/ Entered(c)
<1>1. ConnTypeOK /\ members \in [Chans -> [Addrs -> Nat]]
  BY DEF BaseInv, ObjectsInv, ListsInv, ChanTypeOK
<1>2. ASSUME members' = members PROVE Shortened(c)
  BY <1>2 DEF Shortened
<1>3. ASSUME NEW k \in Keys \cup {NULL}, HandleJoin(s, p, ch, k)
      PROVE  Shortened(c) \/ Created(c) \/ Entered(c)
  <2> DEFINE q == GetClient(s)
  <2>1. q # NULL => q \in Addrs
    BY <1>1, GetClientResult
  <2>2. \/ /\ q # NULL /\ ch \notin channels
           /\ members' = [members EXCEPT ![ch] = [b \in Addrs |-> IF b = q THEN 1 ELSE 0]]
        \/ q # NULL /\ EnterChannel(q, ch, k)
        \/ members' = members
    BY <1>3 DEF HandleJoin, CreateChannel, Refuse, chanVars
  <2> HIDE DEF q
  <2>3. CASE /\ q # NULL /\ ch \notin channels
             /\ members' = [members EXCEPT ![ch] = [b \in Addrs |-> IF b = q THEN 1 ELSE 0]]
    <3>1. CASE c = ch
      <4>1. members'[ch] = [b \in Addrs |-> IF b = q THEN 1 ELSE 0]
        BY <1>1, <2>3
      <4> QED
        BY <2>1, <2>3, <3>1, <4>1 DEF Created
    <3>2. CASE c # ch
      <4>1. members'[c] = members[c]
        BY <1>1, <2>3, <3>2
      <4> QED
        BY <4>1 DEF Shortened
    <3> QED
      BY <3>1, <3>2
  <2>4. CASE q # NULL /\ EnterChannel(q, ch, k)
    <3>1. CASE c = ch
      BY <2>1, <2>4, <3>1 DEF Entered
    <3>2. CASE c # ch
      <4>1. members' = [members EXCEPT ![ch][q] = @ + 1]
        BY <2>4 DEF EnterChannel
      <4>2. members'[c] = members[c]
        BY <1>1, <3>2, <4>1
      <4> QED
        BY <4>2 DEF Shortened
    <3> QED
      BY <3>1, <3>2
  <2> QED
    BY <1>2, <2>2, <2>3, <2>4
<1>4. ASSUME NEW n \in Nicks, HandleKick(s, p, ch, n) PROVE Shortened(c)
  <2>1. CASE \E f : members' = [members EXCEPT ![ch] = WithoutMember(ch, f)]
    <3>1. PICK f : members' = [members EXCEPT ![ch] = WithoutMember(ch, f)]
      BY <2>1
    <3>2. members'[c] = IF c = ch THEN WithoutMember(ch, f) ELSE members[c]
      BY <1>1, <3>1
    <3> QED
      BY <3>2 DEF Shortened, WithoutMember
  <2> QED
    BY <1>2, <1>4, <2>1 DEF HandleKick, chanVars
<1>5. ASSUME NEW t, HandleTopic(s, p, ch, t) PROVE Shortened(c)
  BY <1>2, <1>5 DEF HandleTopic, chanVars
<1>6. ASSUME NEW n \in Nicks, HandleInvite(s, p, n, ch) PROVE Shortened(c)
  BY <1>2, <1>6 DEF HandleInvite, chanVars
<1>7. ASSUME HandleMode(s, p, ch) PROVE Shortened(c)
  <2>1. members' = members
    BY <1>7 DEF HandleMode, ModeCrash, ModeRefused, ModeFlag, ModeKey, ModeLimit,
       ModeOperator, SetOperator, Set, Refuse, Crash, chanVars
  <2> QED
    BY <1>2, <2>1
<1> QED
  BY <1>3, <1>4, <1>5, <1>6, <1>7 DEF UseChannel, ManageChannel

(* Of every step.                                                          *)
LEMMA NextChangesLists ==
  ASSUME BaseInv, [Next]_vars, NEW c \in Chans
  PROVE  Shortened(c) \/ Created(c) \/ Entered(c)
<1>1. ASSUME members' = members PROVE Shortened(c)
  BY <1>1 DEF Shortened
<1>2. CASE Connect \/ (\E s \in Fds : Disconnect(s)) \/ Signal \/ UNCHANGED vars
  BY <1>1, <1>2 DEF Connect, AcceptClient, Disconnect, Signal, SignalHandler, Hangup, Crash,
     vars, chanVars
<1>3. ASSUME NEW s \in Fds, NEW p \in Addrs, HandleQuit(s, p) PROVE Shortened(c)
  <2>1. members' = [ch \in Chans |-> WithoutMember(ch, client[GetClient(s)].fd)]
    BY <1>3 DEF HandleQuit, QuitClient
  <2> QED
    BY <2>1 DEF Shortened, WithoutMember
<1>4. CASE RunCommand
  <2> PICK s \in Fds, p \in Addrs :
         \/ Register(s, p)
         \/ OtherCommand(s, p)
         \/ \E ch \in Chans : UseChannel(s, p, ch)
         \/ \E hasText \in BOOLEAN : HandlePrivmsg(s, p, hasText)
    BY <1>4 DEF RunCommand
  <2>1. CASE Register(s, p) \/ OtherCommand(s, p)
    BY <1>1, <2>1, RegistrationEffect DEF Registers, Crash, chanVars, BaseInv
  <2>2. CASE \E hasText \in BOOLEAN : HandlePrivmsg(s, p, hasText)
    BY <1>1, <2>2 DEF HandlePrivmsg, Refuse, Crash, chanVars
  <2> QED
    BY <2>1, <2>2, ChannelChangesLists
<1> QED
  BY <1>2, <1>3, <1>4 DEF Next, Leave

(* Who enters takes one place.                                             *)
LEMMA EntryTakesOnePlace ==
  ASSUME NEW list \in [Addrs -> Nat], NEW q \in Addrs, IsFiniteSet(EntriesIn(list))
  PROVE  LET more == [list EXCEPT ![q] = @ + 1] IN
         /\ IsFiniteSet(EntriesIn(more))
         /\ Cardinality(EntriesIn(list)) \in Nat
         /\ Cardinality(EntriesIn(more)) = Cardinality(EntriesIn(list)) + 1
<1> DEFINE more == [list EXCEPT ![q] = @ + 1]
           last == <<q, list[q] + 1>>
<1>1. ASSUME NEW a \in Addrs
      PROVE  \A i : i \in 1 .. more[a] <=> i \in 1 .. list[a] \/ (a = q /\ i = list[q] + 1)
  <2>1. list[a] \in Nat /\ more[a] = IF a = q THEN list[a] + 1 ELSE list[a]
    OBVIOUS
  <2> HIDE DEF more
  <2> QED
    BY <2>1
<1>2. last \notin EntriesIn(list)
  <2> SUFFICES ASSUME NEW a \in Addrs, NEW i \in 1 .. list[a], last = <<a, i>>
               PROVE  FALSE
    BY DEF EntriesIn
  <2>1. a = q /\ i = list[q] + 1 /\ list[q] \in Nat
    OBVIOUS
  <2> QED
    BY <2>1
<1>3. EntriesIn(more) = EntriesIn(list) \cup {last}
  <2> HIDE DEF more
  <2>1. ASSUME NEW e, e \in EntriesIn(more) PROVE e \in EntriesIn(list) \cup {last}
    <3>1. PICK a \in Addrs : \E i \in 1 .. more[a] : e = <<a, i>>
      BY <2>1 DEF EntriesIn
    <3>2. PICK i \in 1 .. more[a] : e = <<a, i>>
      BY <3>1
    <3>3. i \in 1 .. list[a] \/ (a = q /\ i = list[q] + 1)
      BY <1>1
    <3> QED
      BY <3>2, <3>3 DEF EntriesIn
  <2>2. ASSUME NEW e, e \in EntriesIn(list) PROVE e \in EntriesIn(more)
    <3>1. PICK a \in Addrs : \E i \in 1 .. list[a] : e = <<a, i>>
      BY <2>2 DEF EntriesIn
    <3>2. PICK i \in 1 .. list[a] : e = <<a, i>>
      BY <3>1
    <3>3. i \in 1 .. more[a]
      BY <1>1
    <3> QED
      BY <3>2, <3>3 DEF EntriesIn
  <2>3. last \in EntriesIn(more)
    <3>1. list[q] + 1 \in 1 .. more[q]
      BY <1>1
    <3> QED
      BY <3>1 DEF EntriesIn
  <2> QED
    BY <2>1, <2>2, <2>3
<1> HIDE DEF more, last
<1>4. /\ IsFiniteSet(EntriesIn(more))
      /\ Cardinality(EntriesIn(more)) = Cardinality(EntriesIn(list)) + 1
  BY <1>2, <1>3, FS_AddElement
<1>5. Cardinality(EntriesIn(list)) \in Nat
  BY FS_CardinalityType
<1> QED
  BY <1>4, <1>5 DEF more

(* The client lists are finite: they grow by one entry at a time.          *)
ListsAreFinite == \A ch \in Chans : IsFiniteSet(Entries(ch))

LEMMA NextKeepsListsFinite ==
  BaseInv /\ BaseInv' /\ ListsAreFinite /\ [Next]_vars => ListsAreFinite'
<1> SUFFICES ASSUME BaseInv, BaseInv', ListsAreFinite, [Next]_vars, NEW ch \in Chans
             PROVE  IsFiniteSet(Entries(ch)')
  BY DEF ListsAreFinite
<1>1. /\ members \in [Chans -> [Addrs -> Nat]] /\ members' \in [Chans -> [Addrs -> Nat]]
      /\ IsFiniteSet(EntriesIn(members[ch]))
      /\ Entries(ch)' = EntriesIn(members'[ch])
  BY DEF BaseInv, ListsInv, ChanTypeOK, ListsAreFinite, Entries, EntriesIn
<1>2. CASE Shortened(ch)
  <2>1. \A a \in Addrs : 1 .. members'[ch][a] \subseteq 1 .. members[ch][a]
    BY <1>1, <1>2 DEF Shortened
  <2>2. EntriesIn(members'[ch]) \subseteq EntriesIn(members[ch])
    BY <2>1 DEF EntriesIn
  <2> QED
    BY <1>1, <2>2, FS_Subset
<1>3. CASE Created(ch)
  <2>1. PICK q \in Addrs : members'[ch] = [a \in Addrs |-> IF a = q THEN 1 ELSE 0]
    BY <1>3 DEF Created
  <2>2. \A a \in Addrs : \A i \in 1 .. members'[ch][a] : a = q /\ i = 1
    <3> TAKE a \in Addrs
    <3>1. members'[ch][a] = IF a = q THEN 1 ELSE 0
      BY <2>1
    <3> QED
      BY <3>1
  <2>3. EntriesIn(members'[ch]) \subseteq {<<q, 1>>}
    BY <2>2 DEF EntriesIn
  <2>4. IsFiniteSet({<<q, 1>>})
    BY FS_Singleton
  <2> QED
    BY <1>1, <2>3, <2>4, FS_Subset
<1>4. CASE Entered(ch)
  <2>1. PICK q \in Addrs : members' = [members EXCEPT ![ch][q] = @ + 1]
    BY <1>4 DEF Entered, EnterChannel
  <2>2. members[ch] \in [Addrs -> Nat] /\ members'[ch] = [members[ch] EXCEPT ![q] = @ + 1]
    BY <1>1, <2>1
  <2>3. IsFiniteSet(EntriesIn([members[ch] EXCEPT ![q] = @ + 1]))
    BY <1>1, <2>2, EntryTakesOnePlace
  <2> QED
    BY <1>1, <2>2, <2>3
<1> QED
  BY <1>2, <1>3, <1>4, NextChangesLists

(* What EntryRespectsModes says of one step.                               *)
EntersByModes ==
  \A ch \in channels, a \in Addrs :
    members'[ch][a] > members[ch][a] =>
      /\ settings[ch].inviteOnly => a \in invited[ch]
      /\ settings[ch].limited => Occupancy(ch)' <= settings[ch].limit

LEMMA NextRespectsModes == BaseInv /\ ListsAreFinite /\ [Next]_vars => EntersByModes
<1> SUFFICES ASSUME BaseInv, ListsAreFinite, [Next]_vars, NEW ch \in channels, NEW a \in Addrs,
                    members'[ch][a] > members[ch][a]
             PROVE  /\ settings[ch].inviteOnly => a \in invited[ch]
                    /\ settings[ch].limited => Occupancy(ch)' <= settings[ch].limit
  BY DEF EntersByModes
<1>1. ch \in Chans /\ members \in [Chans -> [Addrs -> Nat]] /\ members[ch][a] \in Nat
  BY DEF BaseInv, ListsInv, ChanTypeOK
<1>2. ~Shortened(ch) /\ ~Created(ch)
  BY <1>1 DEF Shortened, Created
<1>3. PICK q \in Addrs, k \in Keys \cup {NULL} : EnterChannel(q, ch, k)
  BY <1>1, <1>2, NextChangesLists DEF Entered
<1>4. /\ members' = [members EXCEPT ![ch][q] = @ + 1]
      /\ settings[ch].inviteOnly => q \in invited[ch]
      /\ settings[ch].limited => Occupancy(ch) < settings[ch].limit
  BY <1>3 DEF EnterChannel, Admits
<1>5. a = q
  BY <1>1, <1>4
<1>6. members'[ch] = [members[ch] EXCEPT ![q] = @ + 1]
  BY <1>1, <1>4
<1>7. /\ Occupancy(ch) = Cardinality(EntriesIn(members[ch]))
      /\ Occupancy(ch)' = Cardinality(EntriesIn(members'[ch]))
      /\ IsFiniteSet(EntriesIn(members[ch]))
  BY <1>1 DEF Occupancy, Entries, EntriesIn, ListsAreFinite
<1>8. Occupancy(ch) \in Nat /\ Occupancy(ch)' = Occupancy(ch) + 1
  BY <1>1, <1>6, <1>7, EntryTakesOnePlace
<1>9. settings[ch].limited => settings[ch].limit \in Nat
  BY <1>1 DEF BaseInv, ListsInv, ChanTypeOK, ModesHaveArguments, ChannelSettings
<1> QED
  BY <1>4, <1>5, <1>8, <1>9

(***************************************************************************)
(* Whatever the allocator does, nobody enters a channel past its           *)
(* invitations or its limit: its list is finite, so that each entry counts,*)
(* and a mode that is on has its argument.                                 *)
(***************************************************************************)
THEOREM EntriesFollowModes == Spec => EntryRespectsModes
<1>1. Init => ListsAreFinite
  <2> SUFFICES ASSUME Init, NEW ch \in Chans PROVE Entries(ch) = {}
    BY FS_EmptySet DEF ListsAreFinite
  <2>1. \A a \in Addrs : 1 .. members[ch][a] = {}
    BY DEF Init
  <2> QED
    BY <2>1 DEF Entries
<1>2. Spec => []ListsAreFinite
  BY <1>1, NextKeepsListsFinite, BaseInvariance, PTL DEF Spec
<1>3. BaseInv /\ ListsAreFinite /\ [Next]_vars => [EntersByModes]_vars
  BY NextRespectsModes
<1> QED
  BY <1>2, <1>3, BaseInvariance, PTL DEF Spec, EntryRespectsModes, EntersByModes

-----------------------------------------------------------------------------
(***************************************************************************)
(* A server that no client sends QUIT frees no Client before it stops: the *)
(* table only grows, two entries at a time, and every pointer in it, in a  *)
(* channel or in an invitation leads to the Client it was made for.  First *)
(* the blocks: an operator's never was a Client's.                         *)
(***************************************************************************)
BlocksInv ==
  server = "up" =>
    handling = NULL /\ Range(clients) \subseteq live /\ live \cap held = {}

(* What a channel command does with the blocks.                            *)
LEMMA BlockChanges ==
  ASSUME NEW s \in Fds, NEW p \in Addrs, NEW ch \in Chans, UseChannel(s, p, ch)
  PROVE  \/ UNCHANGED << live, held, copy >>
         \/ \E a \in Addrs :
              /\ a \notin live \cup held /\ live' = live /\ held' = held \cup {a}
              /\ copy' = [copy EXCEPT ![ch] = a]
         \/ /\ copy' = [copy EXCEPT ![ch] = NULL]
            /\ Deleted(copy[ch]) \/ UNCHANGED << live, held >>
<1>1. ASSUME NEW how, Crash(how) PROVE UNCHANGED << live, held, copy >>
  BY <1>1 DEF Crash, connVars, chanVars, adminVars
<1>2. ASSUME Refuse(s, p) PROVE UNCHANGED << live, held, copy >>
  BY <1>2 DEF Refuse, Done, chanVars, adminVars
<1>3. ASSUME NEW k, HandleJoin(s, p, ch, k)
      PROVE  \/ UNCHANGED << live, held, copy >>
             \/ \E a \in Addrs :
                  /\ a \notin live \cup held /\ live' = live /\ held' = held \cup {a}
                  /\ copy' = [copy EXCEPT ![ch] = a]
  BY <1>2, <1>3 DEF HandleJoin, CreateChannel, EnterChannel, Done, adminVars
<1>4. ASSUME NEW t, HandleTopic(s, p, ch, t) PROVE UNCHANGED << live, held, copy >>
  BY <1>4 DEF HandleTopic, Done, chanVars, adminVars
<1>5. ASSUME NEW n, HandleKick(s, p, ch, n) \/ HandleInvite(s, p, n, ch)
      PROVE  UNCHANGED << live, held, copy >>
  BY <1>5 DEF HandleKick, HandleInvite, Done, chanVars, adminVars
<1>6. ASSUME NEW n \in Nicks, NEW on \in BOOLEAN, ModeOperator(s, p, ch, n, on)
      PROVE  \/ UNCHANGED << live, held, copy >>
             \/ /\ copy' = [copy EXCEPT ![ch] = NULL]
                /\ Deleted(copy[ch]) \/ UNCHANGED << live, held >>
  BY <1>1, <1>2, <1>6 DEF ModeOperator, SetOperator
<1>7. ASSUME HandleMode(s, p, ch), ~\E n \in Nicks, on \in BOOLEAN : ModeOperator(s, p, ch, n, on)
      PROVE  UNCHANGED << live, held, copy >>
  BY <1>1, <1>2, <1>7 DEF HandleMode, ModeCrash, ModeRefused, ModeFlag, ModeKey, ModeLimit,
     Set, Done, adminVars
<1> QED
  BY <1>3, <1>4, <1>5, <1>6, <1>7 DEF UseChannel, ManageChannel

(* A command that deletes an operator deletes no Client.                   *)
LEMMA CommandKeepsBlocks ==
  ASSUME IInv, CopiesApart, BlocksInv, RunCommand
  PROVE  CopiesApart' /\ BlocksInv'
<1>1. /\ ConnInv /\ ObjectsInv /\ CopiesAreHeld /\ ChanTypeOK
      /\ copy \in [Chans -> Addrs \cup {NULL}]
  BY DEF IInv, ConnInv, ChanInv, ListsInv, ChanTypeOK
<1>2. /\ server = "up" /\ clients' = clients
      /\ handling = NULL /\ Range(clients) \subseteq live /\ live \cap held = {}
  BY <1>1, CommandFrame DEF BlocksInv
<1>3. ASSUME UNCHANGED << live, held, copy >>
      PROVE  CopiesApart' /\ live' = live /\ live' \cap held' = {}
  BY <1>2, <1>3 DEF CopiesApart
<1>4. ASSUME NEW s \in Fds, NEW p \in Addrs, NEW ch \in Chans, UseChannel(s, p, ch)
      PROVE  CopiesApart' /\ live' = live /\ live' \cap held' = {}
  <2>1. ASSUME NEW a \in Addrs, a \notin live \cup held, live' = live,
               held' = held \cup {a}, copy' = [copy EXCEPT ![ch] = a]
        PROVE  CopiesApart' /\ live' = live /\ live' \cap held' = {}
    <3>1. \A c \in Chans : copy'[c] = a \/ copy'[c] = copy[c]
      BY <1>1, <2>1
    <3> QED
      BY <1>2, <2>1, <3>1 DEF CopiesApart
  <2>2. ASSUME copy' = [copy EXCEPT ![ch] = NULL],
               Deleted(copy[ch]) \/ UNCHANGED << live, held >>
        PROVE  CopiesApart' /\ live' = live /\ live' \cap held' = {}
    <3>1. \A c \in Chans : copy'[c] = NULL \/ copy'[c] = copy[c]
      BY <1>1, <2>2
    <3>2. copy[ch] = NULL \/ copy[ch] \in held
      BY <1>1 DEF CopiesAreHeld
    <3>3. copy[ch] \notin live
      BY <1>1, <1>2, <3>2, ConstantsAssumption DEF ObjectsInv, ConnTypeOK
    <3>4. live' = live /\ held' \subseteq held
      BY <2>2, <3>3 DEF Deleted
    <3> QED
      BY <1>2, <3>1, <3>4 DEF CopiesApart
  <2> QED
    BY <1>3, <1>4, <2>1, <2>2, BlockChanges
<1>5. CopiesApart' /\ live' = live /\ live' \cap held' = {}
  <2> PICK s \in Fds, p \in Addrs :
         \/ Register(s, p)
         \/ OtherCommand(s, p)
         \/ \E ch \in Chans : UseChannel(s, p, ch)
         \/ \E hasText \in BOOLEAN : HandlePrivmsg(s, p, hasText)
    BY DEF RunCommand
  <2>1. CASE Register(s, p) \/ OtherCommand(s, p)
    BY <1>1, <1>3, <2>1, RegistrationEffect
       DEF Registers, Crash, connVars, chanVars, adminVars, Quiet
  <2>2. CASE \E hasText \in BOOLEAN : HandlePrivmsg(s, p, hasText)
    BY <1>3, <2>2 DEF HandlePrivmsg, Refuse, Done, Crash, connVars, chanVars, adminVars
  <2> QED
    BY <1>4, <2>1, <2>2
<1>6. handling' = NULL
  BY <1>1, <1>2, <1>5, RunCommandEffect, QuietIsHandled DEF Crash
<1> QED
  BY <1>2, <1>5, <1>6 DEF BlocksInv

(* Nor does any other step, as long as no client sends QUIT.               *)
LEMMA NextKeepsBlocks ==
  IInv /\ CopiesApart /\ BlocksInv /\ [LossyStep]_vars => CopiesApart' /\ BlocksInv'
<1> SUFFICES ASSUME IInv, CopiesApart, BlocksInv, [LossyStep]_vars
             PROVE  CopiesApart' /\ BlocksInv'
  OBVIOUS
<1>1. CASE Connect
  <2>1. PICK s \in Fds, a \in Addrs : AcceptClient(s, a)
    BY <1>1 DEF Connect
  <2>2. /\ server = "up" /\ handling' = handling /\ a \notin held
        /\ live' = live \cup {a} /\ held' = held /\ copy' = copy
    BY <2>1 DEF AcceptClient, chanVars, adminVars
  <2>3. Range(clients') = Range(clients) \cup {a}
    BY <2>1, AcceptEffect DEF IInv, ConnInv, ObjectsInv
  <2> QED
    BY <2>2, <2>3 DEF CopiesApart, BlocksInv, IInv, ChanInv, CopiesAreHeld
<1>2. CASE (\E s \in Fds : Disconnect(s)) \/ UNCHANGED vars
  BY <1>2 DEF Disconnect, vars, connVars, chanVars, adminVars, CopiesApart, BlocksInv
<1>3. CASE RunCommand
  BY <1>3, CommandKeepsBlocks
<1>4. CASE Signal
  BY <1>4 DEF Signal, SignalHandler, Hangup, Crash, connVars, chanVars, adminVars,
     CopiesApart, BlocksInv
<1> QED
  BY <1>1, <1>2, <1>3, <1>4 DEF LossyStep

LEMMA LossySteps == [LossyStep]_vars => [Next]_vars
BY DEF LossyStep, Next, Leave

LEMMA BlocksInvariance == Lossy => [](IInv /\ CopiesApart /\ BlocksInv)
<1>1. Init => IInv /\ CopiesApart /\ BlocksInv
  BY InitIInv DEF Init, CopiesApart, BlocksInv, Range
<1>2. IInv /\ CopiesApart /\ BlocksInv /\ [LossyStep]_vars
        => IInv' /\ CopiesApart' /\ BlocksInv'
  BY NextKeepsIInv, NextKeepsBlocks, LossySteps
<1> QED
  BY <1>1, <1>2, PTL DEF Lossy

(***************************************************************************)
(* It is QUIT that gives an operator the block of a Client: as long as no  *)
(* client sends it, the copies are apart from the table, and all that is   *)
(* proved from that is true of the server without any condition.           *)
(***************************************************************************)
THEOREM CopiesApartBeforeQuit == Lossy => []CopiesApart
BY BlocksInvariance, PTL

-----------------------------------------------------------------------------
(* No command takes a login or a nickname back.                            *)
LEMMA CommandTakesNothing ==
  ASSUME ObjectsInv, RunCommand
  PROVE  \A a \in live : /\ client[a].logged => client'[a].logged
                         /\ client[a].nick # NULL => client'[a].nick # NULL
<1>1. ConnTypeOK /\ \A a \in live : a \in Addrs /\ a # NULL
  BY ConstantsAssumption DEF ObjectsInv, ConnTypeOK
<1>2. ASSUME NEW s \in Fds, NEW p \in Addrs, NEW objects, Effect(s, p, objects),
             NEW a \in live
      PROVE  /\ client[a].logged => client'[a].logged
             /\ client[a].nick # NULL => client'[a].nick # NULL
  <2>1. /\ objects[a].logged = client[a].logged
        /\ client[a].nick # NULL => objects[a].nick # NULL
    BY <1>2 DEF Effect, Keeps
  <2> QED
    BY <1>1, <1>2, <2>1, EffectObjects
<1>3. ASSUME NEW how, Crash(how) PROVE client' = client
  BY <1>3 DEF Crash, connVars
<1> QED
  BY <1>2, <1>3, RunCommandEffect

(* Who is in a channel after a command was in it, or joins it by JOIN.     *)
LEMMA MembersComeByJoin ==
  ASSUME ListsInv, NEW s \in Fds, NEW p \in Addrs, NEW ch \in Chans, UseChannel(s, p, ch)
  PROVE  \A c \in Chans, a \in Addrs :
           members'[c][a] > 0 =>
             \/ members[c][a] > 0
             \/ a = GetClient(s) /\ a # NULL /\ LoggedCommand(s, p)
<1> DEFINE q == GetClient(s)
<1>1. members \in [Chans -> [Addrs -> Nat]]
  BY DEF ListsInv, ChanTypeOK
<1>2. LoggedCommand(s, p)
  BY DEF UseChannel, ManageChannel, HandleJoin, HandleTopic, HandleKick, HandleInvite, HandleMode
<1>3. \/ members' = members
      \/ /\ q # NULL
         /\ members' = [members EXCEPT ![ch] = [b \in Addrs |-> IF b = q THEN 1 ELSE 0]]
      \/ q # NULL /\ members' = [members EXCEPT ![ch][q] = @ + 1]
      \/ \E f : members' = [members EXCEPT ![ch] = WithoutMember(ch, f)]
  BY ListChanges
<1> SUFFICES ASSUME NEW c \in Chans, NEW a \in Addrs, members'[c][a] > 0
             PROVE  members[c][a] > 0 \/ (a = q /\ a # NULL)
  BY <1>2
<1> HIDE DEF q
<1> QED
  BY <1>1, <1>3 DEF WithoutMember

(* Who is invited after a command was invited, or is found by a nickname.  *)
LEMMA InvitedByNick ==
  ASSUME ListsInv, NEW s \in Fds, NEW p \in Addrs, NEW ch \in Chans, UseChannel(s, p, ch)
  PROVE  \A c \in Chans : \A a \in invited'[c] :
           a \in invited[c] \/ \E n \in Nicks : a = GetClientByNick(n) /\ a # NULL
<1>1. invited \in [Chans -> SUBSET Addrs]
  BY DEF ListsInv, ChanTypeOK
<1>2. ASSUME NEW k \in Keys \cup {NULL}, HandleJoin(s, p, ch, k)
      PROVE  \A c \in Chans : invited'[c] \subseteq invited[c]
  <2>1. invited' = invited \/ invited' = [invited EXCEPT ![ch] = {}]
    BY <1>2 DEF HandleJoin, CreateChannel, EnterChannel, Refuse, chanVars
  <2> QED
    BY <1>1, <2>1
<1>3. ASSUME NEW n \in Nicks, HandleInvite(s, p, n, ch)
      PROVE  \A c \in Chans : \A a \in invited'[c] :
               a \in invited[c] \/ (a = GetClientByNick(n) /\ a # NULL)
  <2>1. PICK q : q = GetClientByNick(n)
    OBVIOUS
  <2>2. \/ q # NULL /\ invited' = [invited EXCEPT ![ch] = invited[ch] \cup {q}]
        \/ invited' = invited
    BY <1>3, <2>1 DEF HandleInvite, MayInvite, chanVars
  <2> QED
    BY <1>1, <2>1, <2>2
<1>4. ASSUME \/ \E n \in Nicks : HandleKick(s, p, ch, n)
             \/ \E t \in Topics \cup {NULL} : HandleTopic(s, p, ch, t)
      PROVE  invited' = invited
  BY <1>4 DEF HandleKick, HandleTopic, chanVars
<1>5. ASSUME HandleMode(s, p, ch)
      PROVE  invited' = invited
  BY <1>5 DEF HandleMode, ModeCrash, ModeRefused, ModeFlag, ModeKey, ModeLimit,
     ModeOperator, SetOperator, Set, Refuse, Crash, chanVars
<1> QED
  BY <1>2, <1>3, <1>4, <1>5 DEF UseChannel, ManageChannel

-----------------------------------------------------------------------------
(* Two entries are made with each Client; who is invited is one.           *)
NothingFreed ==
  /\ Len(clients) = 2 * Cardinality(live)
  /\ \A ch \in Chans : invited[ch] \subseteq live

(* Who is in a channel, or an operator, is who its socket leads to.        *)
MembersAreFound ==
  \A ch \in Chans, a \in Addrs :
    members[ch][a] > 0 =>
      client[a].logged /\ \E f \in Fds : client[a].fd = f /\ GetClient(f) = a

AdminsAreFound ==
  \A ch \in Chans, f \in Fds :
    IsAdmin(ch, f) => GetClient(f) # NULL /\ client[GetClient(f)].logged

LossyInv == server = "up" => NothingFreed /\ MembersAreFound /\ AdminsAreFound

(* What holds of the table and the blocks before and after a step.         *)
Apart == IInv /\ CopiesApart /\ BlocksInv

(* The operators of a step are found when those before it were, and the    *)
(* members after it are: it makes operators of members only.               *)
LEMMA OperatorsAreFound ==
  ASSUME ConnInv, server = "up", AdminsAreFound, MembersAreFound', OperatorsFromMembers,
         \A f \in Fds : GetClient(f) # NULL => GetClient(f)' = GetClient(f),
         \A a \in live : client[a].logged => client'[a].logged
  PROVE  AdminsAreFound'
<1> SUFFICES ASSUME NEW ch \in Chans, NEW f \in Fds, IsAdmin(ch, f)'
             PROVE  GetClient(f)' # NULL /\ client'[GetClient(f)'].logged
  BY DEF AdminsAreFound
<1>1. CASE IsAdmin(ch, f)
  <2>1. GetClient(f) # NULL /\ client[GetClient(f)].logged
    BY <1>1 DEF AdminsAreFound
  <2>2. GetClient(f) \in live
    BY <2>1, GetClientIsLive
  <2> QED
    BY <2>1, <2>2
<1>2. CASE ~IsAdmin(ch, f)
  <2>1. PICK a \in Addrs : members'[ch][a] > 0 /\ client'[a].fd = f
    BY <1>2 DEF OperatorsFromMembers, IsMember
  <2>2. client'[a].logged /\ GetClient(f)' = a
    BY <2>1 DEF MembersAreFound
  <2>3. a # NULL
    BY ConstantsAssumption
  <2> QED
    BY <2>2, <2>3
<1> QED
  BY <1>1, <1>2

(* accept allocates a block no pointer of the table leads to.              *)
LEMMA AcceptKeepsLossy ==
  ASSUME Apart, Apart', LossyInv, NEW s \in Fds, NEW a \in Addrs, AcceptClient(s, a)
  PROVE  LossyInv'
<1>1. /\ server = "up" /\ a \notin live /\ live' = live \cup {a}
      /\ clients' = Append(Append(clients, a), a)
      /\ UNCHANGED << members, invited >>
  BY DEF AcceptClient, chanVars
<1>2. /\ ConnInv /\ ChanInv /\ ObjectsInv /\ ConnTypeOK' /\ clients \in Seq(Addrs)
      /\ live \subseteq Addrs /\ Range(clients) \subseteq live
      /\ NothingFreed /\ MembersAreFound /\ AdminsAreFound
  BY <1>1 DEF Apart, IInv, ConnInv, ObjectsInv, ConnTypeOK, BlocksInv, LossyInv
<1>3. Cardinality(live) \in Nat /\ Cardinality(live') = Cardinality(live) + 1
  BY <1>1, <1>2, LiveIsFinite, FS_AddElement
<1>4. Len(clients) \in Nat /\ Len(clients') = Len(clients) + 2
  BY <1>1, <1>2
<1>5. NothingFreed'
  BY <1>1, <1>2, <1>3, <1>4 DEF NothingFreed
<1>6. \A f \in Fds : GetClient(f) # NULL => GetClient(f)' = GetClient(f)
  <2>1. a \notin Range(clients)
    BY <1>1, <1>2
  <2> QED
    BY <1>2, <2>1, AcceptKeepsLookup
<1>7. \A b \in live : b \in Addrs /\ client'[b] = client[b]
  BY <1>1, <1>2, AcceptEffect DEF ObjectsInv
<1>8. MembersAreFound'
  <2> SUFFICES ASSUME NEW ch \in Chans, NEW b \in Addrs, members'[ch][b] > 0
               PROVE  /\ client'[b].logged
                      /\ \E f \in Fds : client'[b].fd = f /\ GetClient(f)' = b
    BY DEF MembersAreFound
  <2>1. b \in live /\ members[ch][b] > 0
    BY <1>1, <1>2 DEF ChanInv, MembersAreLive
  <2>2. PICK f \in Fds : client[b].logged /\ client[b].fd = f /\ GetClient(f) = b
    BY <1>2, <2>1 DEF MembersAreFound
  <2>3. b # NULL
    BY ConstantsAssumption
  <2>4. GetClient(f)' = b
    BY <1>6, <2>2, <2>3
  <2> QED
    BY <1>7, <2>1, <2>2, <2>4
<1>9. OperatorsFromMembers
  BY NextMakesOperators DEF Apart, Next, Connect
<1>10. AdminsAreFound'
  BY <1>1, <1>2, <1>6, <1>7, <1>8, <1>9, OperatorsAreFound
<1> QED
  BY <1>5, <1>8, <1>10 DEF LossyInv

(* The commands find who was found, and let in who is found.               *)
LEMMA RunCommandKeepsLossy ==
  ASSUME Apart, Apart', LossyInv, RunCommand
  PROVE  LossyInv'
<1>1. CASE server' # "up"
  BY <1>1 DEF LossyInv
<1>2. CASE server' = "up"
  <2>1. /\ server = "up" /\ UNCHANGED << live, clients >>
        /\ ConnInv /\ ObjectsInv /\ ChanInv /\ ListsInv /\ handling = NULL
        /\ live \subseteq Addrs
        /\ NothingFreed /\ MembersAreFound /\ AdminsAreFound
        /\ \A a \in Range(clients) : client'[a].fd = client[a].fd
        /\ \A f : GetClient(f)' = GetClient(f)
    BY CommandFrame, CommandKeepsLookups
       DEF Apart, IInv, ConnInv, ObjectsInv, ConnTypeOK, ChanInv, ListsInv, BlocksInv, LossyInv
  <2>2. \A a \in live : client[a].logged => client'[a].logged
    BY <2>1, CommandTakesNothing
  <2> PICK s \in Fds, p \in Addrs :
         \/ Register(s, p)
         \/ OtherCommand(s, p)
         \/ \E ch \in Chans : UseChannel(s, p, ch)
         \/ \E hasText \in BOOLEAN : HandlePrivmsg(s, p, hasText)
    BY DEF RunCommand
  <2>3. UNCHANGED chanVars \/ \E ch \in Chans : UseChannel(s, p, ch)
    BY <2>1, RegistrationEffect DEF Registers, HandlePrivmsg, Refuse, Crash
  <2>4. \A c \in Chans, a \in Addrs :
          members'[c][a] > 0 =>
            \/ members[c][a] > 0
            \/ a = GetClient(s) /\ a # NULL /\ LoggedCommand(s, p)
    BY <2>1, <2>3, MembersComeByJoin DEF chanVars
  <2>5. \A c \in Chans : \A a \in invited'[c] :
          a \in invited[c] \/ \E n \in Nicks : a = GetClientByNick(n) /\ a # NULL
    BY <2>1, <2>3, InvitedByNick DEF chanVars
  <2>6. NothingFreed'
    <3>1. \A c \in Chans : invited'[c] \subseteq live
      BY <2>1, <2>5, GetClientByNickIsLive DEF NothingFreed
    <3> QED
      BY <2>1, <3>1 DEF NothingFreed
  <2>7. MembersAreFound'
    <3> SUFFICES ASSUME NEW ch \in Chans, NEW a \in Addrs, members'[ch][a] > 0
                 PROVE  /\ client'[a].logged
                        /\ \E f \in Fds : client'[a].fd = f /\ GetClient(f)' = a
      BY DEF MembersAreFound
    <3>1. /\ a \in live /\ client[a].logged
          /\ \E f \in Fds : client[a].fd = f /\ GetClient(f) = a
      <4>1. CASE members[ch][a] > 0
        BY <2>1, <4>1 DEF MembersAreFound, ChanInv, MembersAreLive
      <4>2. CASE a = GetClient(s) /\ a # NULL /\ LoggedCommand(s, p)
        <5>1. a \in live /\ client[a].fd = s
          BY <2>1, <4>2, GetClientIsLive
        <5>2. a = p /\ client[p].logged
          BY <2>1, <4>2 DEF LoggedCommand, Command
        <5> QED
          BY <4>2, <5>1, <5>2
      <4> QED
        BY <2>4, <4>1, <4>2
    <3>2. a \in Range(clients)
      BY <2>1, <3>1 DEF ObjectsInv, LiveAreListed
    <3> QED
      BY <2>1, <2>2, <3>1, <3>2
  <2>8. OperatorsFromMembers
    BY NextMakesOperators DEF Apart, Next
  <2>9. AdminsAreFound'
    BY <2>1, <2>2, <2>7, <2>8, OperatorsAreFound
  <2> QED
    BY <2>6, <2>7, <2>9 DEF LossyInv
<1> QED
  BY <1>1, <1>2

(* So does every step of the server whose clients never QUIT.              *)
LEMMA NextKeepsLossy == Apart /\ Apart' /\ LossyInv /\ [LossyStep]_vars => LossyInv'
<1> SUFFICES ASSUME Apart, Apart', LossyInv, [LossyStep]_vars PROVE LossyInv'
  OBVIOUS
<1>1. CASE Connect
  BY <1>1, AcceptKeepsLossy DEF Connect
<1>2. CASE (\E s \in Fds : Disconnect(s)) \/ UNCHANGED vars
  <2>1. UNCHANGED << server, live, client, clients, members, admins, copy, invited >>
    BY <1>2 DEF Disconnect, vars, connVars, chanVars, adminVars
  <2>2. \A f : GetClient(f)' = GetClient(f)
    BY <2>1, SameTable
  <2>3. \A ch \in Chans, f \in Fds : IsAdmin(ch, f)' <=> IsAdmin(ch, f)
    BY <2>1 DEF IsAdmin, Operators
  <2> QED
    BY <2>1, <2>2, <2>3 DEF LossyInv, NothingFreed, MembersAreFound, AdminsAreFound
<1>3. CASE RunCommand
  BY <1>3, RunCommandKeepsLossy
<1>4. CASE Signal
  BY <1>4 DEF Signal, SignalHandler, Hangup, Crash, LossyInv
<1> QED
  BY <1>1, <1>2, <1>3, <1>4 DEF LossyStep

(* The invariants of the server whose clients never QUIT.                  *)
LEMMA LossyInvariance == Lossy => [](Apart /\ EntriesPaired /\ LossyInv)
<1>1. Init => LossyInv
  <2> SUFFICES ASSUME Init PROVE NothingFreed /\ MembersAreFound /\ AdminsAreFound
    BY DEF LossyInv
  <2>1. NothingFreed
    <3>1. Cardinality(live) = 0 /\ Len(clients) = 0 /\ \A ch \in Chans : invited[ch] = {}
      BY FS_EmptySet DEF Init
    <3> QED
      BY <3>1 DEF NothingFreed
  <2>2. MembersAreFound
    BY DEF Init, MembersAreFound
  <2>3. AdminsAreFound
    BY DEF Init, AdminsAreFound, IsAdmin, Operators, Numbers
  <2> QED
    BY <2>1, <2>2, <2>3
<1>2. Lossy => []Apart
  BY BlocksInvariance DEF Apart
<1>3. Lossy => []LossyInv
  BY <1>1, <1>2, NextKeepsLossy, PTL DEF Lossy
<1>4. Lossy => Spec
  BY LossySteps, PTL DEF Lossy, Spec
<1> QED
  BY <1>2, <1>3, <1>4, EntriesStayPaired, PTL

(***************************************************************************)
(* As long as no client sends QUIT, the stop by a signal is clean, as the  *)
(* comment in signal.cpp says: all is freed once, however many connections *)
(* ended without a QUIT.  It is the QUIT that makes the claim false.       *)
(***************************************************************************)
THEOREM StopIsCleanBeforeQuit == Lossy => []SignalStopsCleanly
<1>1. Init => SignalStopsCleanly
  BY DEF Init, SignalStopsCleanly
<1>2. Apart /\ EntriesPaired /\ LossyInv /\ SignalStopsCleanly /\ [LossyStep]_vars
        => SignalStopsCleanly'
  <2> SUFFICES ASSUME Apart, EntriesPaired, LossyInv, SignalStopsCleanly, [LossyStep]_vars
               PROVE  SignalStopsCleanly'
    OBVIOUS
  <2>0. ObjectsInv
    BY DEF Apart, IInv, ConnInv
  <2>1. CASE server' = server
    BY <2>1 DEF SignalStopsCleanly
  <2>2. CASE server' # server
    <3>1. CASE RunCommand
      BY <2>0, <3>1, <2>2, CommandFrame DEF SignalStopsCleanly
    <3>2. CASE Signal
      <4>1. FreesOnce
        BY <2>0, <3>2, PairsAreFreedOnce
           DEF Signal, SignalHandler, Hangup, LossyInv, NothingFreed, FreesOnceBeforeQuit
      <4> QED
        BY <3>2, <4>1 DEF Signal, SignalHandler, Hangup, Crash, SignalStopsCleanly
    <3> QED
      BY <2>2, <3>1, <3>2
         DEF LossyStep, Connect, AcceptClient, Disconnect, vars
  <2> QED
    BY <2>1, <2>2
<1> QED
  BY <1>1, <1>2, LossyInvariance, PTL DEF Lossy

(***************************************************************************)
(* As long as no client sends QUIT, an invitation admits the client whose  *)
(* nickname INVITE named, and no other: none is allocated at its address.  *)
(***************************************************************************)
THEOREM InvitationsHoldBeforeQuit == Lossy => []InvitedClientsHaveNicks
<1>1. Init => InvitedClientsHaveNicks
  BY DEF Init, InvitedClientsHaveNicks
<1>2. Apart /\ LossyInv /\ InvitedClientsHaveNicks /\ [LossyStep]_vars
        => InvitedClientsHaveNicks'
  <2> SUFFICES ASSUME Apart, LossyInv, InvitedClientsHaveNicks, [LossyStep]_vars
               PROVE  InvitedClientsHaveNicks'
    OBVIOUS
  <2>0. ConnInv /\ ObjectsInv /\ ConnTypeOK /\ ListsInv /\ live \subseteq Addrs
    BY DEF Apart, IInv, ConnInv, ObjectsInv, ConnTypeOK, ChanInv
  <2>1. CASE Connect
    <3>1. PICK s \in Fds, a \in Addrs : AcceptClient(s, a)
      BY <2>1 DEF Connect
    <3>2. server = "up" /\ a \notin live /\ live' = live \cup {a} /\ invited' = invited
      BY <3>1 DEF AcceptClient, chanVars
    <3>3. \A ch \in Chans : invited[ch] \subseteq live
      BY <3>2 DEF LossyInv, NothingFreed
    <3>4. \A b \in live : client'[b] = client[b]
      BY <2>0, <3>1, <3>2, AcceptEffect
    <3> QED
      BY <3>2, <3>3, <3>4 DEF InvitedClientsHaveNicks
  <2>2. CASE RunCommand
    <3>1. server = "up" /\ live' \subseteq live
      BY <2>0, <2>2, CommandFrame
    <3>2. \A a \in live : client[a].nick # NULL => client'[a].nick # NULL
      BY <2>0, <2>2, CommandTakesNothing
    <3> PICK s \in Fds, p \in Addrs :
           \/ Register(s, p)
           \/ OtherCommand(s, p)
           \/ \E ch \in Chans : UseChannel(s, p, ch)
           \/ \E hasText \in BOOLEAN : HandlePrivmsg(s, p, hasText)
      BY <2>2 DEF RunCommand
    <3>3. UNCHANGED chanVars \/ \E ch \in Chans : UseChannel(s, p, ch)
      BY <2>0, RegistrationEffect DEF Registers, HandlePrivmsg, Refuse, Crash
    <3>4. \A c \in Chans : \A a \in invited'[c] :
            a \in invited[c] \/ \E n \in Nicks : a = GetClientByNick(n) /\ a # NULL
      BY <2>0, <3>3, InvitedByNick DEF chanVars
    <3>5. ASSUME NEW c \in Chans, NEW a \in live, a \in invited'[c]
          PROVE  client[a].nick # NULL
      <4>1. CASE a \in invited[c]
        BY <3>5, <4>1 DEF InvitedClientsHaveNicks
      <4>2. CASE \E n \in Nicks : a = GetClientByNick(n) /\ a # NULL
        BY <2>0, <4>2, GetClientByNickResult, ConstantsAssumption
      <4> QED
        BY <3>4, <3>5, <4>1, <4>2
    <3> QED
      BY <3>1, <3>2, <3>5 DEF InvitedClientsHaveNicks
  <2>3. CASE Signal \/ (\E s \in Fds : Disconnect(s)) \/ UNCHANGED vars
    BY <2>3 DEF Signal, SignalHandler, Hangup, Crash, Disconnect, vars, connVars, chanVars,
                InvitedClientsHaveNicks
  <2> QED
    BY <2>1, <2>2, <2>3 DEF LossyStep
<1> QED
  BY <1>1, <1>2, LossyInvariance, PTL DEF Lossy

(***************************************************************************)
(* As long as no client sends QUIT, whom isAdmin takes for an operator is  *)
(* a client that logged in, as its comment says: the Client its number     *)
(* leads to, the first one that had the number.                            *)
(***************************************************************************)
THEOREM OperatorsHoldBeforeQuit == Lossy => []OperatorsAreLoggedIn
<1>1. LossyInv => OperatorsAreLoggedIn
  BY DEF LossyInv, AdminsAreFound, OperatorsAreLoggedIn
<1> QED
  BY <1>1, LossyInvariance, PTL

=============================================================================
