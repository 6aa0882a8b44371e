-------------------------- MODULE ChannelCommands --------------------------
(***************************************************************************)
(* The channel commands of an authenticated client: JOIN, TOPIC, KICK,     *)
(* INVITE, MODE and PRIVMSG.  A channel is created by the first JOIN that  *)
(* names it, with the client that sent it as its operator, and is never    *)
(* removed.  A command that is refused only reports an error.              *)
(***************************************************************************)
EXTENDS ServerState

(* No handler of this module touches these.                                *)
tableVars == << server, firstConnexion, conn, clients >>

(* What the end of a command that allocates and frees nothing looks like.  *)
Done(s, p) == EndCommand(s, p, client) /\ UNCHANGED << tableVars, live >>

Refuse(s, p) == Done(s, p) /\ UNCHANGED chanVars

(* Channel::clients, entry by entry: a pointer, and which one to its Client.*)
Entries(ch) == UNION {{<<a, i>> : i \in 1 .. members[ch][a]} : a \in Addrs}

Occupancy(ch) == Cardinality(Entries(ch))

-----------------------------------------------------------------------------
(***************************************************************************)
(* The copy of a Client among the operators.  The copy constructor leaves  *)
(* the pending names empty and pswd_entered unset.                         *)
(***************************************************************************)
OperatorCopy(c, garbage) ==
  [c EXCEPT !.tmpNick = NULL, !.tmpUser = FALSE, !.pswd = garbage]

(***************************************************************************)
(* handleJoin for a client q that the socket leads to.  addAdmin copies it *)
(* to any block that is free, which may be one the table still points to.  *)
(***************************************************************************)
CreateChannel(q, a, ch, k) ==
  /\ ch \notin channels
  /\ a \notin live \cup held
  /\ channels' = channels \cup {ch}
  /\ copy' = [copy EXCEPT ![ch] = a]
  /\ held' = held \cup {a}
  /\ members' = [members EXCEPT ![ch] = [b \in Addrs |-> IF b = q THEN 1 ELSE 0]]
  /\ invited' = [invited EXCEPT ![ch] = {}]
  /\ \E garbage \in BOOLEAN :
       settings' = [settings EXCEPT ![ch] = NewChannel(k, garbage)]
  /\ UNCHANGED admins

(* Two slips: a member may join again; a full channel takes one more.      *)
AdmitsMember(ch, q, k) ==
  /\ settings[ch].inviteOnly => q \in invited[ch]
  /\ settings[ch].keyed => k # NULL /\ k = settings[ch].key
  /\ settings[ch].limited => Occupancy(ch) < settings[ch].limit

AdmitsOneMore(ch, q, k) ==
  /\ ~IsMember(ch, client[q].fd)
  /\ settings[ch].inviteOnly => q \in invited[ch]
  /\ settings[ch].keyed => k # NULL /\ k = settings[ch].key
  /\ settings[ch].limited => Occupancy(ch) <= settings[ch].limit

Admits(ch, q, k) ==
  /\ ~IsMember(ch, client[q].fd)
  /\ settings[ch].inviteOnly => q \in invited[ch]
  /\ settings[ch].keyed => k # NULL /\ k = settings[ch].key
  /\ settings[ch].limited => Occupancy(ch) < settings[ch].limit

EnterChannel(q, ch, k) ==
  /\ ch \in channels
  /\ Admits(ch, q, k)
  /\ members' = [members EXCEPT ![ch][q] = @ + 1]
  /\ UNCHANGED << channels, adminVars, invited, settings >>

(* JOIN of a channel, with a password or without one (NULL).               *)
HandleJoin(s, p, ch, k) ==
  LET q == GetClient(s) IN
  /\ LoggedCommand(s, p)
  /\ \/ /\ q # NULL
        /\ \E a \in Addrs, garbage \in BOOLEAN :
             /\ CreateChannel(q, a, ch, k)
             /\ EndCommand(s, p, [client EXCEPT ![a] = OperatorCopy(client[q], garbage)])
        /\ UNCHANGED << tableVars, live >>
     \/ q # NULL /\ EnterChannel(q, ch, k) /\ Done(s, p)
     \/ (q # NULL => ch \in channels /\ ~Admits(ch, q, k)) /\ Refuse(s, p)

-----------------------------------------------------------------------------
(* TOPIC with a new topic sets it, whoever asks; without one it reports it.*)
HandleTopic(s, p, ch, t) ==
  /\ LoggedCommand(s, p)
  /\ IF GetClient(s) # NULL /\ ch \in channels /\ t # NULL
       THEN /\ settings' = [settings EXCEPT ![ch].topic = t]
            /\ UNCHANGED << channels, members, adminVars, invited >>
       ELSE UNCHANGED chanVars
  /\ Done(s, p)

(* handleKick and handleInvite ask for a member that is an operator.       *)
MayManage(s, ch) ==
  /\ GetClient(s) # NULL
  /\ ch \in channels
  /\ IsMember(ch, client[GetClient(s)].fd)
  /\ IsAdmin(ch, client[GetClient(s)].fd)

(* KICK takes the target out of the members; it stays among the admins.    *)
MayKick(s, ch, kickee) ==
  /\ MayManage(s, ch)
  /\ kickee # NULL
  /\ IsMember(ch, client[kickee].fd)

HandleKick(s, p, ch, n) ==
  LET kickee == GetClientByNick(n) IN
  /\ LoggedCommand(s, p)
  /\ IF MayKick(s, ch, kickee)
       THEN /\ members' = [members EXCEPT ![ch] = WithoutMember(ch, client[kickee].fd)]
            /\ UNCHANGED << channels, adminVars, invited, settings >>
       ELSE UNCHANGED chanVars
  /\ Done(s, p)

(* INVITE notes the address of the invitee, for as long as the channel is. *)
MayInvite(s, ch, invitee) ==
  /\ MayManage(s, ch)
  /\ invitee # NULL
  /\ ~IsMember(ch, client[invitee].fd)

HandleInvite(s, p, n, ch) ==
  LET invitee == GetClientByNick(n) IN
  /\ LoggedCommand(s, p)
  /\ IF MayInvite(s, ch, invitee)
       THEN /\ invited' = [invited EXCEPT ![ch] = @ \cup {invitee}]
            /\ UNCHANGED << channels, members, adminVars, settings >>
       ELSE UNCHANGED chanVars
  /\ Done(s, p)

(***************************************************************************)
(* PRIVMSG changes nothing, and ends the process when there is no text     *)
(* after the target: substr throws out_of_range.                           *)
(***************************************************************************)
HandlePrivmsg(s, p, hasText) ==
  /\ LoggedCommand(s, p)
  /\ IF GetClient(s) # NULL /\ ~hasText THEN Crash("uncaught") ELSE Refuse(s, p)

-----------------------------------------------------------------------------
(***************************************************************************)
(* handleMode.  Its first lines, for every mode: the channel exists and    *)
(* the client is one of its operators.  The client pointer is not checked, *)
(* and is dereferenced for the first operator to compare it with.          *)
(***************************************************************************)
HasOperators(ch) == \E f \in Numbers : IsAdmin(ch, f)

ModeAllowed(s, ch) ==
  /\ ch \in channels
  /\ GetClient(s) # NULL
  /\ IsAdmin(ch, client[GetClient(s)].fd)

ModeCrash(s, ch) ==
  /\ ch \in channels
  /\ GetClient(s) = NULL
  /\ HasOperators(ch)
  /\ Crash("null_deref")

ModeRefused(s, p, ch) ==
  /\ ~ModeAllowed(s, ch)
  /\ ~(ch \in channels /\ GetClient(s) = NULL /\ HasOperators(ch))
  /\ Refuse(s, p)

Set(ch, new) ==
  /\ settings' = [settings EXCEPT ![ch] = new]
  /\ UNCHANGED << channels, members, adminVars, invited >>

(* +i, -i, +t, -t: a mode that is already as asked is an error, no change. *)
ModeFlag(s, p, ch, on) ==
  /\ ModeAllowed(s, ch)
  /\ \/ Set(ch, [settings[ch] EXCEPT !.inviteOnly = on])
     \/ Set(ch, [settings[ch] EXCEPT !.topicOp = on])
  /\ Done(s, p)

(* +k sets the password each time; -k keeps it but stops asking for it.    *)
ModeKey(s, p, ch, k) ==
  /\ ModeAllowed(s, ch)
  /\ IF k # NULL
       THEN Set(ch, [settings[ch] EXCEPT !.keyed = TRUE, !.key = k])
       ELSE Set(ch, [settings[ch] EXCEPT !.keyed = FALSE])
  /\ Done(s, p)

(***************************************************************************)
(* +l first turns the mode on, with what atoi makes of the argument, then  *)
(* parses it again and keeps the limit when that fails.  -l: NULL.         *)
(***************************************************************************)
(* A slip: the mode is turned on without what atoi makes of the argument.  *)
LimitAfterParsed(ch, l) == IF l \in Limits THEN l ELSE settings[ch].limit

LimitAfter(ch, l) ==
  CASE l \in Limits -> l
    [] l = BadLimit -> IF settings[ch].limited THEN settings[ch].limit ELSE 0

ModeLimit(s, p, ch, l) ==
  /\ ModeAllowed(s, ch)
  /\ IF l # NULL
       THEN Set(ch, [settings[ch] EXCEPT !.limited = TRUE, !.limit = LimitAfter(ch, l)])
       ELSE Set(ch, [settings[ch] EXCEPT !.limited = FALSE])
  /\ Done(s, p)

(* Two slips: +o lists an operator again; +o takes who is not a member.    *)
OperatorChangesAgain(ch, f, on) == IsMember(ch, f) /\ (on \/ IsAdmin(ch, f))

OperatorChangesOutsider(ch, f, on) == IsAdmin(ch, f) # on

(* A member that is not an operator can be made one, and the other way.    *)
OperatorChanges(ch, f, on) == IsMember(ch, f) /\ (IsAdmin(ch, f) # on)

(***************************************************************************)
(* addAdmin and removeAdmin.  With a second operator push_back moves the   *)
(* copies to a larger buffer and gives the block back, whatever has become *)
(* of it; what removeAdmin empties stays allocated for the channel, which  *)
(* nobody can make an operator of any more.                                *)
(***************************************************************************)
SetOperator(ch, f, on) ==
  /\ admins' = [admins EXCEPT ![ch] =
                  [Operators(ch) EXCEPT ![f] = IF on THEN @ + 1 ELSE @ - 1]]
  /\ copy' = [copy EXCEPT ![ch] = NULL]
  /\ IF on THEN Deleted(copy[ch]) ELSE UNCHANGED << live, held >>
  /\ UNCHANGED << channels, members, invited, settings >>

(* What the blocks hold after that.                                        *)
WithoutCopy(ch, on) ==
  IF on /\ copy[ch] # NULL THEN [client EXCEPT ![copy[ch]].fd = NULL] ELSE client

(* +o and -o: the target is looked up by nickname and not checked either.  *)
ModeOperator(s, p, ch, n, on) ==
  LET target == GetClientByNick(n)
      f == client[target].fd IN
  /\ ModeAllowed(s, ch)
  /\ \/ /\ target = NULL
        /\ IF \E a \in Addrs : members[ch][a] > 0 THEN Crash("null_deref") ELSE Refuse(s, p)
     \/ /\ target # NULL /\ ~OperatorChanges(ch, f, on)
        /\ Refuse(s, p)
     \/ /\ target # NULL /\ OperatorChanges(ch, f, on)
        /\ SetOperator(ch, f, on)
        /\ EndCommand(s, p, WithoutCopy(ch, on))
        /\ UNCHANGED tableVars

HandleMode(s, p, ch) ==
  /\ LoggedCommand(s, p)
  /\ \/ ModeCrash(s, ch)
     \/ ModeRefused(s, p, ch)
     \/ \E on \in BOOLEAN : ModeFlag(s, p, ch, on)
     \/ \E k \in Keys \cup {NULL} : ModeKey(s, p, ch, k)
     \/ \E l \in Limits \cup {BadLimit, NULL} : ModeLimit(s, p, ch, l)
     \/ \E n \in Nicks, on \in BOOLEAN : ModeOperator(s, p, ch, n, on)
=============================================================================
