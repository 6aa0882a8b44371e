--------------------------- MODULE ChannelProofs ---------------------------
(***************************************************************************)
(* What the channels hold.  ListsInv, on top of ObjectsInv, is inductive   *)
(* for Spec; ChanInv, on top of ConnInv, as long as the copies of operators*)
(* are apart from the table.  With them, the properties that the runs check*)
(* on small instances hold for any number of sockets, clients, nicknames   *)
(* and channels.                                                           *)
(***************************************************************************)
EXTENDS ConnectionProofs

(* An operator that is in a block is there once.                           *)
LEMMA ListsAfter ==
  ASSUME ChanTypeOK', ModesHaveArguments',
         \A ch \in Chans : copy'[ch] = NULL => \A n \in Numbers : admins'[ch][n] <= 1
  PROVE  ListsInv'
<1>1. OneEntryPerAdmin'
  <2> SUFFICES ASSUME NEW ch \in Chans, NEW n \in Numbers PROVE Operators(ch)'[n] <= 1
    BY DEF OneEntryPerAdmin
  <2> QED
    BY DEF Operators
<1> QED
  BY <1>1 DEF ListsInv

(* A step that leaves the settings and the operators as they are preserves *)
(* ListsInv, whatever becomes of the objects.                              *)
LEMMA FrameKeepsListsInv ==
  ASSUME ListsInv, UNCHANGED << channels, admins, copy, settings >>,
         members' \in [Chans -> [Addrs -> Nat]],
         held' \in SUBSET Addrs,
         invited' \in [Chans -> SUBSET Addrs]
  PROVE  ListsInv'
<1>1. ChanTypeOK' /\ ModesHaveArguments'
  BY DEF ListsInv, ChanTypeOK, ModesHaveArguments
<1>2. \A ch \in Chans : copy'[ch] = NULL => \A n \in Numbers : admins'[ch][n] <= 1
  BY DEF ListsInv, OneEntryPerAdmin, Operators
<1> QED
  BY <1>1, <1>2, ListsAfter

(* A step that touches no channel does.                                    *)
LEMMA SameChannelsKeepListsInv ==
  ASSUME ListsInv, UNCHANGED chanVars
  PROVE  ListsInv'
BY FrameKeepsListsInv DEF chanVars, adminVars, ListsInv, ChanTypeOK

(* So does one that changes the settings of a channel to what its modes    *)
(* need.                                                                   *)
LEMMA SettingsKeepListsInv ==
  ASSUME ListsInv, UNCHANGED << channels, members, adminVars, invited >>,
         settings' \in [Chans -> ChannelSettings],
         \A ch \in channels :
           /\ settings'[ch].limited => settings'[ch].limit # NULL
           /\ settings'[ch].keyed => settings'[ch].key # NULL
  PROVE  ListsInv'
<1>1. ChanTypeOK' /\ ModesHaveArguments'
  BY DEF adminVars, ListsInv, ChanTypeOK, ModesHaveArguments
<1>2. \A ch \in Chans : copy'[ch] = NULL => \A n \in Numbers : admins'[ch][n] <= 1
  BY DEF adminVars, ListsInv, OneEntryPerAdmin, Operators
<1> QED
  BY <1>1, <1>2, ListsAfter

(* What removeClient leaves of a client list.                              *)
LEMMA WithoutMemberType ==
  ASSUME ChanTypeOK, NEW ch \in Chans, NEW f
  PROVE  /\ WithoutMember(ch, f) \in [Addrs -> Nat]
         /\ \A a \in Addrs :
              WithoutMember(ch, f)[a] = IF client[a].fd = f THEN 0 ELSE members[ch][a]
BY DEF ChanTypeOK, WithoutMember

-----------------------------------------------------------------------------
(* ListsInv is preserved by QUIT, which only removes clients.              *)
LEMMA QuitKeepsListsInv ==
  ASSUME ListsInv, NEW s \in Fds, NEW p \in Addrs, HandleQuit(s, p)
  PROVE  ListsInv'
<1>1. \E f : members' = [ch \in Chans |-> WithoutMember(ch, f)]
  BY DEF HandleQuit, QuitClient
<1>2. members' \in [Chans -> [Addrs -> Nat]]
  BY <1>1, WithoutMemberType DEF ListsInv
<1>3. held' \subseteq held /\ UNCHANGED << channels, admins, copy, invited, settings >>
  BY DEF HandleQuit, QuitClient, Deleted
<1> QED
  BY <1>2, <1>3, FrameKeepsListsInv DEF ListsInv, ChanTypeOK

(* By the end of the process.                                              *)
LEMMA SignalKeepsListsInv ==
  ASSUME ListsInv, Signal
  PROVE  ListsInv'
<1>1. held' \subseteq held /\ UNCHANGED << channels, members, admins, copy, invited, settings >>
  BY DEF Signal, SignalHandler, Hangup, Crash, chanVars, adminVars
<1> QED
  BY <1>1, FrameKeepsListsInv DEF ListsInv, ChanTypeOK

(* By JOIN, which creates a channel, enters one, or is refused.            *)
LEMMA JoinKeepsListsInv ==
  ASSUME ObjectsInv, ListsInv, NEW s \in Fds, NEW p \in Addrs, NEW ch \in Chans,
         NEW k \in Keys \cup {NULL}, HandleJoin(s, p, ch, k)
  PROVE  ListsInv'
<1> DEFINE q == GetClient(s)
<1>1. ChanTypeOK
  BY DEF ListsInv
<1>2. ASSUME NEW a \in Addrs, CreateChannel(q, a, ch, k) PROVE ListsInv'
  <2> DEFINE one == [b \in Addrs |-> IF b = q THEN 1 ELSE 0]
  <2>1. /\ channels' = channels \cup {ch}
        /\ copy' = [copy EXCEPT ![ch] = a]
        /\ held' = held \cup {a}
        /\ members' = [members EXCEPT ![ch] = one]
        /\ invited' = [invited EXCEPT ![ch] = {}]
        /\ admins' = admins
    BY <1>2 DEF CreateChannel
  <2>2. PICK garbage \in BOOLEAN :
          settings' = [settings EXCEPT ![ch] = NewChannel(k, garbage)]
    BY <1>2 DEF CreateChannel
  <2>3. one \in [Addrs -> Nat]
    OBVIOUS
  <2> HIDE DEF one
  <2>4. /\ NewChannel(k, garbage) \in ChannelSettings
        /\ NewChannel(k, garbage).limited = FALSE
        /\ NewChannel(k, garbage).keyed => NewChannel(k, garbage).key # NULL
    BY DEF NewChannel, ChannelSettings
  <2>5. ChanTypeOK'
    BY <1>1, <2>1, <2>2, <2>3, <2>4 DEF ChanTypeOK
  <2>6. /\ settings'[ch] = NewChannel(k, garbage)
        /\ \A c \in Chans : c # ch => settings'[c] = settings[c] /\ copy'[c] = copy[c]
        /\ copy'[ch] = a /\ a # NULL /\ channels \subseteq Chans
    BY <1>1, <2>1, <2>2, ConstantsAssumption DEF ChanTypeOK
  <2>7. ModesHaveArguments'
    BY <2>1, <2>4, <2>6 DEF ListsInv, ModesHaveArguments
  <2>8. \A c \in Chans : copy'[c] = NULL => \A n \in Numbers : admins'[c][n] <= 1
    BY <2>1, <2>6 DEF ListsInv, OneEntryPerAdmin, Operators
  <2> QED
    BY <2>5, <2>7, <2>8, ListsAfter
<1>3. CASE q # NULL /\ EnterChannel(q, ch, k)
  <2>1. q \in Addrs
    BY <1>3, GetClientResult DEF ObjectsInv
  <2>2. /\ members' = [members EXCEPT ![ch][q] = members[ch][q] + 1]
        /\ UNCHANGED << channels, admins, copy, held, invited, settings >>
    BY <1>3 DEF EnterChannel, adminVars
  <2>3. members' \in [Chans -> [Addrs -> Nat]]
    BY <1>1, <2>1, <2>2 DEF ChanTypeOK
  <2> QED
    BY <1>1, <2>2, <2>3, FrameKeepsListsInv DEF ChanTypeOK
<1>4. CASE Refuse(s, p)
  BY <1>4, SameChannelsKeepListsInv DEF Refuse
<1> QED
  BY <1>2, <1>3, <1>4 DEF HandleJoin

(* By TOPIC, KICK and INVITE.                                              *)
LEMMA TopicKeepsListsInv ==
  ASSUME ListsInv, NEW s \in Fds, NEW p \in Addrs, NEW ch \in Chans,
         NEW t \in Topics \cup {NULL}, HandleTopic(s, p, ch, t)
  PROVE  ListsInv'
<1>1. CASE UNCHANGED chanVars
  BY <1>1, SameChannelsKeepListsInv
<1>2. CASE /\ settings' = [settings EXCEPT ![ch].topic = t]
           /\ UNCHANGED << channels, members, adminVars, invited >>
  <2>1. settings \in [Chans -> ChannelSettings] /\ channels \subseteq Chans
    BY DEF ListsInv, ChanTypeOK
  <2>2. settings' \in [Chans -> ChannelSettings]
    BY <1>2, <2>1 DEF ChannelSettings
  <2>3. \A c \in Chans : /\ settings'[c].limited = settings[c].limited
                         /\ settings'[c].limit = settings[c].limit
                         /\ settings'[c].keyed = settings[c].keyed
                         /\ settings'[c].key = settings[c].key
    BY <1>2, <2>1 DEF ChannelSettings
  <2>4. \A c \in channels :
          /\ settings'[c].limited => settings'[c].limit # NULL
          /\ settings'[c].keyed => settings'[c].key # NULL
    BY <2>1, <2>3 DEF ListsInv, ModesHaveArguments
  <2> QED
    BY <1>2, <2>2, <2>4, SettingsKeepListsInv
<1> QED
  BY <1>1, <1>2 DEF HandleTopic

(* KICK removes clients from a channel only.                               *)
LEMMA KickKeepsListsInv ==
  ASSUME ListsInv, NEW s \in Fds, NEW p \in Addrs, NEW ch \in Chans,
         NEW n \in Nicks, HandleKick(s, p, ch, n)
  PROVE  ListsInv'
<1>1. CASE UNCHANGED chanVars
  BY <1>1, SameChannelsKeepListsInv
<1>2. CASE \E f : /\ members' = [members EXCEPT ![ch] = WithoutMember(ch, f)]
                  /\ UNCHANGED << channels, adminVars, invited, settings >>
  <2>1. members' \in [Chans -> [Addrs -> Nat]]
    BY <1>2, WithoutMemberType DEF ListsInv, ChanTypeOK
  <2> QED
    BY <1>2, <2>1, FrameKeepsListsInv DEF adminVars, ListsInv, ChanTypeOK
<1> QED
  BY <1>1, <1>2 DEF HandleKick

(* INVITE adds to the invitations of a channel only.                       *)
LEMMA InviteKeepsListsInv ==
  ASSUME ObjectsInv, ListsInv, NEW s \in Fds, NEW p \in Addrs, NEW ch \in Chans,
         NEW n \in Nicks, HandleInvite(s, p, n, ch)
  PROVE  ListsInv'
<1> DEFINE invitee == GetClientByNick(n)
<1>1. CASE UNCHANGED chanVars
  BY <1>1, SameChannelsKeepListsInv
<1>2. CASE /\ invitee # NULL
           /\ invited' = [invited EXCEPT ![ch] = @ \cup {invitee}]
           /\ UNCHANGED << channels, members, adminVars, settings >>
  <2>1. invitee \in Addrs
    BY <1>2, GetClientByNickResult DEF ObjectsInv
  <2>2. invited' \in [Chans -> SUBSET Addrs]
    BY <1>2, <2>1 DEF ListsInv, ChanTypeOK
  <2> QED
    BY <1>2, <2>2, FrameKeepsListsInv DEF adminVars, ListsInv, ChanTypeOK
<1> QED
  BY <1>1, <1>2 DEF HandleInvite, MayInvite

-----------------------------------------------------------------------------
(* A mode that is set with what it needs preserves ListsInv.               *)
LEMMA SetKeepsListsInv ==
  ASSUME ListsInv, NEW ch \in Chans, NEW new \in ChannelSettings, Set(ch, new),
         new.limited => new.limit # NULL,
         new.keyed => new.key # NULL
  PROVE  ListsInv'
<1>1. /\ settings' = [settings EXCEPT ![ch] = new]
      /\ UNCHANGED << channels, members, adminVars, invited >>
  BY DEF Set
<1>2. settings \in [Chans -> ChannelSettings] /\ channels \subseteq Chans
  BY DEF ListsInv, ChanTypeOK
<1>3. settings' \in [Chans -> ChannelSettings]
  BY <1>1, <1>2
<1>4. \A c \in channels :
        /\ settings'[c].limited => settings'[c].limit # NULL
        /\ settings'[c].keyed => settings'[c].key # NULL
  BY <1>1, <1>2 DEF ListsInv, ModesHaveArguments
<1> QED
  BY <1>1, <1>3, <1>4, SettingsKeepListsInv

(* The operators of a channel, counted.                                    *)
LEMMA OperatorsType ==
  ASSUME ListsInv, NEW ch \in Chans
  PROVE  Operators(ch) \in [Numbers -> Nat] /\ \A n \in Numbers : Operators(ch)[n] <= 1
<1>1. CASE copy[ch] = NULL
  BY <1>1 DEF Operators, ListsInv, ChanTypeOK, OneEntryPerAdmin
<1>2. CASE copy[ch] # NULL
  BY <1>2 DEF Operators
<1> QED
  BY <1>1, <1>2

(* +o adds a number that is not listed, -o drops one that is.              *)
LEMMA OperatorKeepsListsInv ==
  ASSUME ListsInv, NEW ch \in Chans, NEW f \in Numbers, NEW on \in BOOLEAN,
         IsAdmin(ch, f) # on, SetOperator(ch, f, on)
  PROVE  ListsInv'
<1> DEFINE old == Operators(ch)
           new == [old EXCEPT ![f] = IF on THEN old[f] + 1 ELSE old[f] - 1]
<1>1. old \in [Numbers -> Nat] /\ \A n \in Numbers : old[n] <= 1
  BY OperatorsType
<1>2. /\ admins' = [admins EXCEPT ![ch] = new]
      /\ copy' = [copy EXCEPT ![ch] = NULL]
      /\ held' \subseteq held
      /\ UNCHANGED << channels, members, invited, settings >>
  BY DEF SetOperator, Deleted
<1>3. on = TRUE => ~IsAdmin(ch, f)
  BY DEF IsAdmin
<1>4. on = FALSE => IsAdmin(ch, f)
  BY DEF IsAdmin
<1>5. IsAdmin(ch, f) <=> old[f] > 0
  BY DEF IsAdmin
<1> HIDE DEF old
<1>6. new \in [Numbers -> Nat] /\ \A n \in Numbers : new[n] <= 1
  <2>1. CASE on = TRUE
    <3>1. ~(old[f] > 0)
      BY <1>3, <1>5, <2>1
    <3>2. new = [old EXCEPT ![f] = old[f] + 1]
      BY <2>1
    <3>3. old[f] = 0
      BY <1>1, <3>1
    <3> QED
      BY <1>1, <3>2, <3>3
  <2>2. CASE on = FALSE
    <3>1. old[f] > 0
      BY <1>4, <1>5, <2>2
    <3>2. new = [old EXCEPT ![f] = old[f] - 1]
      BY <2>2
    <3>3. old[f] = 1
      BY <1>1, <3>1
    <3> QED
      BY <1>1, <3>2, <3>3
  <2> QED
    BY <2>1, <2>2
<1> HIDE DEF new
<1>7. ChanTypeOK'
  BY <1>2, <1>6 DEF ListsInv, ChanTypeOK
<1>8. ModesHaveArguments'
  BY <1>2 DEF ListsInv, ModesHaveArguments
<1>9. \A c \in Chans : copy'[c] = NULL => \A n \in Numbers : admins'[c][n] <= 1
  <2> SUFFICES ASSUME NEW c \in Chans, copy'[c] = NULL, NEW n \in Numbers
               PROVE  admins'[c][n] <= 1
    OBVIOUS
  <2>1. CASE c = ch
    BY <2>1, <1>2, <1>6 DEF ListsInv, ChanTypeOK
  <2>2. CASE c # ch
    <3>1. admins'[c] = admins[c] /\ copy'[c] = copy[c]
      BY <2>2, <1>2 DEF ListsInv, ChanTypeOK
    <3> QED
      BY <3>1 DEF ListsInv, OneEntryPerAdmin, Operators
  <2> QED
    BY <2>1, <2>2
<1> QED
  BY <1>7, <1>8, <1>9, ListsAfter

(* Every MODE command preserves ListsInv.                                  *)
LEMMA ModeKeepsListsInv ==
  ASSUME ObjectsInv, ListsInv, NEW s \in Fds, NEW p \in Addrs, NEW ch \in Chans,
         HandleMode(s, p, ch)
  PROVE  ListsInv'
<1>2. settings[ch] \in ChannelSettings
  BY DEF ListsInv, ChanTypeOK
<1>3. ch \in channels => /\ settings[ch].limited => settings[ch].limit # NULL
                         /\ settings[ch].keyed => settings[ch].key # NULL
  BY DEF ListsInv, ModesHaveArguments
<1>4. CASE Refuse(s, p) \/ Crash("null_deref")
  BY <1>4, SameChannelsKeepListsInv DEF Refuse, Crash
<1>6. ASSUME NEW on \in BOOLEAN, ModeFlag(s, p, ch, on)
      PROVE  ListsInv'
  <2>1. ch \in channels
    BY <1>6 DEF ModeFlag, ModeAllowed
  <2> DEFINE invite == [settings[ch] EXCEPT !.inviteOnly = on]
             topic == [settings[ch] EXCEPT !.topicOp = on]
  <2>2. PICK new \in {invite, topic} : Set(ch, new)
    BY <1>6 DEF ModeFlag
  <2>3. ASSUME NEW c \in {invite, topic}
        PROVE  /\ c \in ChannelSettings
               /\ c.limited = settings[ch].limited /\ c.limit = settings[ch].limit
               /\ c.keyed = settings[ch].keyed /\ c.key = settings[ch].key
    <3>1. CASE c = invite
      BY <1>2, <3>1 DEF ChannelSettings
    <3>2. CASE c = topic
      BY <1>2, <3>2 DEF ChannelSettings
    <3> QED
      BY <3>1, <3>2
  <2> HIDE DEF invite, topic
  <2> QED
    BY <1>3, <2>1, <2>2, <2>3, SetKeepsListsInv
<1>7. ASSUME NEW k \in Keys \cup {NULL}, ModeKey(s, p, ch, k)
      PROVE  ListsInv'
  <2>1. ch \in channels
    BY <1>7 DEF ModeKey, ModeAllowed
  <2> DEFINE new == IF k # NULL THEN [settings[ch] EXCEPT !.keyed = TRUE, !.key = k]
                    ELSE [settings[ch] EXCEPT !.keyed = FALSE]
  <2>2. Set(ch, new)
    BY <1>7 DEF ModeKey
  <2>3. /\ new \in ChannelSettings
        /\ new.limited = settings[ch].limited /\ new.limit = settings[ch].limit
        /\ new.keyed => new.key # NULL
    BY <1>2 DEF ChannelSettings
  <2> HIDE DEF new
  <2> QED
    BY <1>3, <2>1, <2>2, <2>3, SetKeepsListsInv
<1>8. ASSUME NEW l \in Limits \cup {BadLimit, NULL}, ModeLimit(s, p, ch, l)
      PROVE  ListsInv'
  <2>1. ch \in channels
    BY <1>8 DEF ModeLimit, ModeAllowed
  <2> DEFINE on == [settings[ch] EXCEPT !.limited = TRUE, !.limit = LimitAfter(ch, l)]
             off == [settings[ch] EXCEPT !.limited = FALSE]
  <2>2. CASE l # NULL
    <3>1. Set(ch, on)
      BY <1>8, <2>2 DEF ModeLimit
    <3>2. LimitAfter(ch, l) \in Nat
      <4>1. settings[ch].limited => settings[ch].limit \in Nat
        BY <1>2, <1>3, <2>1 DEF ChannelSettings
      <4>2. CASE l \in Limits
        BY <4>2, ConstantsAssumption DEF LimitAfter
      <4>3. CASE l = BadLimit
        <5>1. l \notin Limits
          BY <4>3, ConstantsAssumption
        <5> QED
          BY <4>1, <4>3, <5>1 DEF LimitAfter
      <4> QED
        BY <2>2, <4>2, <4>3
    <3>3. /\ on \in ChannelSettings
          /\ on.limit # NULL
          /\ on.keyed = settings[ch].keyed /\ on.key = settings[ch].key
      BY <1>2, <3>2, ConstantsAssumption DEF ChannelSettings
    <3> HIDE DEF on
    <3> QED
      BY <1>3, <2>1, <3>1, <3>3, SetKeepsListsInv
  <2>3. CASE l = NULL
    <3>1. Set(ch, off)
      BY <1>8, <2>3 DEF ModeLimit
    <3>2. /\ off \in ChannelSettings
          /\ off.limited = FALSE
          /\ off.keyed = settings[ch].keyed /\ off.key = settings[ch].key
      BY <1>2 DEF ChannelSettings
    <3> HIDE DEF off
    <3> QED
      BY <1>3, <2>1, <3>1, <3>2, SetKeepsListsInv
  <2> QED
    BY <2>2, <2>3
<1>9. ASSUME NEW n \in Nicks, NEW on \in BOOLEAN, ModeOperator(s, p, ch, n, on)
      PROVE  ListsInv'
  <2> DEFINE target == GetClientByNick(n)
             f == client[target].fd
  <2>1. CASE target # NULL /\ OperatorChanges(ch, f, on) /\ SetOperator(ch, f, on)
    <3>1. target \in Addrs
      BY <2>1, GetClientByNickResult DEF ObjectsInv
    <3>2. f \in Numbers
      BY <3>1 DEF ObjectsInv, ConnTypeOK, ClientRecord
    <3> QED
      BY <2>1, <3>2, OperatorKeepsListsInv DEF OperatorChanges
  <2> QED
    BY <1>4, <1>9, <2>1 DEF ModeOperator
<1>10. CASE ModeCrash(s, ch) \/ ModeRefused(s, p, ch)
  BY <1>4, <1>10 DEF ModeCrash, ModeRefused
<1> QED
  BY <1>6, <1>7, <1>8, <1>9, <1>10 DEF HandleMode

(* Any command, QUIT apart, preserves ListsInv.                            *)
LEMMA RunCommandKeepsListsInv ==
  ASSUME ObjectsInv, ListsInv, RunCommand
  PROVE  ListsInv'
<1> PICK s \in Fds, p \in Addrs :
       \/ Register(s, p)
       \/ OtherCommand(s, p)
       \/ \E ch \in Chans : UseChannel(s, p, ch)
       \/ \E hasText \in BOOLEAN : HandlePrivmsg(s, p, hasText)
  BY DEF RunCommand
<1>1. CASE Register(s, p) \/ OtherCommand(s, p)
  BY <1>1, RegistrationEffect, SameChannelsKeepListsInv DEF Registers, Crash
<1>2. ASSUME NEW ch \in Chans, UseChannel(s, p, ch)
      PROVE  ListsInv'
  BY <1>2, JoinKeepsListsInv, TopicKeepsListsInv, KickKeepsListsInv, InviteKeepsListsInv,
     ModeKeepsListsInv DEF UseChannel, ManageChannel
<1>3. CASE \E hasText \in BOOLEAN : HandlePrivmsg(s, p, hasText)
  BY <1>3, SameChannelsKeepListsInv DEF HandlePrivmsg, Refuse, Crash
<1> QED
  BY <1>1, <1>2, <1>3

(* Every step of the server preserves ListsInv.                            *)
LEMMA NextKeepsListsInv == ObjectsInv /\ ListsInv /\ [Next]_vars => ListsInv'
<1> SUFFICES ASSUME ObjectsInv, ListsInv, [Next]_vars PROVE ListsInv'
  OBVIOUS
<1>1. CASE Connect \/ (\E s \in Fds : Disconnect(s)) \/ UNCHANGED vars
  <2>1. UNCHANGED chanVars
    BY <1>1 DEF Connect, AcceptClient, Disconnect, vars
  <2> QED
    BY <2>1, SameChannelsKeepListsInv
<1>2. CASE \E s \in Fds, p \in Addrs : HandleQuit(s, p)
  BY <1>2, QuitKeepsListsInv
<1>3. CASE RunCommand
  BY <1>3, RunCommandKeepsListsInv
<1>4. CASE Signal
  BY <1>4, SignalKeepsListsInv
<1> QED
  BY <1>1, <1>2, <1>3, <1>4 DEF Next, Leave

(* The invariant of Spec: what holds whatever block an operator is put in. *)
LEMMA BaseInvariance == Spec => []BaseInv
<1>1. Init => BaseInv
  <2> SUFFICES ASSUME Init PROVE ListsInv
    BY InitConnInv DEF BaseInv, ConnInv
  <2>1. \A ch \in Chans : settings[ch] = NewChannel(NULL, FALSE)
    BY DEF Init
  <2>2. NewChannel(NULL, FALSE) \in ChannelSettings
    BY DEF NewChannel, ChannelSettings
  <2>3. ChanTypeOK
    BY <2>2 DEF Init, ChanTypeOK
  <2> QED
    BY <2>3 DEF Init, ListsInv, OneEntryPerAdmin, ModesHaveArguments, Operators
<1>2. BaseInv /\ [Next]_vars => BaseInv'
  BY NextKeepsObjectsInv, NextKeepsListsInv DEF BaseInv
<1> QED
  BY <1>1, <1>2, PTL DEF Spec

-----------------------------------------------------------------------------
(***************************************************************************)
(* With the copies apart: the client lists.  A step that leaves them alone *)
(* keeps what holds of them, if it frees no client and those in the lists  *)
(* keep their sockets.                                                     *)
(***************************************************************************)
MembersInv == MembersAreLive /\ OneEntryPerMember

LEMMA SameMembers ==
  ASSUME MembersInv, UNCHANGED members,
         server' = "up" => server = "up" /\ live \subseteq live',
         \A ch \in Chans, a \in Addrs :
           members[ch][a] > 0 => client'[a].fd = client[a].fd
  PROVE  MembersInv'
<1>1. MembersAreLive'
  BY DEF MembersInv, MembersAreLive
<1>2. OneEntryPerMember'
  BY DEF MembersInv, OneEntryPerMember
<1> QED
  BY <1>1, <1>2 DEF MembersInv

(* Client lists that only lose clients keep it too.                        *)
LEMMA FewerMembers ==
  ASSUME MembersInv, ChanTypeOK, server = "up", live' = live,
         members' \in [Chans -> [Addrs -> Nat]],
         \A a \in live : client'[a].fd = client[a].fd,
         \A ch \in Chans, a \in Addrs : members'[ch][a] <= members[ch][a]
  PROVE  MembersInv'
<1>1. \A ch \in Chans, a \in Addrs :
        members[ch][a] \in Nat /\ members'[ch][a] \in Nat
  BY DEF ChanTypeOK
<1>2. \A ch \in Chans, a \in Addrs : members'[ch][a] > 0 => members[ch][a] > 0 /\ a \in live
  BY <1>1 DEF MembersInv, MembersAreLive
<1>3. MembersAreLive'
  BY <1>2 DEF MembersAreLive
<1>4. \A ch \in Chans, a \in Addrs : members'[ch][a] <= 1
  BY <1>1 DEF MembersInv, OneEntryPerMember
<1>5. OneEntryPerMember'
  BY <1>2, <1>4 DEF MembersInv, OneEntryPerMember
<1> QED
  BY <1>3, <1>5 DEF MembersInv

(* What a quiet command leaves alone.                                      *)
LEMMA QuietFrame ==
  ASSUME ConnInv, NEW s \in Fds, NEW p \in Addrs, NEW objects,
         Effect(s, p, objects), Quiet(s, p, objects)
  PROVE  /\ server = "up" /\ server' = "up" /\ live' = live
         /\ \A a \in Range(clients) : client'[a].fd = client[a].fd
         /\ \A a \in live : client'[a].fd = client[a].fd
         /\ GetClient(s) # NULL =>
              GetClient(s) \in live /\ GetClient(s) \in Addrs /\ client[GetClient(s)].fd = s
<1>1. server = "up" /\ server' = "up" /\ live' = live
  BY DEF Effect, Command, Quiet
<1>2. ConnTypeOK /\ Range(clients) \subseteq Addrs /\ live \subseteq Range(clients)
  BY DEF ConnInv, ObjectsInv, ConnTypeOK, LiveAreListed, Range
<1>3. \A a \in Range(clients) : client'[a].fd = client[a].fd
  BY <1>2, EffectObjects DEF Quiet
<1>4. GetClient(s) # NULL => GetClient(s) \in live /\ client[GetClient(s)].fd = s
  BY <1>1, GetClientIsLive
<1> QED
  BY <1>1, <1>2, <1>3, <1>4

(* Every channel command is quiet, if it does not end the process.         *)
LEMMA ChannelFrame ==
  ASSUME ConnInv, ChanTypeOK, CopiesApart, CopiesApart',
         NEW s \in Fds, NEW p \in Addrs, NEW ch \in Chans, UseChannel(s, p, ch)
  PROVE  \/ Crash("null_deref")
         \/ \E objects : Effect(s, p, objects) /\ Quiet(s, p, objects)
<1>1. Command(s, p)
  BY DEF UseChannel, ManageChannel, HandleJoin, HandleTopic, HandleKick, HandleInvite,
     HandleMode, LoggedCommand
<1>2. (\E objects : ChannelEffect(s, p, ch, objects)) \/ Crash("null_deref")
  BY JoinEffect, ManageEffect DEF UseChannel
<1>3. ObjectsInv
  BY DEF ConnInv
<1> QED
  BY <1>1, <1>2, <1>3, ChannelEffectIsEffect, ChannelEffectIsQuiet

(* The ways a client list changes by a channel command: one is created, one*)
(* is entered, or clients are removed.                                     *)
LEMMA ListChanges ==
  ASSUME NEW s \in Fds, NEW p \in Addrs, NEW ch \in Chans, UseChannel(s, p, ch)
  PROVE  LET q == GetClient(s) IN
         \/ members' = members
         \/ /\ q # NULL
            /\ members' = [members EXCEPT ![ch] = [b \in Addrs |-> IF b = q THEN 1 ELSE 0]]
         \/ /\ q # NULL /\ ~IsMember(ch, client[q].fd)
            /\ members' = [members EXCEPT ![ch][q] = @ + 1]
         \/ \E f : members' = [members EXCEPT ![ch] = WithoutMember(ch, f)]
<1>1. ASSUME NEW k, HandleJoin(s, p, ch, k)
      PROVE  LET q == GetClient(s) IN
             \/ members' = members
             \/ /\ q # NULL
                /\ members' = [members EXCEPT ![ch] = [b \in Addrs |-> IF b = q THEN 1 ELSE 0]]
             \/ /\ q # NULL /\ ~IsMember(ch, client[q].fd)
                /\ members' = [members EXCEPT ![ch][q] = @ + 1]
  BY <1>1 DEF HandleJoin, CreateChannel, EnterChannel, Admits, Refuse, chanVars
<1>2. ASSUME NEW t, HandleTopic(s, p, ch, t) PROVE members' = members
  BY <1>2 DEF HandleTopic, chanVars
<1>3. ASSUME NEW n, HandleInvite(s, p, n, ch) PROVE members' = members
  BY <1>3 DEF HandleInvite, chanVars
<1>4. ASSUME NEW n, HandleKick(s, p, ch, n)
      PROVE  members' = members
               \/ \E f : members' = [members EXCEPT ![ch] = WithoutMember(ch, f)]
  BY <1>4 DEF HandleKick, chanVars
<1>5. ASSUME HandleMode(s, p, ch) PROVE members' = members
  BY <1>5 DEF HandleMode, ModeCrash, ModeRefused, ModeFlag, ModeKey, ModeLimit, ModeOperator,
     SetOperator, Set, Refuse, Crash, chanVars
<1> QED
  BY <1>1, <1>2, <1>3, <1>4, <1>5 DEF UseChannel, ManageChannel

(* What a channel command does to the client lists.                        *)
LEMMA ChannelKeepsMembersInv ==
  ASSUME ConnInv, ChanTypeOK, MembersInv, CopiesApart, CopiesApart',
         NEW s \in Fds, NEW p \in Addrs, NEW ch \in Chans, UseChannel(s, p, ch)
  PROVE  MembersInv'
<1> DEFINE q == GetClient(s)
<1>1. CASE Crash("null_deref")
  BY <1>1, SameMembers DEF Crash, connVars, chanVars
<1>2. CASE \E objects : Effect(s, p, objects) /\ Quiet(s, p, objects)
  <2>1. /\ server = "up" /\ server' = "up" /\ live' = live
        /\ \A a \in live : client'[a].fd = client[a].fd
        /\ q # NULL => q \in live /\ q \in Addrs /\ client[q].fd = s
    BY <1>2, QuietFrame
  <2>2. /\ members \in [Chans -> [Addrs -> Nat]]
        /\ \A c \in Chans, a \in Addrs : members[c][a] \in Nat
        /\ \A c \in Chans, a \in Addrs : members[c][a] > 0 => a \in live
    BY <2>1 DEF ChanTypeOK, MembersInv, MembersAreLive
  <2> HIDE DEF q
  <2>3. CASE members' = members
    BY <2>1, <2>2, <2>3, SameMembers
  <2>4. CASE \E f : members' = [members EXCEPT ![ch] = WithoutMember(ch, f)]
    <3>1. PICK f : members' = [members EXCEPT ![ch] = WithoutMember(ch, f)]
      BY <2>4
    <3>2. /\ WithoutMember(ch, f) \in [Addrs -> Nat]
          /\ \A a \in Addrs : WithoutMember(ch, f)[a] <= members[ch][a]
      BY <2>2, WithoutMemberType
    <3>3. /\ members' \in [Chans -> [Addrs -> Nat]]
          /\ \A c \in Chans, a \in Addrs : members'[c][a] <= members[c][a]
      BY <2>2, <3>1, <3>2
    <3> QED
      BY <2>1, <3>3, FewerMembers
  <2>5. CASE /\ q # NULL
             /\ members' = [members EXCEPT ![ch] = [b \in Addrs |-> IF b = q THEN 1 ELSE 0]]
    <3>1. /\ \A a \in Addrs : members'[ch][a] <= 1 /\ (members'[ch][a] > 0 => a = q)
          /\ \A c \in Chans : c # ch => members'[c] = members[c]
      BY <2>2, <2>5
    <3>2. MembersAreLive'
      BY <2>1, <2>2, <2>5, <3>1 DEF MembersAreLive
    <3>3. OneEntryPerMember'
      <4>1. ASSUME NEW c \in Chans, NEW a \in Addrs PROVE members'[c][a] <= 1
        BY <3>1 DEF MembersInv, OneEntryPerMember
      <4>2. ASSUME NEW c \in Chans, NEW a \in Addrs, NEW b \in Addrs,
                   members'[c][a] > 0, members'[c][b] > 0, client'[a].fd = client'[b].fd
            PROVE  a = b
        <5>1. CASE c = ch
          BY <3>1, <4>2, <5>1
        <5>2. CASE c # ch
          <6>1. members[c][a] > 0 /\ members[c][b] > 0 /\ client[a].fd = client[b].fd
            BY <2>1, <2>2, <3>1, <4>2, <5>2
          <6> QED
            BY <6>1 DEF MembersInv, OneEntryPerMember
        <5> QED
          BY <5>1, <5>2
      <4> QED
        BY <4>1, <4>2 DEF OneEntryPerMember
    <3> QED
      BY <3>2, <3>3 DEF MembersInv
  <2>6. CASE /\ q # NULL /\ ~IsMember(ch, client[q].fd)
             /\ members' = [members EXCEPT ![ch][q] = @ + 1]
    <3>1. \A a \in Addrs : client[a].fd = s => members[ch][a] = 0
      BY <2>1, <2>2, <2>6 DEF IsMember
    <3>2. /\ members'[ch][q] = 1
          /\ \A c \in Chans, a \in Addrs :
               c # ch \/ a # q => members'[c][a] = members[c][a]
      BY <2>1, <2>2, <2>6, <3>1
    <3>3. MembersAreLive'
      BY <2>1, <2>2, <2>6, <3>2 DEF MembersAreLive
    <3>4. OneEntryPerMember'
      <4>1. ASSUME NEW c \in Chans, NEW a \in Addrs PROVE members'[c][a] <= 1
        <5>1. CASE c = ch /\ a = q
          BY <5>1, <3>2
        <5>2. CASE c # ch \/ a # q
          BY <5>2, <3>2 DEF MembersInv, OneEntryPerMember
        <5> QED
          BY <5>1, <5>2
      <4>2. ASSUME NEW c \in Chans, NEW a \in Addrs, NEW b \in Addrs,
                   members'[c][a] > 0, members'[c][b] > 0, client'[a].fd = client'[b].fd
            PROVE  a = b
        <5>1. client[a].fd = client[b].fd
          BY <2>1, <2>2, <2>6, <3>2, <4>2
        <5>2. CASE c = ch /\ (a = q \/ b = q)
          <6>1. members[ch][a] = 0 /\ members[ch][b] = 0
            BY <2>1, <2>6, <3>1, <5>1, <5>2
          <6>2. a = q /\ b = q
            BY <4>2, <5>2, <6>1, <3>2
          <6> QED
            BY <6>2
        <5>3. CASE c # ch \/ (a # q /\ b # q)
          <6>1. members[c][a] > 0 /\ members[c][b] > 0
            BY <4>2, <5>3, <3>2
          <6> QED
            BY <5>1, <6>1 DEF MembersInv, OneEntryPerMember
        <5> QED
          BY <5>2, <5>3
      <4> QED
        BY <4>1, <4>2 DEF OneEntryPerMember
    <3> QED
      BY <3>3, <3>4 DEF MembersInv
  <2> QED
    BY <2>3, <2>4, <2>5, <2>6, ListChanges DEF q
<1> QED
  BY <1>1, <1>2, ChannelFrame

(* handleQuit takes the client it frees out of every channel.              *)
LEMMA QuitKeepsMembersInv ==
  ASSUME ConnInv, ChanTypeOK, MembersInv, NEW s \in Fds, NEW p \in Addrs, HandleQuit(s, p)
  PROVE  MembersInv'
<1> DEFINE q == GetClient(s)
<1>1. /\ q \in Addrs /\ client[q].fd = s /\ live' = live \ {q} /\ server = "up"
      /\ \A a \in Addrs : a # q => client'[a] = client[a]
  BY QuitEffect DEF ConnInv, ObjectsInv
<1>2. members' = [ch \in Chans |-> WithoutMember(ch, s)]
  BY <1>1 DEF HandleQuit, QuitClient
<1> HIDE DEF q
<1>3. \A ch \in Chans, a \in Addrs :
        members'[ch][a] = IF client[a].fd = s THEN 0 ELSE members[ch][a]
  BY <1>2, WithoutMemberType
<1>4. \A ch \in Chans, a \in Addrs : members[ch][a] \in Nat
  BY DEF ChanTypeOK
<1>5. \A ch \in Chans, a \in Addrs :
        members'[ch][a] > 0 => a # q /\ members[ch][a] > 0
  BY <1>1, <1>3, <1>4
<1>6. MembersAreLive'
  BY <1>1, <1>5 DEF MembersInv, MembersAreLive
<1>7. OneEntryPerMember'
  BY <1>1, <1>3, <1>4, <1>5 DEF MembersInv, OneEntryPerMember
<1> QED
  BY <1>6, <1>7 DEF MembersInv

(* Every step of the server keeps what holds of the client lists.          *)
LEMMA NextKeepsMembersInv ==
  ConnInv /\ ChanTypeOK /\ MembersInv /\ CopiesApart /\ CopiesApart' /\ [Next]_vars
    => MembersInv'
<1> SUFFICES ASSUME ConnInv, ChanTypeOK, MembersInv, CopiesApart, CopiesApart', [Next]_vars
             PROVE  MembersInv'
  OBVIOUS
<1>1. ASSUME NEW s \in Fds, NEW a \in Addrs, AcceptClient(s, a) PROVE MembersInv'
  <2>1. /\ server = "up" /\ a \notin live /\ live' = live \cup {a} /\ members' = members
        /\ \A b \in Addrs : b # a => client'[b] = client[b]
    BY <1>1, AcceptEffect DEF AcceptClient, chanVars, ConnInv, ObjectsInv
  <2>2. \A ch \in Chans, b \in Addrs : members[ch][b] > 0 => b # a
    BY <2>1 DEF MembersInv, MembersAreLive
  <2> QED
    BY <2>1, <2>2, SameMembers
<1>2. CASE (\E s \in Fds : Disconnect(s)) \/ UNCHANGED vars
  <2>1. UNCHANGED << server, live, client, members >>
    BY <1>2 DEF Disconnect, vars, connVars, chanVars
  <2> QED
    BY <2>1, SameMembers
<1>3. ASSUME NEW s \in Fds, NEW p \in Addrs, HandleQuit(s, p) PROVE MembersInv'
  BY <1>3, QuitKeepsMembersInv
<1>4. ASSUME NEW s \in Fds, NEW p \in Addrs, NEW objects, server' = "up",
             Effect(s, p, objects), Quiet(s, p, objects), members' = members
      PROVE  MembersInv'
  BY <1>4, QuietFrame, SameMembers DEF MembersInv, MembersAreLive
<1>5. ASSUME NEW how, Crash(how), how \in Ends PROVE MembersInv'
  <2>1. server' # "up" /\ client' = client /\ members' = members
    BY <1>5 DEF Crash, connVars, chanVars, Ends
  <2> QED
    BY <2>1, SameMembers
<1>6. CASE RunCommand
  <2> PICK s \in Fds, p \in Addrs :
         \/ Register(s, p)
         \/ OtherCommand(s, p)
         \/ \E ch \in Chans : UseChannel(s, p, ch)
         \/ \E hasText \in BOOLEAN : HandlePrivmsg(s, p, hasText)
    BY <1>6 DEF RunCommand
  <2>1. ObjectsInv
    BY DEF ConnInv
  <2>2. CASE Register(s, p) \/ OtherCommand(s, p)
    <3>1. CASE Crash("null_deref")
      BY <1>5, <3>1 DEF Ends
    <3>2. ASSUME NEW objects, Registers(s, p, objects) PROVE MembersInv'
      <4>1. /\ Effect(s, p, objects) /\ Quiet(s, p, objects) /\ members' = members
            /\ server' = "up"
        BY <3>2 DEF Registers, chanVars, Effect, Command
      <4> QED
        BY <1>4, <4>1
    <3> QED
      BY <2>1, <2>2, <3>1, <3>2, RegistrationEffect
  <2>3. ASSUME NEW ch \in Chans, UseChannel(s, p, ch) PROVE MembersInv'
    BY <2>3, ChannelKeepsMembersInv
  <2>4. CASE \E hasText \in BOOLEAN : HandlePrivmsg(s, p, hasText)
    <3>1. CASE Crash("uncaught")
      BY <1>5, <3>1 DEF Ends
    <3>2. CASE Command(s, p) /\ Refuse(s, p)
      <4>1. /\ Effect(s, p, client) /\ Quiet(s, p, client) /\ members' = members
            /\ server' = "up"
        BY <2>1, <3>2, DoneEffect DEF Refuse, chanVars, Command, Done, tableVars
      <4> QED
        BY <1>4, <4>1
    <3> QED
      BY <2>4, <3>1, <3>2 DEF HandlePrivmsg, LoggedCommand
  <2> QED
    BY <2>2, <2>3, <2>4
<1>7. CASE Signal
  <2>1. server' # "up" /\ client' = client /\ members' = members
    BY <1>7, SignalEffect DEF Signal, SignalHandler, Hangup, Crash, chanVars, ConnInv, ObjectsInv
  <2> QED
    BY <2>1, SameMembers
<1> QED
  BY <1>1, <1>2, <1>3, <1>6, <1>7 DEF Next, Connect, Leave

-----------------------------------------------------------------------------
(* The blocks of the operators.  Whatever gives a block back that the table*)
(* points to leaves them alone.                                            *)
LEMMA NextKeepsCopiesAreHeld ==
  ConnInv /\ ListsInv /\ CopiesAreHeld /\ CopiesApart /\ [Next]_vars => CopiesAreHeld'
<1> SUFFICES ASSUME ConnInv, ListsInv, CopiesAreHeld, CopiesApart, [Next]_vars
             PROVE  CopiesAreHeld'
  OBVIOUS
<1>1. ConnTypeOK /\ ChanTypeOK
  BY DEF ConnInv, ObjectsInv, ListsInv
<1>2. ASSUME copy' = copy, \A a \in held : a \in held' \/ a \in Range(clients)
      PROVE  CopiesAreHeld'
  BY <1>2 DEF CopiesAreHeld, CopiesApart
<1>3. ASSUME UNCHANGED << copy, held >> PROVE CopiesAreHeld'
  BY <1>3 DEF CopiesAreHeld
<1>4. ASSUME NEW s \in Fds, NEW p \in Addrs, HandleQuit(s, p) PROVE CopiesAreHeld'
  BY <1>1, <1>2, <1>4, QuitEffect DEF HandleQuit, QuitClient
<1>5. CASE Signal
  <2>1. CASE SignalHandler /\ FreesOnce
    <3>1. copy' = copy /\ held' = held \ {clients[i] : i \in ClosedEntries}
      BY <2>1 DEF SignalHandler
    <3>2. \A i \in ClosedEntries : clients[i] \in Range(clients)
      BY DEF ClosedEntries, Range
    <3> QED
      BY <1>2, <3>1, <3>2
  <2> QED
    BY <1>3, <1>5, <2>1 DEF Signal, SignalHandler, Hangup, Crash, chanVars, adminVars
<1>6. ASSUME NEW q, NEW a \in Addrs, NEW ch \in Chans, NEW k, CreateChannel(q, a, ch, k)
      PROVE  CopiesAreHeld'
  <2>1. /\ a \notin held /\ held' = held \cup {a}
        /\ copy' = [copy EXCEPT ![ch] = a]
    BY <1>6 DEF CreateChannel
  <2>2. copy'[ch] = a /\ \A c \in Chans : c # ch => copy'[c] = copy[c]
    BY <1>1, <2>1 DEF ChanTypeOK
  <2> QED
    BY <2>1, <2>2 DEF CopiesAreHeld
<1>7. ASSUME NEW ch \in Chans, NEW f, NEW on \in BOOLEAN, SetOperator(ch, f, on)
      PROVE  CopiesAreHeld'
  <2>1. /\ copy' = [copy EXCEPT ![ch] = NULL]
        /\ held' = held \ {copy[ch]} \/ held' = held
    BY <1>7 DEF SetOperator, Deleted
  <2>2. copy'[ch] = NULL /\ \A c \in Chans : c # ch => copy'[c] = copy[c]
    BY <1>1, <2>1 DEF ChanTypeOK
  <2> QED
    BY <2>1, <2>2 DEF CopiesAreHeld
<1>8. ASSUME NEW s \in Fds, NEW p \in Addrs, NEW ch \in Chans, UseChannel(s, p, ch)
      PROVE  CopiesAreHeld'
  <2>1. ASSUME NEW k, HandleJoin(s, p, ch, k) PROVE CopiesAreHeld'
    BY <1>3, <1>6, <2>1 DEF HandleJoin, EnterChannel, Refuse, chanVars, adminVars
  <2>2. ASSUME NEW t, HandleTopic(s, p, ch, t) PROVE CopiesAreHeld'
    BY <1>3, <2>2 DEF HandleTopic, chanVars, adminVars
  <2>3. ASSUME NEW n, HandleKick(s, p, ch, n) \/ HandleInvite(s, p, n, ch) PROVE CopiesAreHeld'
    BY <1>3, <2>3 DEF HandleKick, HandleInvite, chanVars, adminVars
  <2>4. ASSUME HandleMode(s, p, ch) PROVE CopiesAreHeld'
    <3>1. ASSUME NEW n \in Nicks, NEW on \in BOOLEAN, ModeOperator(s, p, ch, n, on)
          PROVE  CopiesAreHeld'
      BY <1>3, <1>7, <3>1 DEF ModeOperator, Refuse, Crash, chanVars, adminVars
    <3>2. CASE ~\E n \in Nicks, on \in BOOLEAN : ModeOperator(s, p, ch, n, on)
      <4>1. UNCHANGED << copy, held >>
        BY <2>4, <3>2 DEF HandleMode, ModeCrash, ModeRefused, ModeFlag, ModeKey, ModeLimit,
           Set, Refuse, Crash, chanVars, adminVars
      <4> QED
        BY <1>3, <4>1
    <3> QED
      BY <3>1, <3>2
  <2> QED
    BY <1>8, <2>1, <2>2, <2>3, <2>4 DEF UseChannel, ManageChannel
<1>9. CASE RunCommand
  <2> PICK s \in Fds, p \in Addrs :
         \/ Register(s, p)
         \/ OtherCommand(s, p)
         \/ \E ch \in Chans : UseChannel(s, p, ch)
         \/ \E hasText \in BOOLEAN : HandlePrivmsg(s, p, hasText)
    BY <1>9 DEF RunCommand
  <2>1. CASE Register(s, p) \/ OtherCommand(s, p)
    <3>1. UNCHANGED chanVars
      BY <2>1, RegistrationEffect DEF Registers, Crash, ConnInv
    <3> QED
      BY <1>3, <3>1 DEF chanVars, adminVars
  <2>2. CASE \E hasText \in BOOLEAN : HandlePrivmsg(s, p, hasText)
    BY <1>3, <2>2 DEF HandlePrivmsg, Refuse, Crash, chanVars, adminVars
  <2> QED
    BY <1>8, <2>1, <2>2
<1>10. CASE Connect \/ (\E s \in Fds : Disconnect(s)) \/ UNCHANGED vars
  BY <1>3, <1>10 DEF Connect, AcceptClient, Disconnect, vars, chanVars, adminVars
<1> QED
  BY <1>4, <1>5, <1>9, <1>10 DEF Next, Leave

-----------------------------------------------------------------------------
(* Both invariants hold at first: there is no channel.                     *)
LEMMA InitIInv == Init => IInv
<1> SUFFICES ASSUME Init PROVE ChanInv
  BY InitConnInv DEF IInv
<1>1. \A ch \in Chans : settings[ch] = NewChannel(NULL, FALSE)
  BY DEF Init
<1>2. NewChannel(NULL, FALSE) \in ChannelSettings
  BY DEF NewChannel, ChannelSettings
<1>3. ChanTypeOK
  BY <1>2 DEF Init, ChanTypeOK
<1> QED
  BY <1>3 DEF Init, ChanInv, ListsInv, MembersAreLive, OneEntryPerMember, OneEntryPerAdmin,
     ModesHaveArguments, CopiesAreHeld, Operators

(* Every step of the server that leaves the copies apart preserves both.   *)
LEMMA NextKeepsIInv == IInv /\ CopiesApart /\ CopiesApart' /\ [Next]_vars => IInv'
<1> SUFFICES ASSUME IInv, CopiesApart, CopiesApart', [Next]_vars PROVE IInv'
  OBVIOUS
<1>1. ConnInv /\ ObjectsInv /\ ListsInv /\ ChanTypeOK /\ MembersInv /\ CopiesAreHeld
  BY DEF IInv, ConnInv, ChanInv, ListsInv, MembersInv
<1> QED
  BY <1>1, NextKeepsConnInv, NextKeepsListsInv, NextKeepsMembersInv, NextKeepsCopiesAreHeld
     DEF IInv, ChanInv, MembersInv

(***************************************************************************)
(* The inductive invariant holds of every reachable state of the server, as*)
(* long as no operator has been copied to a block the table points to.     *)
(***************************************************************************)
THEOREM Invariance == Spec /\ []CopiesApart => []IInv
<1>1. Init => IInv
  BY InitIInv
<1>2. IInv /\ CopiesApart /\ CopiesApart' /\ [Next]_vars => IInv'
  BY NextKeepsIInv
<1> QED
  BY <1>1, <1>2, PTL DEF Spec

(* Every variable keeps its type.                                          *)
THEOREM TypeCorrect == Spec => []TypeOK
<1>1. BaseInv => TypeOK
  BY DEF BaseInv, ObjectsInv, ListsInv, TypeOK
<1> QED
  BY <1>1, BaseInvariance, PTL

(***************************************************************************)
(* With the copies apart, handleConnection always finds a Client, allocated*)
(* and in the table, for an open socket.                                   *)
(***************************************************************************)
THEOREM SocketsHaveClients == Spec /\ []CopiesApart => []OpenSocketHasClient
<1>1. IInv => OpenSocketHasClient
  BY DEF IInv, ConnInv, ObjectsInv, ConnectedAreLive, LiveAreListed, OpenSocketHasClient
<1> QED
  BY <1>1, Invariance, PTL

(***************************************************************************)
(* The check after each command, over all the interleavings of PASS, NICK  *)
(* and USER, logs in exactly the clients that have given all three.        *)
(***************************************************************************)
THEOREM LoginIsExact == Spec => []LoggedIffRegistered
<1>1. BaseInv => LoggedIffRegistered
  BY DEF BaseInv, ObjectsInv
<1> QED
  BY <1>1, BaseInvariance, PTL

(* The two ways a nickname is set, at once or by PASS, give none out twice.*)
THEOREM NicksAreUnique == Spec => []UniqueNicks
<1>1. BaseInv => UniqueNicks
  BY DEF BaseInv, ObjectsInv
<1> QED
  BY <1>1, BaseInvariance, PTL

(* With the copies apart, no channel keeps a pointer to a Client that      *)
(* handleQuit has deleted.                                                 *)
THEOREM NoDanglingMember == Spec /\ []CopiesApart => []MembersAreLive
<1>1. IInv => MembersAreLive
  BY DEF IInv, ChanInv
<1> QED
  BY <1>1, Invariance, PTL

(* With the copies apart, a channel lists a client and a socket once.      *)
THEOREM ListsAreSets == Spec /\ []CopiesApart => []OneEntryPerMember
<1>1. IInv => OneEntryPerMember
  BY DEF IInv, ChanInv
<1> QED
  BY <1>1, Invariance, PTL

(* An operator is listed once, so that one MODE -o takes the rights away,  *)
(* wherever its copy is.                                                   *)
THEOREM OperatorsAreListedOnce == Spec => []OneEntryPerAdmin
<1>1. BaseInv => OneEntryPerAdmin
  BY DEF BaseInv, ListsInv
<1> QED
  BY <1>1, BaseInvariance, PTL

(* JOIN compares with no limit and no password that was never set.         *)
THEOREM ModesAreComplete == Spec => []ModesHaveArguments
<1>1. BaseInv => ModesHaveArguments
  BY DEF BaseInv, ListsInv
<1> QED
  BY <1>1, BaseInvariance, PTL
=============================================================================
