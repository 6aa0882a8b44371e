----------------------------- MODULE MCOrderly -----------------------------
(***************************************************************************)
(* A server whose clients all leave with QUIT: no connection ends on its   *)
(* own, and no operator is copied to a block the table still points to.    *)
(* It starts where two clients have registered, and more may do so.  The   *)
(* commands are those the client lists of the channels depend on and those *)
(* that send messages: registration, JOIN, KICK, TOPIC without a new topic,*)
(* PRIVMSG and INVITE.                                                     *)
(***************************************************************************)
EXTENDS MCChannels, Deliveries

(* Registration with a nickname that checkNick accepts, a user name and the*)
(* right password.                                                         *)
Enroll(s, p) ==
  \/ HandlePass(s, p, TRUE)
  \/ \E n \in Nicks : HandleNick(s, p, n)
  \/ HandleUser(s, p, TRUE)

Silent ==
  /\ \/ Connect
     \/ Signal
     \/ \E s \in Fds, p \in Addrs :
          Enroll(s, p) \/ \E ch \in Chans : JoinApart(s, p, ch, NULL)
  /\ mail' = {}

OrderlyInit == RegisteredInit /\ mail = {}

OrderlyNext == Silent \/ ChannelMail \/ PersonalMail \/ Quits

OrderlySpec == OrderlyInit /\ [][OrderlyNext]_<< vars, mail >>

(***************************************************************************)
(* Of that, without MODE nobody asks for an invitation, and the settings of*)
(* a channel stay what they are.  The messages are those of the last step. *)
(***************************************************************************)
RememberedQuietly ==
  << server, firstConnexion, live, Memory, conn, clients, handling, channels, members,
     adminVars >>

Interchangeable == Permutations(Chans) \cup AddrSymmetry
=============================================================================
