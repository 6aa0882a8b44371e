----------------------------- MODULE MCChannels -----------------------------
(***************************************************************************)
(* The channel commands, from a state the server reaches once two clients  *)
(* have connected and each has sent the password, a nickname and a user    *)
(* name.  ChannelSpec registers no other client: a socket that connects    *)
(* again leads to the old Client, or to one that is not logged in.         *)
(***************************************************************************)
EXTENDS IrcServer, TLC

CONSTANTS First, Second, FirstNick, SecondNick

LoggedIn(s, n) ==
  [NewClient(s) EXCEPT !.nick = n, !.user = TRUE, !.pswd = TRUE, !.logged = TRUE]

RegisteredInit ==
  /\ server = "up"
  /\ firstConnexion = FALSE
  /\ clients = << First, First, Second, Second >>
  /\ live = {First, Second}
  /\ client = [a \in Addrs |-> CASE a = First -> LoggedIn(4, FirstNick)
                                 [] a = Second -> LoggedIn(5, SecondNick)
                                 [] OTHER -> NewClient(NULL)]
  /\ conn = [s \in Fds |-> CASE s = 4 -> First [] s = 5 -> Second [] OTHER -> NULL]
  /\ handling = NULL
  /\ channels = {}
  /\ members = [ch \in Chans |-> [a \in Addrs |-> 0]]
  /\ admins = [ch \in Chans |-> [n \in Numbers |-> 0]]
  /\ copy = [ch \in Chans |-> NULL]
  /\ held = {}
  /\ invited = [ch \in Chans |-> {}]
  /\ settings = [ch \in Chans |-> NewChannel(NULL, FALSE)]

ChannelCommand ==
  \E s \in Fds, p \in Addrs :
    \/ OtherCommand(s, p)
    \/ \E ch \in Chans : ManageChannel(s, p, ch)
    \/ \E hasText \in BOOLEAN : HandlePrivmsg(s, p, hasText)

Join ==
  \E s \in Fds, p \in Addrs, ch \in Chans, k \in Keys \cup {NULL} : HandleJoin(s, p, ch, k)

ChannelNext == Connect \/ Leave \/ ChannelCommand \/ Join \/ Signal

ChannelSpec == RegisteredInit /\ [][ChannelNext]_vars

(* When no channel is created on a block the table points to.              *)
JoinApart(s, p, ch, k) == HandleJoin(s, p, ch, k) /\ CopiesApart'

ApartNext ==
  \/ Connect \/ Leave \/ ChannelCommand \/ Signal
  \/ \E s \in Fds, p \in Addrs, ch \in Chans, k \in Keys \cup {NULL} : JoinApart(s, p, ch, k)

ChannelApart == RegisteredInit /\ [][ApartNext]_vars

(***************************************************************************)
(* What later steps depend on.  Of a block that is free, or that neither   *)
(* the table nor a call of handleConnection points to, no more is read than*)
(* the number and the nickname; and nothing reads topicOp, which the       *)
(* constructor of Channel leaves unset.                                    *)
(***************************************************************************)
Memory ==
  LET used == Range(clients) \cap (live \cup held)
      handled == IF handling = NULL THEN {} ELSE {handling[2]} IN
  [a \in Addrs |->
     IF a \in used \cup handled THEN client[a]
       ELSE [NewClient(client[a].fd) EXCEPT
               !.nick = IF a \in Range(clients) THEN client[a].nick ELSE NULL]]

Remembered ==
  << server, firstConnexion, live, Memory, conn, clients, handling, channels, members,
     adminVars, invited, [ch \in Chans |-> [settings[ch] EXCEPT !.topicOp = FALSE]] >>

(* The addresses that RegisteredInit does not name.                        *)
AddrSymmetry == Permutations(Addrs \ {First, Second})
=============================================================================
