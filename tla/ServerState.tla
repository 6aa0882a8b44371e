---------------------------- MODULE ServerState ----------------------------
(***************************************************************************)
(* The state of the IRC server and the lookups every handler starts with.  *)
(*                                                                         *)
(* The server is one thread: Server::run waits in epoll and runs one       *)
(* handler after the other.  Its state is the Client objects it allocated, *)
(* the vector of pointers to them, the channels, and one flag,             *)
(* firstConnexion, that all the connections share.  Objects are reached    *)
(* through pointers, some of which outlive the object, so that the heap is *)
(* part of the model.  It consists of the blocks of the size of a Client:  *)
(* each is free, or a Client (`live'), or the first buffer of the vector   *)
(* of operators of a channel (`held'), which has room for just one copy.   *)
(***************************************************************************)
EXTENDS Naturals, Sequences, FiniteSets, SequencesExt

CONSTANTS
  Fds,      (* Socket numbers the kernel can hand out.  A bound.           *)
  Addrs,    (* The blocks of the size of a Client.  A bound.               *)
  Nicks,    (* Nicknames checkNick accepts.                                *)
  BadNick,  (* Stands for every nickname checkNick rejects.                *)
  Chans,    (* Channel names, each with its leading '#'.                   *)
  Keys,     (* Channel passwords.                                          *)
  Topics,   (* Non-empty topics.                                           *)
  Limits,   (* Client limits that MODE +l can parse.                       *)
  BadLimit, (* Stands for every argument of MODE +l that is no number.      *)
  NULL,     (* A null pointer, an empty string, an unset or garbage value. *)
  MaxTable  (* Bound on the length of Server::clients.                     *)

ASSUME ConstantsAssumption ==
  /\ Fds \subseteq Nat
  /\ Limits \subseteq Nat
  /\ MaxTable \in Nat
  /\ BadNick \notin Nicks
  /\ NULL \notin Fds \cup Addrs \cup Nicks \cup {BadNick}
  /\ NULL \notin Keys \cup Topics \cup Nat \cup {BadLimit}
  /\ BadLimit \notin Nat

VARIABLES
  server,         (* "up", or the way the process ended.                  *)
  firstConnexion, (* Server::firstConnexion.                              *)
  clients,        (* Server::clients, a vector of Client pointers.        *)
  live,           (* The blocks that `new Client' has allocated.          *)
  client,         (* What each block holds.                               *)
  conn,           (* Open sockets: the Client accepted on them, or NULL.  *)
  handling,       (* <<socket, client>> of the handleConnection call that *)
                  (* has commands left to run after a QUIT, or NULL.      *)
  channels,       (* Server::channels: the names of those created.        *)
  members,        (* Channel::clients: how many entries point to a Client.*)
  admins,         (* Channel::admins: how many copies carry a socket,     *)
                  (* where they are not in one of the blocks.             *)
  copy,           (* The block the only operator of a channel is in, NULL *)
                  (* when there is none or they are elsewhere.            *)
  held,           (* The blocks allocated for an operator, by now perhaps *)
                  (* without one.                                         *)
  invited,        (* Channel::invitedClients: addresses, never read       *)
                  (* through.                                             *)
  settings        (* The modes, password, limit and topic of a Channel.   *)

connVars == << live, client, conn, clients >>
adminVars == << admins, copy, held >>
chanVars == << channels, members, adminVars, invited, settings >>
vars == << server, firstConnexion, connVars, handling, chanVars >>

(* What a fd can be: a socket number, or the link of a free block.         *)
Numbers == Fds \cup {NULL}

Ends == {"stopped", "hangup", "null_deref", "uncaught", "double_free"}

ClientRecord ==
  [fd : Numbers, nick : Nicks \cup {NULL}, user : BOOLEAN,
   tmpNick : Nicks \cup {BadNick, NULL}, tmpUser : BOOLEAN,
   pswd : BOOLEAN, logged : BOOLEAN]

ChannelSettings ==
  [inviteOnly : BOOLEAN, topicOp : BOOLEAN, keyed : BOOLEAN,
   limited : BOOLEAN, key : Keys \cup {NULL}, limit : Nat \cup {NULL},
   topic : Topics \cup {NULL}]

(***************************************************************************)
(* Objects as their constructors and creators leave them.  `user' and      *)
(* `tmpUser' say whether a user name is there: nothing reads its text.     *)
(* modeTopicOp and limit are not initialised by the constructor of Channel:*)
(* the first is then any Boolean, the second NULL until it is set.         *)
(***************************************************************************)
NewClient(s) ==
  [fd |-> s, nick |-> NULL, user |-> FALSE, tmpNick |-> NULL,
   tmpUser |-> FALSE, pswd |-> FALSE, logged |-> FALSE]

NewChannel(k, garbage) ==
  [inviteOnly |-> FALSE, topicOp |-> garbage, keyed |-> k # NULL,
   limited |-> FALSE, key |-> k, limit |-> NULL, topic |-> NULL]

Init ==
  /\ server = "up"
  /\ firstConnexion = TRUE
  /\ clients = << >>
  /\ live = {}
  /\ client = [a \in Addrs |-> NewClient(NULL)]
  /\ conn = [s \in Fds |-> NULL]
  /\ handling = NULL
  /\ channels = {}
  /\ members = [ch \in Chans |-> [a \in Addrs |-> 0]]
  /\ admins = [ch \in Chans |-> [n \in Numbers |-> 0]]
  /\ copy = [ch \in Chans |-> NULL]
  /\ held = {}
  /\ invited = [ch \in Chans |-> {}]
  /\ settings = [ch \in Chans |-> NewChannel(NULL, FALSE)]

-----------------------------------------------------------------------------
(***************************************************************************)
(* The lookups scan Server::clients from its front and return the first    *)
(* pointer whose object matches.  A freed object is still scanned.  While  *)
(* its block is free the fd is the allocator's link, which is no socket,   *)
(* and the nickname the empty one handleQuit leaves; but once an operator  *)
(* has been copied to it, it matches what the operator does.               *)
(***************************************************************************)
FirstOf(hits) == IF hits = {} THEN NULL ELSE clients[Min(hits)]

(* getClient(s) on what the memory holds by the end of a handler.          *)
Found(objects, s) == FirstOf({i \in DOMAIN clients : objects[clients[i]].fd = s})

GetClient(s) == Found(client, s)

GetClientByNick(n) ==
  FirstOf({i \in DOMAIN clients : client[clients[i]].nick = n})

IsNewClient(s) == \A a \in Range(clients) : client[a].fd # s

(***************************************************************************)
(* The copies in Channel::admins, by number.  addAdmin allocates a block   *)
(* for the first of them, which a second makes push_back give back: until  *)
(* then its number is what that block holds.                               *)
(***************************************************************************)
Operators(ch) ==
  IF copy[ch] = NULL
    THEN admins[ch]
    ELSE [n \in Numbers |-> IF client[copy[ch]].fd = n THEN 1 ELSE 0]

(* Channel::isClient and Channel::isAdmin compare socket numbers.          *)
IsMember(ch, s) == \E a \in Addrs : members[ch][a] > 0 /\ client[a].fd = s

IsAdmin(ch, s) == Operators(ch)[s] > 0

(* Channel::removeClient drops every entry whose client has the socket.    *)
WithoutMember(ch, s) ==
  [a \in Addrs |-> IF client[a].fd = s THEN 0 ELSE members[ch][a]]

-----------------------------------------------------------------------------
(* A block goes back to the allocator, be it a Client or an operator.      *)
Deleted(a) ==
  /\ live' = live \ {a}
  /\ held' = held \ {a}

(***************************************************************************)
(* One command of one connection.  handleConnection looks its Client up    *)
(* once, p, and then runs the commands it received; each handler looks the *)
(* client up again.  As long as they are the same and the socket is open, a*)
(* further command of the same call behaves as one of a later call.  After *)
(* a QUIT the call goes on with a pointer to a freed object, and after a   *)
(* JOIN that puts an operator in front of p with another one than its      *)
(* handlers find; no other event comes in between: `handling'.             *)
(***************************************************************************)
Command(s, p) ==
  /\ server = "up"
  /\ IF handling = NULL
       THEN conn[s] # NULL /\ p = GetClient(s) /\ p # NULL
       ELSE handling = <<s, p>>

(* A slip: a dispatch that runs every command for every client.            *)
LoggedCommandOpen(s, p) == Command(s, p)

(* A command that the dispatch runs for an authenticated client only.      *)
LoggedCommand(s, p) == Command(s, p) /\ client[p].logged

(* A slip: an authenticateClient that does not ask for the password.       *)
AuthenticatedUnasked(objects, q) ==
  IF q # NULL /\ objects[q].nick # NULL /\ objects[q].user
    THEN [objects EXCEPT ![q].logged = TRUE]
    ELSE objects

(* authenticateClient, called after every command but QUIT for the client  *)
(* the socket then leads to.                                               *)
Authenticated(objects, q) ==
  IF q # NULL /\ objects[q].nick # NULL /\ objects[q].user /\ objects[q].pswd
    THEN [objects EXCEPT ![q].logged = TRUE]
    ELSE objects

EndCommand(s, p, objects) ==
  /\ client' = Authenticated(objects, Found(objects, s))
  /\ handling' \in IF conn[s] # NULL /\ Found(objects, s) = p
                    THEN {NULL} ELSE {NULL, <<s, p>>}

(* The process dies in the middle of a handler.                            *)
Crash(how) ==
  /\ server' = how
  /\ UNCHANGED << firstConnexion, connVars, handling, chanVars >>
=============================================================================
