# A verification development of the IRC server

The program is a small IRC server in C++98 (`srcs/`, `inc/`, about 2000 lines):
one process, one thread, `epoll` and non-blocking sockets. It has no tests; the
only document is `todolist.txt`. This directory holds TLA+ modules that model
its state, its handlers and its event loop, TLC configurations that check them
on small instances, and proofs of the main properties for every instance.

## 1. The system

| Part | State | Operations | Where |
|---|---|---|---|
| Event loop | `epoll_fd`, `events` | `run`: up to MAX_EVENTS events of `epoll_wait`, one handler after the other | `Server.cpp:266-290` |
| Client table | `Server::clients` (pointers), `Client` objects | `acceptClient`, `getClient` by socket or nickname, `isNewClient`, `removeClient` | `Server.cpp:46-62, 141-193, 467-489` |
| Connections | open sockets | `acceptClient`, QUIT, end of a connection | `Server.cpp:292-444`, `cmd.cpp:298-333` |
| Line framing | `partial_data[socket]` | cut the bytes received into commands | `Server.cpp:300-336` |
| Dispatch | the `Client*` looked up at the start of a call | which handler runs, who must be logged in | `Server.cpp:338-430` |
| Registration | `firstConnexion` (one flag for all), pending and set names, `pswd_entered`, `logged_in` | PASS, NICK, USER, `authenticateClient` | `cmd.cpp:17-125`, `Server.cpp:119-139` |
| Channels | `Server::channels`; per channel the client list (pointers), the operators (copies of clients), the invitations (pointers), modes, password, limit, topic | JOIN, TOPIC, KICK, INVITE, MODE, PRIVMSG | `cmd.cpp:127-296, 360-734`, `Channel.cpp` |
| Delivery | - (addresses a message to socket numbers) | `broadcastMessage`, `send` of a PRIVMSG and an INVITE | `Channel.cpp:168-181`, `cmd.cpp:298-333, 490-734` |
| Shutdown | - | `signal_handler`, `closing_sockets` | `signal.cpp`, `Server.cpp:446-461` |

The parts interact by plain calls on shared, unprotected state. What makes the
server hard is therefore not threads but *lifetimes and identities*. A client
is known under four of them: its socket number (which the kernel reuses), the
address of its object (which the allocator reuses, also for something else), its
nickname, and the copy of the object a channel keeps for an operator. Each list
uses another one:

* the table has **two** pointers to each client (`Server.cpp:191-192`); QUIT
  erases the first and deletes the object, so the other dangles for good, and
  every later lookup reads freed memory on its way;
* a connection that ends without QUIT only loses its socket
  (`Server.cpp:431-434`): its client, nickname, login and memberships stay and
  answer for whoever gets the socket number next;
* the operators of a channel are a `std::vector<Client>` (`Channel.hpp:23`), whose
  first buffer has the size of one `Client`: the JOIN that creates a channel asks the
  allocator for such a block (`cmd.cpp:395`, `Channel.cpp:115`) and may be given the
  one QUIT has just freed, to which the table still has a pointer. From then on the
  lookups find the operator's copy there, in front of the client it was made of, and
  the next QUIT of that client deletes the copy. A second operator makes the vector
  give the block back, whatever it has become;
* client lists hold pointers but are compared by socket number; operators are
  copies compared by socket number and never removed on KICK or QUIT;
  invitations are addresses and outlive what they point to;
* `firstConnexion` belongs to the server, though it means "this client has not
  sent PASS yet";
* a call of `handleConnection` goes on with the pointer it looked up before a
  QUIT among its commands;
* `partial_data` is kept by socket number and never cleared, `epoll` knows
  nothing of it, and the events left of a batch are handled after others have
  closed and accepted sockets.

What makes each part correct:

* *client table*: an open socket has an allocated client in the table, whatever
  dangles, and leads to it; one client per nickname; a QUIT frees the client whose
  connection it closes;
* *registration*: logged in exactly with password, nickname and user name; no
  client is changed by the commands of another; the right password completes a
  login;
* *channels*: no pointer to a freed client; one entry per client, so that the
  limit counts and one MODE -o is enough; operators come from members; nobody
  enters past the modes; a mode that is on has its argument;
* *loop and framing*: every line a client sends becomes a command, whole, once
  and in order, however `recv` cuts the bytes; nobody waits for ever, however
  busy the others keep the server; no event is stale when it is handled;
* *delivery*: a message reaches the clients it is for, once, and nobody else;
  nobody leaves a channel unannounced;
* *shutdown*: every socket closed and every client freed, once.

`PROJECT.json` lists every hazard with its line and the properties for it.

## 2. Modules

The server is modelled twice, at two levels of detail that meet in
`handleConnection`. `IrcServer` has the commands with all they do to clients
and channels, one atomic action each. `EventLoop` has the events, the bytes and
the order in which commands run, and keeps of a command only whether it is QUIT.

    ServerState         variables, Init, lookups, authentication, batches
      |- Connections        accept, QUIT, disconnection, signals
      |- Registration       PASS, NICK, USER, any other command
      '- ChannelCommands    JOIN, TOPIC, KICK, INVITE, MODE, PRIVMSG
           IrcServer        composes them: Next, Spec, Orderly, and their properties
             |- Deliveries      the same steps with the messages they send
             |                  implements ChatService, for clients that leave with QUIT
             |- Claims          what comments and todolist.txt say, and the code does not do
             |- MCRegistration, MCChannels, MCOrderly, MCClaims      for TLC
             '- ConnectionProofs, ChannelProofs, TableProofs,        for TLAPS
                StepProofs (of Claims too), OrderlyProofs (of Deliveries too)

    ChatService         what the users see: sessions and rooms, an abstract specification

    LineService         what a client may expect of the loop: the abstract specification
      EventLoop             epoll_wait, accept, recv, partial_data, the commands in order;
                            implements LineService
        |- LoopClaims       what a comment says of it, and the code does not do
        '- SequenceLemmas, LoopProofs, EventProofs                   for TLAPS

**State.** `clients` is the vector of pointers, `live` the allocated addresses and
`client` what each address holds, freed ones included; `conn` the open sockets, each
with the client `acceptClient` made for it (history: the code has no such link, it looks
clients up). Of a channel, `members[ch][a]` counts the entries that point to `a`. The
operators are in one of two places: the first one of a channel in the block `copy[ch]`,
whose content is in `client` like that of any other block; once there are more, or one
was removed, in `admins[ch][n]`, which counts the copies with number `n`.
`Operators(ch)` is the count in either case. `held` are the blocks allocated for such a
copy, so that a block is `live`, `held` or free. The code never uses the order of these
lists. `Entries(ch)` are the places of the client list, `Occupancy(ch)` how many there
are. `server` is `"up"` or how the process ended. `user`/`tmpUser` say whether a user
name is there.

**Actions.** One per handler, with its early returns: `AcceptClient`,
`Disconnect`, `HandleQuit`, `HandlePass`, `HandleNick`, `HandleUser`,
`HandleJoin`, `HandleTopic`, `HandleKick`, `HandleInvite`, `HandleMode`,
`HandlePrivmsg`, `OtherCommand` (CAP, OPER, unknown commands, wrong parameter
counts, commands refused before login), `SignalHandler`, `Hangup`. Every command
ends with the call of `authenticateClient` (`EndCommand`). A handler is atomic:
the server has one thread, and nothing runs between the lines of a handler but
the signal handler (see below). `OrderlyStep` and `Orderly` are `Next` and
`Spec` without `Disconnect`: every client leaves with QUIT. `LossyStep` and `Lossy`
are the other half, without QUIT: every connection that ends is dropped.

**CopiesApart** says that no operator's copy is in a block the table points to. It
is no property of the server: the allocator and the order of QUIT, JOIN and accept
decide, and `claim_operator_copy` shows what follows when it fails. Most of what one
would expect of the table is true only until then. So each property of `IrcServer` and
`Deliveries` says whether it holds *always* or *while the copies are apart*:

| always | while the copies are apart |
|---|---|
| `TypeOK`, `LoggedIffRegistered`, `UniqueNicks`, `OneEntryPerAdmin`, `ModesHaveArguments`, `EntriesPaired`, `FreesOnceBeforeQuit`, `EntryRespectsModes`, `DeparturesAreAnnounced` | `OpenSocketHasClient`, `LookupIsStable`, `ChangedByItsSocket`, `CleanStop`, `MembersAreLive`, `OneEntryPerMember`, `OperatorsComeFromMembers`, `SocketLeadsToOwnClient`, `MembersAreConnected`, `ChannelMailIsExact`, `PersonalMailIsExact`, `ActsAsChat` |

The copies stay apart in two cases: without channels, and as long as nobody sends QUIT
(`CopiesApartBeforeQuit`).

**Deliveries** adds `mail`, the messages of the last step. A message has its
command, its target (a channel or a nickname), the client it comes from and, for
each socket, the number of copies sent to it: what `broadcastMessage` makes of
a client list, entry by entry, with the client it spares (`ToChannel`), or one
`send` (`ToClient`). Each `Deliver` action is the handler with what it sends, and
when: QUIT goes out before the client is taken out of the channel. A PRIVMSG with an
empty target (two spaces after the command) goes to the first entry of the table with
an empty nickname. `MailSpec` is the orderly server with its messages.

**ChatService** is what such a server promises its users: who is connected, what
each has given to register, and who is in which channel, without heap, table,
batches or the shared flag. Who may kick whom and whom the modes let in is left open:
`EntryRespectsModes` and `OperatorsComeFromMembers` are about that. `Deliveries`
maps to it: `Online` are the open sockets of a server that is up, the session of a
socket the client accepted on it, the room of a channel the sockets `isClient` finds
in its list. `ActsAsChat` says that every step is one of `ChatService` or shows nothing.
What could break it is all in the code's own state: a lookup that meets a dangling
entry of an earlier user of the number, a JOIN after the QUIT of its batch, a kick
that takes out two entries, a NICK applied late to a name that has been taken, a
channel `handleQuit` passes over.

**EventLoop.** `waiting` is the backlog of the listening socket; `open`, `over` and
`unread` are the sockets, those whose client has closed its end, and the bytes the
kernel holds; `partial` is `partial_data`; `ready` is the kernel's level-triggered
list and `batch` what is left of `events`; `serving` is the socket of the running
`handleConnection` and `commands` its vector. The clients dial, send a byte or
hang up at any moment, also in the middle of a handler. The server's actions are
`Wait` (`epoll_wait`: it drops from the list what has nothing to report and puts
what it returns at the end), `AcceptClient` with its failure when no number is
left, `Receive` (`recv` of at most `BufSize` bytes), `CutCommand` (one turn of the
loop that looks for LF and CR LF), `RunCommand`, `Return` and `Disconnect`. So the
bytes of any client and new connections come between any two steps of one call.

**Batches.** One `recv` may bring several commands. As long as the client found
at the start of the call is in the table, a further command behaves as one of a
later call, so it is one. After a QUIT it does not, nor after a JOIN whose copy is
found in the place of the client: the remaining commands run with the old pointer
and before any other event. `handling` holds the socket and the pointer while such
commands are left.

**Freed memory and uninitialised values.** After `delete` the first word of a `Client`,
where `fd` is, holds the allocator's link: modelled as no socket. `handleQuit` then
empties the nickname of the freed object (`cmd.cpp:329`). `logged_in` of a freed object
is any Boolean. `new` and the vector of operators are given any block that is free, and
what they write there is what a pointer left in the table, a client list or an
invitation then finds (`OperatorCopy`). A copy has no pending names, and its
`pswd_entered` is any Boolean (`Client.cpp:26`). `modeTopicOp` of a new channel is any
Boolean, its `limit` is `NULL`, an unset value. A null pointer that is read ends the
process (`"null_deref"`), and so do an exception nobody catches (`"uncaught"`) and
deleting twice (`"double_free"`).

**Assumptions** (of the model, to be kept in mind with every result):

1. the link of a freed block is never the number of a socket, and of the blocks of
   a `Client`'s size (304 bytes with the image's `ubuntu:20.04` and glibc) only
   `new Client` and the first buffer of a channel's operators are users. Left out are a
   string with a capacity of 296 to 311 bytes, the copy `handleNick` makes of a table of
   38 or 39 entries, and what free blocks become when more than seven wait in tcache;
2. a nickname fits the inline buffer of `std::string`, so that the empty
   nickname written into the freed object is what later reads find;
3. a signal is handled between two handlers, or while the server waits, and not
   in the middle of an operation on a vector or of the allocator;
4. `accept`, `new`, `epoll_ctl` succeed: their failures end the process or
   change nothing. `EventLoop` does have the failure of `accept` for want of a
   number;
5. an argument of `+l` that is no number has value 0 for `atoi`
   (an overflow, undefined for `atoi`, is left out);
6. `send` reaches the connection that has the number, or nobody; that it may cut
   or lose a message for a slow client, which the code ignores, is left out;
7. in `EventLoop` the process is not ended by a signal or a crash.

## 3. Runs

All runs explore the complete state space of their bounds, with
`CHECK_DEADLOCK FALSE`: the server does stop, on a signal or a crash, and the
bound on the table stops the connections.

| Run | Specification and bounds | Shows |
|---|---|---|
| `registration` | `Spec` without channels: 2 sockets, 2 addresses, 2 nicknames, table of 6 | `TypeOK`, `OpenSocketHasClient`, `LoggedIffRegistered`, `UniqueNicks`, `EntriesPaired`, `CleanStop`, `FreesOnceBeforeQuit`, `ChangedByItsSocket` |
| `memberships` | `ChannelApart`: channel commands while the copies are apart; 2 sockets, 4 blocks, 1 channel, table of 6 | `IInv` (the invariant of the proofs), `MembersAreLive`, `OneEntryPerMember`, `OneEntryPerAdmin`, `OperatorsComeFromMembers`, `LookupIsStable` |
| `modes` | `ChannelSpec`: channel commands, copies anywhere; 3 blocks, a password, a topic, a limit of 1 (and 0, by `+l` of no number), table of 4 | `ModesHaveArguments`, `EntryRespectsModes` |
| `orderly` | `OrderlySpec`: every client leaves with QUIT, while the copies are apart; 2 sockets, 4 blocks, 2 channels, table of 5, registration with the right password, all messages | `SocketLeadsToOwnClient`, `MembersAreConnected`, `ChannelMailIsExact`, `PersonalMailIsExact`, `DeparturesAreAnnounced`, `ActsAsChat` |
| `loop` | `EventLoop!Spec`: 2 sockets and the listener, the bytes `Q`, CR, LF one by one, `recv` of 2 and batches of 2, backlog of 2, at most 3 bytes that are no command yet | `ImplementsLineService` (safety and liveness), `EventsAreCurrent`, `NoLineLeftBehind`, `PendingAreReady`, `TypeOK` |

TLC finds 1.2 million distinct states in `registration`, 0.9 million in `memberships`,
290 000 in `modes` and 220 000 in `orderly`.

The bounds: two sockets are what it takes for one client to act between two commands of
another, and for a number to be lower or higher than the one handed out next; the blocks
are those of two clients and of the first operators of the channels, and in `memberships`
one more; a table of six has room for three accepts, that is for a
dropped connection, its successor and a bystander, and, as QUIT shortens it, for more
with dangling entries between them. (`orderly` starts with four entries; five let either
client quit and others connect in its place, again and again, on any free number and
block, with a dangling entry in front of the live ones.) One channel is enough for the
lists of a channel, as no handler but QUIT relates two of them; `orderly` has two,
because there QUIT has to tell each of them and take the client out of each.
`ChannelSpec` starts where two clients have registered, a state `Spec` reaches by ten
commands, and leaves PASS, NICK and USER out, so that its state space is that of the
channels. The runs with reduced specifications cut behaviours and add none. `JoinApart`
cuts just one: the JOIN that copies its operator to a block the table points to. In
`memberships` and `orderly` a freed block is therefore given to an operator only when
QUIT has erased all the entries that led to it, and to a new client at any time.

`loop` has what makes its questions hard: a `recv` of two bytes takes a line with CR
LF in two calls, in every way of cutting it; two sockets and the listener are
one more than a batch holds, so that one of them has to wait and the list has to
rotate; and with two numbers the third client waits for one, whose last user may
have left half a line. `MaxBytes` bounds the bytes of all sockets that are not
yet a command: a client sends when there is room. Three bytes are `Q` CR LF, or a CR
LF and one byte more, on one socket or spread over two.

The runs of the channels use a `VIEW`. `Remembered` leaves out what no later step
reads: of a block that is free, or that neither the table nor a running call points
to, all but its number and nickname, and `topicOp` of a channel. `RememberedQuietly`,
for `orderly`, also leaves out `mail`, `invited` and `settings`: the messages are those of
the last step, and without MODE nobody asks for an invitation and no settings change.
The action properties depend on the view of a state and on the step from it.
Interchangeable are the channels and the blocks `RegisteredInit` does not name, and in
`registration` the nicknames and the blocks; the sockets are numbers, compared by
`accept`. Because `orderly` starts with two clients registered, it checks the steps of
the refinement; that the initial states agree is proved. Its clients register again
after a QUIT, with the right password: what a wrong one does is in `registration`.

`SocketLeadsToOwnClient` and `MembersAreConnected` are false for `Spec`: the
first is the claim `claim_reconnection` refutes. When clients leave with QUIT
they hold in spite of the dangling entries, as long as none of them leads to an
operator's copy. `ChannelMailIsExact` is false with
dropped connections for the same reason: the number of a member that is gone belongs
to somebody else, who then gets what is not for it, or gets it twice. Of a KICK the
property leaves open whether the client that is kicked is told: the code spares it
(`cmd.cpp:602`), though the comments at `cmd.cpp:594` and `601` want "tous les
membres du canal" told.

**Fairness.** `IrcServer` assumes none, its properties are safety. `EventLoop` assumes
`WF_vars(Server)`: the one thread of the server goes on as long as there is a step
to make, which is so because no handler waits for anything (the sockets are not
blocking) and `epoll_wait` returns when something is pending. Nothing is assumed of
the clients, which may stop at any point. From this alone follows the fairness of
`LineService` for *each* socket: every whole line is issued, every command runs, a
connection that has ended is closed, and somebody is accepted when a number is free.
This is where the level-triggered list and its rotation count: with `WaitEdge`,
sockets watched edge-triggered and read once, a client with more than one `recv` of
bytes drops out of the list.

Seven more runs, `claim_*`, refute one statement each of a comment or of
`todolist.txt`; they are the findings of `PROJECT.json`, the counterexamples have
one to six steps.

| Run | What the code does instead |
|---|---|
| `claim_reconnection` | a dropped connection's client answers for the next one on its socket number |
| `claim_shared_flag` | a PASS of another client makes the right PASS forget the noted names |
| `claim_double_free` | after one QUIT, SIGINT deletes a client twice |
| `claim_operator_copy` | an operator's copy in the block of an earlier client answers for the socket; QUIT deletes it, and the client stays, logged in, for the next connection on the number |
| `claim_invitation` | an invitation passes to another client at the same address |
| `claim_old_operator` | a socket number stays operator after QUIT |
| `claim_stale_line` | the rest of an unfinished line precedes the first line of the next connection on the number |

In `claim_shared_flag` every password is right, so that the counterexample is the one
of two clients: a wrong PASS of one's own has the same effect without anybody else,
though its answer says "Veuillez reessayer" (`cmd.cpp:48`). The comment
`claim_stale_line` quotes, "Extraire la commande complète", is read as: a command that
the client of the connection has sent.

More disagreements are in the actions and need no search: `+l` of no number reports an
error and limits the channel to 0 all the same (`cmd.cpp:262-271`, `LimitAfter`); `+o`
of a nickname nobody has ends the server, where `cmd.cpp:154` means to report it
(`ModeOperator`); a PRIVMSG without a text ends it too, where `todolist.txt:35` wants
the text checked (`HandlePrivmsg`); TOPIC and a PRIVMSG to a channel ask for no
membership (`todolist.txt:32` and `35`); a KICK goes to the channel without the client
that is kicked, though `cmd.cpp:594` says "à tous les membres du canal" (`DeliverKick`).

A definition whose comment begins with "A slip" (or "Two slips") is a version of
the one after it with a plausible mistake; it takes part in no specification.
Each property is checked to fail when one of them takes the place of the
original (`PROJECT.json`, "mutants").

## 4. Proofs

The theorems are for every value of the constants that satisfies
`ConstantsAssumption` (the number sets are numbers, `NULL`, `BadNick` and `BadLimit`
are distinct from the values they stand beside). `MaxTable` may be any number: they do
not depend on the bound. There are two layers, as there are two kinds of properties.

*Always*: `BaseInv` is inductive as it stands, whatever blocks the allocator hands out
(`BaseInvariance`, `Spec => []BaseInv`), and gives `TypeCorrect`, `LoginIsExact`,
`NicksAreUnique`, `OperatorsAreListedOnce` and `ModesAreComplete`. Logins and nicknames
survive the copies because a handler that is answered with one changes the copy, and
because every allocated client is listed (`LiveAreListed`), so that a nickname the
search does not find is nobody's. This is where the *second* entry of `acceptClient` and
the "first" of `removeClient` matter: QUIT may erase an entry of a dangling pair when
the address has been allocated again.

*While the copies are apart*: `Spec /\ []CopiesApart => []IInv` (`Invariance`), and from
it `SocketsHaveClients`, `NoDanglingMember` and `ListsAreSets`. The condition is an
assumption of these theorems, not a lemma: `claim_operator_copy` refutes it. The table
always may hold pointers to freed objects, so "a lookup returns a live client" does not
follow from it. `IInv` says why it is true all the same: an entry that leads to no
allocated client has neither a socket nor a nickname (`FreedAreBlank`), so that no
lookup stops at it; the client of an open socket carries its number
(`ConnectedAreLive`); the pointer a batch goes on with after QUIT is freed
(`HandledIsFreed`), so that what is written through it changes no client; and the block
of an operator is held by one channel only (`CopiesAreHeld`), so that a second operator
gives back nothing else. With these, `MembersAreLive` and `OneEntryPerMember` are
inductive for the channels.

When the condition holds is a theorem again: `CopiesApartBeforeQuit`, `Lossy =>
[]CopiesApart`. As long as nobody sends QUIT every entry of the table leads to an
allocated client (`BlocksInv`), and a free block is none of them.

The argument is laid out in five modules. `ConnectionProofs`: what the lookups return,
what erasing from and appending to the table keeps, and that each action preserves
`ObjectsInv` and `ConnInv`, the parts of `BaseInv` and `IInv` on the table and the
clients; the commands share one lemma on what is written through the pointers they are
answered with. `ChannelProofs`: each action preserves `ListsInv` and `ChanInv`, the
parts on the channels, one lemma per handler, and the theorems above. `TableProofs`:
what holds of the table from step to step and when the server stops. `StepProofs`: what
a step may change in clients and channels, and the server whose clients never QUIT.
`OrderlyProofs`: the server whose clients all leave with QUIT.

`EntriesPaired`, on which a complete stop rests, is not inductive: an entry erased
further to the front moves the odd positions. `EntriesAdjacent` is: the two entries of
an allocated client are neighbours, `removeClient` erases none of them for another
client, and of two neighbours one is at an odd position. From it `StopsAreClean`:
`closing_sockets` reaches every client. That it meets each one *once* as long as nobody
has QUIT (`NoDoubleFreeBeforeQuit`) is a matter of counting: when the table has two
entries per allocated client there are as many odd positions as clients, and since each
client has one (`EntriesPaired`), none has two. `EntriesStayPaired` and
`NoDoubleFreeBeforeQuit` hold always, `StopsAreClean` while the copies are apart: a stop
deletes what the entry leads to. `LookupsAreStable` goes through the table once more:
what `FirstOf` finds for an open socket is not changed by entries appended behind it,
nor by a QUIT, which erases the first entry of a client with another number.

`ClientsAreTheirOwn` and `OperatorsWereMembers` state `ChangedByItsSocket` and
`OperatorsComeFromMembers` of every step that starts in `IInv`: the first needs
`HandledIsFreed` for the commands after a QUIT. `EntriesFollowModes` is
`EntryRespectsModes`, always: `Occupancy` counts places, so an entry takes exactly one,
of a list that starts empty and is therefore finite, and the limit is compared with what
`size()` was before.

**When no client sends QUIT** (`StepProofs`, the specification `Lossy`). Three of the
claims the runs refute rest on freed objects alone, and these theorems say so: as long
as no client QUITs, `StopIsCleanBeforeQuit`, `InvitationsHoldBeforeQuit` and
`OperatorsHoldBeforeQuit` prove `SignalStopsCleanly`, `InvitedClientsHaveNicks` and
`OperatorsAreLoggedIn`, however many connections are dropped and numbers reused, and
without a condition, as the copies then stay apart. The
invariant is `LossyInv`: nothing is ever freed, so that every pointer of the table and
every invitation leads to the object it was made for (`NothingFreed`); and as the first
entry with a number stays the first, a member is the client its socket leads to
(`MembersAreFound`), which makes it the one an operator's number leads to
(`AdminsAreFound`). `ConnectionGetsItsClient` is the opposite: false of `Lossy`, and
proved of `Orderly` as `SocketsLeadHome`, while the copies are apart.

**When clients leave with QUIT** (`OrderlyProofs`), and while the copies are apart:
`Orderly /\ []CopiesApart`, and `MailSpec /\ []CopiesApart` with the messages. `IInv`
and one more invariant, `OrderlyInv`: an allocated client is the one its socket was
accepted for (`AllocatedAreConnected`), a member is logged in, and the commands left
after a QUIT run for a socket that is closed (`HandledIsClosed`). The last part is what
JOIN needs: the login it is allowed by is that of the pointer from before the QUIT, who
would enter is the client the socket leads to, and they are the same unless a QUIT came
first, when the socket leads nowhere. From it `SocketsLeadHome`, `MembersStayConnected`
and `QuitsFreeTheirClient`: the claim `claim_operator_copy` refutes is true of such a
server, so that it is the copies alone that break it. A third invariant,
`OnlyChannelsHaveMembers`, gives `DeparturesAnnounced`: the channels `handleQuit` walks
through are all those it takes the client out of. This one needs `BaseInv` only and
holds of `MailSpec` always. `PersonalMailReaches` is the lookup by nickname: what it
finds is allocated (`FreedAreBlank`), so its number is that of its own connection, and
nobody else has the nickname. It uses `NamesAssumption`, that no nickname is the name of
a channel (`checkNick` accepts no `#`). `ChannelMailReaches` is the same of a channel:
two connections have two clients, a client is listed once and under its own number, so
the entries of the list that carry the number of a connection are one or none.
`ServerIsChat` is the refinement, `MailSpec /\ []CopiesApart => Chat!Init /\
ActsAsChat`, from the three invariants: one lemma per handler says which action of
`ChatService` it is. An accept is a `Connect` because the client is new and no list
holds its address; a QUIT is a `Leave` because the client of the socket is the one in
the lists; the commands that are left after it change a freed object and show nothing.

**The loop**, from `LoopAssumption` only (`BufSize` and `MaxEvents` at least 1, the
bytes distinct), for any number of sockets. `LoopProofs` has `LineInv`: bytes wait
for open sockets only, and only the connection being served has whole lines in
`partial_data` (`OnlyServedHasLines`), from which `NoLineIsLeftBehind`.
`LoopKeepsLines` is the safety part of the refinement, `Spec => Service!Init /\
[][Service!Next]_(Service!vars)`, with `partial[s] \o unread[s]` for the bytes of
`s` and `commands` for its `todo` while it is served. `Receive` moves bytes from one
to the other and is not seen in `LineService`; `CutCommand` is `Issue`, for which the
LF `find` returns in `partial_data` has to be the first of all the bytes and the CR
before it the one `LineService` drops, whatever is unread behind; a QUIT in
`RunCommand` loses the bytes not read but keeps those of `partial_data`, which hold no
whole line. `EventProofs` has `EventInv`: the kernel's list holds a socket once,
open ones only, and everything pending (`NothingPendingIsForgotten`); what is left
of a batch is current (`EventsStayCurrent`), for which the socket being served must
not be among it (`ServedIsTaken`): a handler closes no other socket than its own, and
the number `accept` hands out has no event left. `SequenceLemmas` has what both need
of sequences.

Every property of the passing runs is stated by a theorem, but for the liveness part of
`ImplementsLineService`: liveness under fairness is out of the prover's reach. So is
what a recursive definition computes for every input, which is why the lists are counted
with `Cardinality` and not folded. The claims are refuted by TLC and need no proof; that
three of them hold under `Lossy`, and one while the copies are apart, is proved.

## 5. Not modelled

* The system calls of `serv_init` before the server listens, and the argument checks
  of `main`: each failure ends the process before there is a state.
* `askPassword`, `isRegistered`, `isFull`, the copy operations of `Channel` and
  `Server`: nothing that runs depends on them. `handleOper` and `handleCapLs` change
  nothing (they are part of `OtherCommand`); `handlePart` is declared and does not
  exist.
* The text of replies and logs, the replies to the sender of a command itself, and
  the result of `send`: no state depends on them.
* What the server does with other users of a `Client`'s block, and with a free block
  that leaves tcache (assumption 1).
* A signal in the middle of a vector operation or of the allocator, whose effect is
  undefined.
* The commands `EventLoop` cuts are not fed to `IrcServer`: the product is beyond TLC.
  The two agree on what they share: the commands of one call run in order with no
  event between them, and those after a QUIT run for a closed socket.
