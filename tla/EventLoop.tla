----------------------------- MODULE EventLoop -----------------------------
(***************************************************************************)
(* The loop of the server: epoll_wait, the events it returns, the recv of  *)
(* each socket that has something to read, the cutting of what it read     *)
(* into commands and the commands one after the other.  Of a command only  *)
(* matters here whether it is QUIT, which closes the socket: what the      *)
(* others do is in IrcServer.  Neither signals nor crashes are part of it. *)
(***************************************************************************)
EXTENDS Naturals, Sequences, SequencesExt

CONSTANTS
  Fds,       (* Socket numbers the kernel can hand out.  A bound.          *)
  Letters,   (* Bytes that end no line.                                    *)
  CR, LF,    (* The bytes \r and \n.                                       *)
  Quit,      (* The letter that stands for the text of a QUIT command.     *)
  Listener,  (* server_socket_fd.                                          *)
  NULL,      (* No socket.                                                 *)
  Backlog,   (* Connections the kernel keeps waiting, 10 in serv_init.     *)
  BufSize,   (* What one recv takes at most, 1024 in handleConnection.     *)
  MaxEvents, (* What epoll_wait returns at most, MAX_EVENTS.               *)
  MaxBytes   (* Bound on the bytes that are no commands yet.               *)

ASSUME LoopAssumption ==
  /\ Fds \subseteq Nat
  /\ CR # LF
  /\ CR \notin Letters /\ LF \notin Letters
  /\ Quit \in Letters
  /\ Listener \notin Fds
  /\ NULL \notin Fds \cup {Listener}
  /\ Backlog \in Nat
  /\ BufSize \in Nat \ {0}
  /\ MaxEvents \in Nat \ {0}

Bytes == Letters \cup {CR, LF}

VARIABLES
  waiting,   (* How many connections wait on the listening socket.         *)
  open,      (* The open client sockets, each with its Client.             *)
  over,      (* Those whose client has closed or lost its end.             *)
  unread,    (* Per socket: what the kernel holds for recv.                *)
  partial,   (* partial_data: per number, bytes read that are no command.  *)
  ready,     (* The kernel's list of sockets epoll_wait has to look at.    *)
  batch,     (* events: those returned and not handled yet.                *)
  serving,   (* The socket of the running handleConnection, or NULL.       *)
  commands   (* Its commands that have not run yet.                        *)

socketVars == << waiting, open, over, unread >>
vars == << socketVars, partial, ready, batch, serving, commands >>

Init ==
  /\ waiting = 0
  /\ open = {}
  /\ over = {}
  /\ unread = [s \in Fds |-> << >>]
  /\ partial = [s \in Fds |-> << >>]
  /\ ready = << >>
  /\ batch = << >>
  /\ serving = NULL
  /\ commands = << >>

-----------------------------------------------------------------------------
(***************************************************************************)
(* The clients, at any time.  A socket that gets something to read or a    *)
(* connection to accept enters the list epoll_wait looks through, once.    *)
(***************************************************************************)
Woken(e) == IF e \in Range(ready) THEN ready ELSE Append(ready, e)

serverVars == << partial, batch, serving, commands >>

Dial ==
  /\ waiting < Backlog
  /\ waiting' = waiting + 1
  /\ ready' = Woken(Listener)
  /\ UNCHANGED << open, over, unread, serverVars >>

(* The bytes of all the numbers that are no commands yet.                 *)
Buffered == SumFunction([s \in Fds |-> Len(partial[s]) + Len(unread[s])])

Send(s, b) ==
  /\ s \in open \ over
  /\ Buffered < MaxBytes
  /\ unread' = [unread EXCEPT ![s] = Append(@, b)]
  /\ ready' = Woken(s)
  /\ UNCHANGED << waiting, open, over, serverVars >>

HangUp(s) ==
  /\ s \in open \ over
  /\ over' = over \cup {s}
  /\ ready' = Woken(s)
  /\ UNCHANGED << waiting, open, unread, serverVars >>

-----------------------------------------------------------------------------
(* What epoll reports: the list is level triggered.                        *)
Pending(e) ==
  IF e = Listener THEN waiting > 0 ELSE unread[e] # << >> \/ e \in over

(***************************************************************************)
(* epoll_wait goes through the list from its front, up to position n where *)
(* it has MaxEvents events or to the end; `at' are the positions it takes. *)
(* It drops the sockets that have nothing any more and puts those it takes *)
(* behind the ones it did not reach.                                       *)
(***************************************************************************)
Takes(at, m, n) ==
  /\ \A i, j \in 1 .. m : i < j => at[i] < at[j]
  /\ \A i \in 1 .. n : Pending(ready[i]) <=> \E j \in 1 .. m : at[j] = i
  /\ IF m = MaxEvents THEN at[m] = n ELSE n = Len(ready)

(* A slip: sockets watched with EPOLLET, read once per event.              *)
WaitEdge ==
  /\ serving = NULL
  /\ batch = << >>
  /\ \E n \in DOMAIN ready, m \in 1 .. MaxEvents : \E at \in [1 .. m -> 1 .. n] :
       /\ Takes(at, m, n)
       /\ batch' = [i \in 1 .. m |-> ready[at[i]]]
       /\ ready' = SubSeq(ready, n + 1, Len(ready))
  /\ UNCHANGED << socketVars, partial, serving, commands >>

Wait ==
  /\ serving = NULL
  /\ batch = << >>
  /\ \E n \in DOMAIN ready, m \in 1 .. MaxEvents : \E at \in [1 .. m -> 1 .. n] :
       /\ Takes(at, m, n)
       /\ batch' = [i \in 1 .. m |-> ready[at[i]]]
       /\ ready' = SubSeq(ready, n + 1, Len(ready)) \o [i \in 1 .. m |-> ready[at[i]]]
  /\ UNCHANGED << socketVars, partial, serving, commands >>

(* A slip: the index of the loop is not advanced.                          *)
EventKept(e) ==
  /\ serving = NULL
  /\ batch # << >>
  /\ e = Head(batch)
  /\ batch' = batch

(* The loop takes the events one after the other.                          *)
Event(e) ==
  /\ serving = NULL
  /\ batch # << >>
  /\ e = Head(batch)
  /\ batch' = Tail(batch)

LowestFree(s) == s \notin open /\ \A t \in Fds : t < s => t \in open

(* A slip: the -1 of a failed accept is taken for a socket.                *)
AcceptUnchecked ==
  /\ Event(Listener)
  /\ waiting' = waiting - 1
  /\ \E s \in Fds \cup {NULL} :
       /\ IF Fds \subseteq open THEN s = NULL ELSE s \in Fds /\ LowestFree(s)
       /\ open' = open \cup {s}
  /\ UNCHANGED << over, unread, partial, ready, serving, commands >>

(* acceptClient.  accept fails when the process has no number left.        *)
AcceptClient ==
  /\ Event(Listener)
  /\ IF waiting = 0 \/ Fds \subseteq open
       THEN UNCHANGED << waiting, open >>
       ELSE \E s \in Fds :
              /\ LowestFree(s)
              /\ waiting' = waiting - 1
              /\ open' = open \cup {s}
  /\ UNCHANGED << over, unread, partial, ready, serving, commands >>

(***************************************************************************)
(* handleConnection, first half: recv appends at most BufSize bytes to     *)
(* what the number has in partial_data.  With nothing to read (EAGAIN) it  *)
(* returns, which is the same as having read nothing.                      *)
(***************************************************************************)
Received(s) == IF Len(unread[s]) < BufSize THEN Len(unread[s]) ELSE BufSize

Receive(s) ==
  /\ Event(s)
  /\ unread[s] # << >> \/ s \notin over
  /\ partial' = [partial EXCEPT ![s] = @ \o SubSeq(unread[s], 1, Received(s))]
  /\ unread' = [unread EXCEPT ![s] = SubSeq(@, Received(s) + 1, Len(@))]
  /\ serving' = s
  /\ UNCHANGED << waiting, open, over, ready, commands >>

(* close: the number is free, and the kernel forgets what was not read.    *)
CloseSocket(s) ==
  /\ open' = open \ {s}
  /\ over' = over \ {s}
  /\ unread' = [unread EXCEPT ![s] = << >>]
  /\ ready' = RemoveFirst(ready, s)

(* recv returns 0, or an error.  partial_data keeps what it has.           *)
Disconnect(s) ==
  /\ Event(s)
  /\ unread[s] = << >> /\ s \in over
  /\ CloseSocket(s)
  /\ UNCHANGED << waiting, partial, serving, commands >>

-----------------------------------------------------------------------------
(***************************************************************************)
(* The loop that cuts partial_data.  find("\n") and find("\r\n") return    *)
(* the first position or npos, 0 here; the loop ends when there is neither.*)
(***************************************************************************)
HasLF(b) == \E i \in DOMAIN b : b[i] = LF

FindLF(b) ==
  IF HasLF(b) THEN CHOOSE i \in DOMAIN b : b[i] = LF /\ \A j \in 1 .. i - 1 : b[j] # LF
              ELSE 0

CrLfAt(b, i) == i + 1 \in DOMAIN b /\ b[i] = CR /\ b[i + 1] = LF

FindCrLf(b) ==
  IF \E i \in DOMAIN b : CrLfAt(b, i)
    THEN CHOOSE i \in DOMAIN b : CrLfAt(b, i) /\ \A j \in 1 .. i - 1 : ~CrLfAt(b, j)
    ELSE 0

EndPos(b) == IF FindCrLf(b) # 0 /\ FindCrLf(b) < FindLF(b) THEN FindCrLf(b) ELSE FindLF(b)

(* substr(0, end_pos), and erase of it with its one or two end bytes.      *)
Cut(b) == SubSeq(b, 1, EndPos(b) - 1)

(* A slip: one byte is erased at the end of a line, also of a CR LF.       *)
RemainingOneByte(b) == SubSeq(b, EndPos(b) + 1, Len(b))

Remaining(b) ==
  SubSeq(b, EndPos(b) + (IF b[EndPos(b)] = CR THEN 2 ELSE 1), Len(b))

CutCommand ==
  /\ serving # NULL
  /\ HasLF(partial[serving])
  /\ commands' = Append(commands, Cut(partial[serving]))
  /\ partial' = [partial EXCEPT ![serving] = Remaining(@)]
  /\ UNCHANGED << socketVars, ready, batch, serving >>

(***************************************************************************)
(* The commands run once all of them are cut.  QUIT closes the socket; the *)
(* ones after it run all the same, and find no Client of theirs.           *)
(***************************************************************************)
RunCommand ==
  /\ serving # NULL
  /\ ~HasLF(partial[serving])
  /\ commands # << >>
  /\ commands' = Tail(commands)
  /\ IF Head(commands) = << Quit >> /\ serving \in open
       THEN CloseSocket(serving)
       ELSE UNCHANGED << open, over, unread, ready >>
  /\ UNCHANGED << waiting, partial, batch, serving >>

(* A slip: handleConnection returns with lines still to cut.               *)
ReturnEarly ==
  /\ serving # NULL
  /\ commands = << >>
  /\ serving' = NULL
  /\ UNCHANGED << socketVars, partial, ready, batch, commands >>

Return ==
  /\ serving # NULL
  /\ ~HasLF(partial[serving])
  /\ commands = << >>
  /\ serving' = NULL
  /\ UNCHANGED << socketVars, partial, ready, batch, commands >>

-----------------------------------------------------------------------------
Client ==
  \/ Dial
  \/ \E s \in Fds : HangUp(s) \/ \E b \in Bytes : Send(s, b)

Server ==
  \/ Wait
  \/ AcceptClient
  \/ \E s \in Fds : Receive(s) \/ Disconnect(s)
  \/ CutCommand
  \/ RunCommand
  \/ Return

Next == Client \/ Server

(***************************************************************************)
(* The one thread of the server goes on as long as it has something to do: *)
(* no handler waits for anything.  Its clients may stop at any time.       *)
(***************************************************************************)
Spec == Init /\ [][Next]_vars /\ WF_vars(Server)

-----------------------------------------------------------------------------
DataTypeOK ==
  /\ waiting \in 0 .. Backlog
  /\ open \in SUBSET Fds
  /\ over \in SUBSET open
  /\ unread \in [Fds -> Seq(Bytes)]
  /\ partial \in [Fds -> Seq(Bytes)]
  /\ serving \in Fds \cup {NULL}
  /\ commands \in Seq(Seq(Bytes))

EventTypeOK ==
  /\ ready \in Seq(Fds \cup {Listener})
  /\ batch \in Seq(Fds \cup {Listener})

(* Every variable has its type.                                            *)
TypeOK == DataTypeOK /\ EventTypeOK

(***************************************************************************)
(* The events of a batch are handled one after the other while the         *)
(* handlers close and accept sockets: the ones left are each of another    *)
(* socket, which is still open (and not a new connection on a number that  *)
(* was closed since epoll_wait returned) and still has what was reported.  *)
(***************************************************************************)
EventsAreCurrent ==
  /\ IsInjective(batch)
  /\ \A e \in Range(batch) : e \in open \cup {Listener} /\ Pending(e)

(***************************************************************************)
(* epoll knows nothing of partial_data: a whole line that stayed there     *)
(* when handleConnection returns would wait until the client sends more.   *)
(***************************************************************************)
NoLineLeftBehind == serving = NULL => \A s \in Fds : ~HasLF(partial[s])

(***************************************************************************)
(* A socket epoll_wait would report is in the kernel's list, whatever was  *)
(* taken out of it and put back.                                           *)
(***************************************************************************)
PendingAreReady ==
  \A e \in open \cup {Listener} : Pending(e) => e \in Range(ready)

(***************************************************************************)
(* The loop keeps the promises of LineService: for a client, the bytes it  *)
(* sent that are no command yet are those in partial_data and those not    *)
(* read, wherever recv cut them.                                           *)
(***************************************************************************)
Service ==
  INSTANCE LineService WITH
    bytes <- [s \in Fds |-> partial[s] \o unread[s]],
    todo <- [s \in Fds |-> IF s = serving THEN commands ELSE << >>]

ImplementsLineService == Service!Spec

-----------------------------------------------------------------------------
(***************************************************************************)
(* The inductive invariant: on what is read, and on the events.            *)
(***************************************************************************)
ClosedAreEmpty == \A s \in Fds \ open : unread[s] = << >>

IdleHasNoCommands == serving = NULL => commands = << >>

OnlyServedHasLines == \A s \in Fds \ {serving} : ~HasLF(partial[s])

LineInv ==
  /\ DataTypeOK
  /\ ClosedAreEmpty
  /\ IdleHasNoCommands
  /\ OnlyServedHasLines

ReadyIsSet == IsInjective(ready) /\ Range(ready) \subseteq open \cup {Listener}

ServedIsTaken == serving \notin Range(batch)

EventInv ==
  /\ EventTypeOK
  /\ ReadyIsSet
  /\ ServedIsTaken
  /\ PendingAreReady
  /\ EventsAreCurrent

LoopInv == LineInv /\ EventInv
=============================================================================
