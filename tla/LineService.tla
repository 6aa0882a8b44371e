---------------------------- MODULE LineService ----------------------------
(***************************************************************************)
(* What a client may expect of the loop of the server, whatever the sizes  *)
(* of its buffers and the order of its events: it is accepted when there   *)
(* is a socket number for it; every line it sends becomes a command, whole,*)
(* once and in its order; the commands are run; and the number is given    *)
(* back when the client quits or its connection ends.                      *)
(*                                                                         *)
(* One promise is missing because the server does not keep it: what is     *)
(* left of an unfinished line stays with the number and precedes the first *)
(* line of the next connection that gets it.                               *)
(***************************************************************************)
EXTENDS Naturals, Sequences

CONSTANTS
  Fds,      (* Socket numbers the kernel can hand out.  A bound.           *)
  Letters,  (* Bytes that end no line.                                     *)
  CR, LF,   (* The bytes \r and \n.                                        *)
  Quit,     (* The letter that stands for the text of a QUIT command.      *)
  Backlog   (* Connections the kernel keeps waiting, 10 in serv_init.      *)

Bytes == Letters \cup {CR, LF}

VARIABLES
  waiting,  (* How many connections wait to be accepted.                   *)
  open,     (* The socket numbers in use.                                  *)
  over,     (* Those whose client has closed or lost its end.              *)
  bytes,    (* Per number: the bytes that have not become commands yet.    *)
  todo      (* Per number: the commands that have not run yet.             *)

vars == << waiting, open, over, bytes, todo >>

(* The first line: up to the first LF, without a CR just before it.        *)
HasLine(b) == \E i \in DOMAIN b : b[i] = LF

LineEnd(b) == CHOOSE i \in DOMAIN b : b[i] = LF /\ \A j \in 1 .. i - 1 : b[j] # LF

FirstLine(b) ==
  LET i == LineEnd(b) IN
  SubSeq(b, 1, IF i > 1 /\ b[i - 1] = CR THEN i - 2 ELSE i - 1)

Rest(b) == SubSeq(b, LineEnd(b) + 1, Len(b))

Init ==
  /\ waiting = 0
  /\ open = {}
  /\ over = {}
  /\ bytes = [s \in Fds |-> << >>]
  /\ todo = [s \in Fds |-> << >>]

-----------------------------------------------------------------------------
(* The clients.                                                            *)
Dial ==
  /\ waiting < Backlog
  /\ waiting' = waiting + 1
  /\ UNCHANGED << open, over, bytes, todo >>

Send(s, b) ==
  /\ s \in open \ over
  /\ bytes' = [bytes EXCEPT ![s] = Append(@, b)]
  /\ UNCHANGED << waiting, open, over, todo >>

HangUp(s) ==
  /\ s \in open \ over
  /\ over' = over \cup {s}
  /\ UNCHANGED << waiting, open, bytes, todo >>

(* The server.  No number is handed out before the commands of its last    *)
(* connection have all run.                                                *)
Accept(s) ==
  /\ waiting > 0
  /\ s \notin open
  /\ todo[s] = << >>
  /\ waiting' = waiting - 1
  /\ open' = open \cup {s}
  /\ UNCHANGED << over, bytes, todo >>

Issue(s) ==
  /\ HasLine(bytes[s])
  /\ todo' = [todo EXCEPT ![s] = Append(@, FirstLine(bytes[s]))]
  /\ bytes' = [bytes EXCEPT ![s] = Rest(@)]
  /\ UNCHANGED << waiting, open, over >>

(* A QUIT of an open connection closes it; what was not read yet is lost.  *)
Run(s) ==
  /\ todo[s] # << >>
  /\ todo' = [todo EXCEPT ![s] = Tail(@)]
  /\ IF Head(todo[s]) = << Quit >> /\ s \in open
       THEN /\ open' = open \ {s}
            /\ over' = over \ {s}
            /\ \E n \in 0 .. Len(bytes[s]) :
                 /\ ~HasLine(SubSeq(bytes[s], 1, n))
                 /\ bytes' = [bytes EXCEPT ![s] = SubSeq(@, 1, n)]
       ELSE UNCHANGED << open, over, bytes >>
  /\ UNCHANGED waiting

Close(s) ==
  /\ s \in open \cap over
  /\ ~HasLine(bytes[s])
  /\ todo[s] = << >>
  /\ open' = open \ {s}
  /\ over' = over \ {s}
  /\ UNCHANGED << waiting, bytes, todo >>

Next ==
  \/ Dial
  \/ \E s \in Fds :
       \/ \E b \in Bytes : Send(s, b)
       \/ HangUp(s) \/ Accept(s) \/ Issue(s) \/ Run(s) \/ Close(s)

(***************************************************************************)
(* Nobody is forgotten, however busy the others keep the server.  Clients  *)
(* need not do anything.                                                   *)
(***************************************************************************)
Fairness ==
  /\ WF_vars(\E s \in Fds : Accept(s))
  /\ \A s \in Fds : WF_vars(Issue(s)) /\ WF_vars(Run(s)) /\ WF_vars(Close(s))

Spec == Init /\ [][Next]_vars /\ Fairness
=============================================================================
