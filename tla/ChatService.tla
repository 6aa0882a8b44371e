---------------------------- MODULE ChatService ----------------------------
(***************************************************************************)
(* What the users of the server see of it when they leave with QUIT: who is*)
(* connected, what each has given to register, and who is in which channel.*)
(* There are no objects, addresses or tables in it.  Who may kick whom, and*)
(* whom the modes of a channel let in, is left open.                       *)
(***************************************************************************)
CONSTANTS
  Fds,      (* Socket numbers, for the connections.                        *)
  Nicks,    (* Nicknames.                                                  *)
  Chans,    (* Channel names.                                              *)
  NULL      (* No nickname yet.                                            *)

VARIABLES
  up,       (* The server runs.                                            *)
  online,   (* The numbers of the connections there are.                   *)
  session,  (* Per number: the registration of its connection.             *)
  room      (* Per channel: the numbers of the connections in it.          *)

vars == << up, online, session, room >>

Session ==
  [nick : Nicks \cup {NULL}, pswd : BOOLEAN, user : BOOLEAN, logged : BOOLEAN]

Blank == [nick |-> NULL, pswd |-> FALSE, user |-> FALSE, logged |-> FALSE]

Init ==
  /\ up = TRUE
  /\ online = {}
  /\ session = [s \in Fds |-> Blank]
  /\ room = [ch \in Chans |-> {}]

-----------------------------------------------------------------------------
(* A connection begins with nothing of an earlier one on its number.       *)
Connect(s) ==
  /\ up
  /\ s \notin online
  /\ online' = online \cup {s}
  /\ UNCHANGED << up, session, room >>

(* What a user has given is never taken back, and a nickname is taken when *)
(* nobody has it; with all three the user is logged in.                    *)
Tell(s) ==
  LET new == session'[s] IN
  /\ up
  /\ s \in online
  /\ UNCHANGED << up, online, room >>
  /\ new \in Session
  /\ session[s].pswd => new.pswd
  /\ session[s].user => new.user
  /\ \/ new.nick = session[s].nick
     \/ new.nick # NULL /\ \A t \in online : session[t].nick # new.nick
  /\ new.logged <=> new.pswd /\ new.user /\ new.nick # NULL
  /\ session' = [session EXCEPT ![s] = new]

Join(s, ch) ==
  /\ up
  /\ s \in online \ room[ch]
  /\ session[s].logged
  /\ room' = [room EXCEPT ![ch] = @ \cup {s}]
  /\ UNCHANGED << up, online, session >>

(* One who is in a channel takes another out of it, or itself.             *)
Kick(s, t, ch) ==
  /\ up
  /\ s \in room[ch]
  /\ t \in room[ch]
  /\ room' = [room EXCEPT ![ch] = @ \ {t}]
  /\ UNCHANGED << up, online, session >>

Leave(s) ==
  /\ up
  /\ s \in online
  /\ online' = online \ {s}
  /\ session' = [session EXCEPT ![s] = Blank]
  /\ room' = [ch \in Chans |-> room[ch] \ {s}]
  /\ UNCHANGED up

(* The end of the process, for whatever reason, ends all connections.      *)
Stop ==
  /\ up
  /\ up' = FALSE
  /\ online' = {}
  /\ session' = [s \in Fds |-> Blank]
  /\ room' = [ch \in Chans |-> {}]

Next ==
  \/ Stop
  \/ \E s \in Fds :
       \/ Connect(s) \/ Tell(s) \/ Leave(s)
       \/ \E ch \in Chans : Join(s, ch) \/ \E t \in Fds : Kick(s, t, ch)

Spec == Init /\ [][Next]_vars
=============================================================================
