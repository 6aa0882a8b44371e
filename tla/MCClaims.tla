------------------------------ MODULE MCClaims ------------------------------
EXTENDS MCChannels, Claims

(* Clients that register, and that all know the password.                  *)
RightPasswordNext ==
  \/ Connect
  \/ \E s \in Fds, p \in Addrs :
       \/ HandlePass(s, p, TRUE)
       \/ \E n \in Nicks : HandleNick(s, p, n)
       \/ HandleUser(s, p, TRUE)

(* Registered clients that leave with QUIT only.                           *)
QuitOnlyNext ==
  \/ Connect
  \/ \E s \in Fds, p \in Addrs : HandleQuit(s, p)
  \/ ChannelCommand
  \/ Join

QuitOnlySpec == RegisteredInit /\ [][QuitOnlyNext]_vars

RightPasswordSpec == Init /\ [][RightPasswordNext]_vars
=============================================================================
