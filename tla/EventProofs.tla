---------------------------- MODULE EventProofs ----------------------------
(***************************************************************************)
(* The events of epoll: no handler invalidates one that is still in the    *)
(* batch, and no socket with something to read drops out of the list.      *)
(***************************************************************************)
EXTENDS LoopProofs

Watched == Fds \cup {Listener}

(* A socket enters the list once.                                          *)
LEMMA WokenOnce ==
  ASSUME EventTypeOK, IsInjective(ready), NEW e \in Watched
  PROVE  /\ Woken(e) \in Seq(Watched)
         /\ IsInjective(Woken(e))
         /\ Range(Woken(e)) = Range(ready) \cup {e}
<1>1. ready \in Seq(Watched)
  BY DEF EventTypeOK, Watched
<1>2. CASE e \in Range(ready)
  BY <1>1, <1>2 DEF Woken
<1>3. CASE e \notin Range(ready)
  <2>1. Woken(e) = Append(ready, e)
    BY <1>3 DEF Woken
  <2> QED
    BY <1>1, <1>3, <2>1, AppendNew
<1> QED
  BY <1>2, <1>3

(* What a client does wakes its socket, and takes no event back.           *)
LEMMA ClientKeepsEventInv ==
  ASSUME LineInv, EventInv, Client
  PROVE  EventInv'
<1>1. PICK e \in Watched :
        /\ ready' = Woken(e)
        /\ e \in open \cup {Listener}
        /\ UNCHANGED << open, batch, serving >>
        /\ \A x \in Watched : Pending(x) => Pending(x)'
        /\ \A x \in Watched \ {e} : Pending(x)' => Pending(x)
  <2>1. CASE Dial
    <3>1. /\ waiting \in Nat /\ waiting' = waiting + 1 /\ ready' = Woken(Listener)
          /\ UNCHANGED << open, over, unread, batch, serving >>
      BY <2>1, LoopAssumption DEF Dial, serverVars, LineInv, DataTypeOK
    <3>2. \A x \in Watched : Pending(x) => Pending(x)'
      BY <3>1 DEF Pending
    <3>3. \A x \in Watched \ {Listener} : Pending(x)' => Pending(x)
      BY <3>1 DEF Pending
    <3> QED
      BY <3>1, <3>2, <3>3 DEF Watched
  <2>2. ASSUME NEW s \in Fds, HangUp(s)
        PROVE  /\ ready' = Woken(s)
               /\ s \in open \cup {Listener}
               /\ UNCHANGED << open, batch, serving >>
               /\ \A x \in Watched : Pending(x) => Pending(x)'
               /\ \A x \in Watched \ {s} : Pending(x)' => Pending(x)
    <3>1. /\ ready' = Woken(s) /\ s \in open /\ over' = over \cup {s}
          /\ UNCHANGED << waiting, open, unread, batch, serving >>
      BY <2>2 DEF HangUp, serverVars
    <3> QED
      BY <3>1 DEF Pending
  <2>3. ASSUME NEW s \in Fds, NEW b \in Bytes, Send(s, b)
        PROVE  /\ ready' = Woken(s)
               /\ s \in open \cup {Listener}
               /\ UNCHANGED << open, batch, serving >>
               /\ \A x \in Watched : Pending(x) => Pending(x)'
               /\ \A x \in Watched \ {s} : Pending(x)' => Pending(x)
    <3>1. /\ ready' = Woken(s) /\ s \in open
          /\ unread' = [unread EXCEPT ![s] = Append(@, b)]
          /\ UNCHANGED << waiting, open, over, batch, serving >>
      BY <2>3 DEF Send, serverVars
    <3>2. unread \in [Fds -> Seq(Bytes)] /\ Append(unread[s], b) # << >>
      BY AppendProperties DEF LineInv, DataTypeOK
    <3>3. ASSUME NEW x \in Watched
          PROVE  /\ Pending(x) => Pending(x)'
                 /\ x # s => (Pending(x)' => Pending(x))
      <4>1. CASE x = Listener
        BY <3>1, <4>1, LoopAssumption DEF Pending
      <4>2. CASE x \in Fds
        BY <3>1, <3>2, <4>2, LoopAssumption DEF Pending
      <4> QED
        BY <4>1, <4>2 DEF Watched
    <3> QED
      BY <3>1, <3>3
  <2> QED
    BY <2>1, <2>2, <2>3 DEF Client, Watched
<1>2. /\ Woken(e) \in Seq(Watched) /\ IsInjective(Woken(e))
      /\ Range(Woken(e)) = Range(ready) \cup {e}
  BY WokenOnce DEF EventInv, ReadyIsSet
<1>3. open \subseteq Fds
  BY DEF LineInv, DataTypeOK
<1>4. EventTypeOK'
  BY <1>1, <1>2 DEF EventInv, EventTypeOK, Watched
<1>5. ReadyIsSet'
  BY <1>1, <1>2 DEF EventInv, ReadyIsSet
<1>6. ServedIsTaken'
  BY <1>1 DEF EventInv, ServedIsTaken
<1>7. PendingAreReady'
  BY <1>1, <1>2, <1>3 DEF EventInv, PendingAreReady, Watched
<1>8. EventsAreCurrent'
  BY <1>1, <1>3 DEF EventInv, EventsAreCurrent, Watched
<1> QED
  BY <1>4, <1>5, <1>6, <1>7, <1>8 DEF EventInv

-----------------------------------------------------------------------------
(***************************************************************************)
(* epoll_wait returns distinct sockets that have something, puts them back *)
(* behind the others and drops only sockets that have nothing.             *)
(***************************************************************************)
LEMMA WaitKeepsEventInv ==
  ASSUME LineInv, EventInv, Wait
  PROVE  EventInv'
<1>0. PICK n \in DOMAIN ready, m \in 1 .. MaxEvents : \E at \in [1 .. m -> 1 .. n] :
        /\ Takes(at, m, n)
        /\ batch' = [i \in 1 .. m |-> ready[at[i]]]
        /\ ready' = SubSeq(ready, n + 1, Len(ready)) \o [i \in 1 .. m |-> ready[at[i]]]
  BY Zenon DEF Wait
<1>1. PICK at \in [1 .. m -> 1 .. n] :
        /\ Takes(at, m, n)
        /\ batch' = [i \in 1 .. m |-> ready[at[i]]]
        /\ ready' = SubSeq(ready, n + 1, Len(ready)) \o [i \in 1 .. m |-> ready[at[i]]]
  BY <1>0
<1>2. serving = NULL /\ UNCHANGED << waiting, open, over, unread, serving >>
  BY DEF Wait, socketVars
<1>3. PICK taken : taken = [i \in 1 .. m |-> ready[at[i]]]
  OBVIOUS
<1>4. PICK rest : rest = SubSeq(ready, n + 1, Len(ready))
  OBVIOUS
<1>5. /\ ready \in Seq(Watched) /\ IsInjective(ready)
      /\ Len(ready) \in Nat /\ DOMAIN ready = 1 .. Len(ready)
      /\ n \in 1 .. Len(ready) /\ m \in Nat \ {0}
  BY <1>1, LoopAssumption DEF EventInv, EventTypeOK, ReadyIsSet, Watched
<1>6. \A i, j \in 1 .. Len(ready) : ready[i] = ready[j] => i = j
  BY <1>5 DEF IsInjective
<1>7. /\ \A i, j \in 1 .. m : i < j => at[i] < at[j]
      /\ \A i \in 1 .. n : Pending(ready[i]) <=> \E j \in 1 .. m : at[j] = i
      /\ \A i \in 1 .. m : at[i] \in 1 .. n /\ at[i] \in 1 .. Len(ready)
  BY <1>1, <1>5 DEF Takes
<1>8. /\ taken \in Seq(Watched) /\ DOMAIN taken = 1 .. m
      /\ \A i \in 1 .. m : taken[i] = ready[at[i]]
  <2>1. \A i \in 1 .. m : ready[at[i]] \in Watched
    BY <1>5, <1>7
  <2> QED
    BY <1>3, <1>5, <2>1
<1>9. /\ rest \in Seq(Watched) /\ DOMAIN rest = 1 .. Len(ready) - n
      /\ \A i \in 1 .. Len(ready) - n :
           rest[i] = ready[n + i] /\ n + i \in 1 .. Len(ready) /\ n + i > n
  BY <1>4, <1>5
<1>10. IsInjective(taken)
  <2>1. ASSUME NEW i \in 1 .. m, NEW j \in 1 .. m, taken[i] = taken[j] PROVE i = j
    <3>1. at[i] = at[j]
      BY <1>6, <1>7, <1>8, <2>1
    <3>2. at[i] \in Nat /\ at[j] \in Nat
      BY <1>7
    <3>3. ~(i < j) /\ ~(j < i)
      BY <1>7, <3>1, <3>2
    <3> QED
      BY <1>5, <3>3
  <2> QED
    BY <1>8, <2>1 DEF IsInjective
<1>11. IsInjective(rest)
  <2>1. ASSUME NEW i \in 1 .. Len(ready) - n, NEW j \in 1 .. Len(ready) - n, rest[i] = rest[j]
        PROVE  i = j
    <3>1. n + i = n + j
      BY <1>6, <1>9, <2>1
    <3> QED
      BY <1>5, <3>1
  <2> QED
    BY <1>9, <2>1 DEF IsInjective
<1>12. Range(rest) \cap Range(taken) = {}
  <2>1. ASSUME NEW i \in 1 .. Len(ready) - n, NEW j \in 1 .. m, rest[i] = taken[j] PROVE FALSE
    <3>1. n + i = at[j]
      <4>1. n + i \in 1 .. Len(ready) /\ at[j] \in 1 .. Len(ready)
        BY <1>7, <1>9
      <4>2. ready[n + i] = ready[at[j]]
        BY <1>8, <1>9, <2>1
      <4> QED
        BY <1>6, <4>1, <4>2
    <3>2. at[j] <= n /\ n + i > n
      BY <1>5, <1>7, <1>9
    <3> QED
      BY <1>5, <3>1, <3>2
  <2> QED
    BY <1>8, <1>9, <2>1 DEF Range
<1>13. Range(rest) \subseteq Range(ready) /\ Range(taken) \subseteq Range(ready)
  BY <1>5, <1>7, <1>8, <1>9 DEF Range
<1>14. /\ ready' = rest \o taken /\ ready' \in Seq(Watched) /\ IsInjective(ready')
       /\ Range(ready') = Range(rest) \cup Range(taken)
  <2>1. ready' = rest \o taken
    BY <1>1, <1>3, <1>4
  <2>2. rest \o taken \in Seq(Watched)
    BY <1>8, <1>9, ConcatProperties
  <2>3. IsInjective(rest \o taken)
    BY <1>8, <1>9, <1>10, <1>11, <1>12, ConcatDistinct
  <2>4. Range(rest \o taken) = Range(rest) \cup Range(taken)
    BY <1>8, <1>9, RangeConcatenation
  <2> QED
    BY <2>1, <2>2, <2>3, <2>4
<1>15. ASSUME NEW e \in Range(ready), Pending(e) PROVE e \in Range(rest) \cup Range(taken)
  <2>1. PICK i \in 1 .. Len(ready) : e = ready[i]
    BY <1>5 DEF Range
  <2>2. CASE i <= n
    <3>1. i \in 1 .. n
      BY <1>5, <2>2
    <3>2. PICK j \in 1 .. m : at[j] = i
      BY <1>7, <1>15, <2>1, <3>1
    <3>3. e = taken[j]
      BY <1>8, <2>1, <3>2
    <3> QED
      BY <1>8, <3>3 DEF Range
  <2>3. CASE i > n
    <3>1. i - n \in 1 .. Len(ready) - n /\ n + (i - n) = i
      BY <1>5, <2>3
    <3>2. e = rest[i - n]
      BY <1>9, <2>1, <3>1
    <3> QED
      BY <1>9, <3>1, <3>2 DEF Range
  <2> QED
    BY <1>5, <2>2, <2>3
<1>16. ASSUME NEW e \in Range(taken) PROVE Pending(e) /\ e \in open \cup {Listener}
  <2>1. PICK j \in 1 .. m : e = ready[at[j]]
    BY <1>8 DEF Range
  <2>2. Pending(ready[at[j]])
    BY <1>7
  <2> QED
    BY <1>13, <2>1, <2>2 DEF EventInv, ReadyIsSet
<1>17. batch' = taken /\ \A e : Pending(e)' = Pending(e)
  BY <1>1, <1>2, <1>3 DEF Pending
<1>18. EventTypeOK'
  BY <1>8, <1>14, <1>17 DEF EventTypeOK, Watched
<1>19. ReadyIsSet'
  BY <1>2, <1>13, <1>14 DEF EventInv, ReadyIsSet
<1>20. ServedIsTaken'
  <2>1. serving' \notin open \cup {Listener}
    BY <1>2, LoopAssumption DEF LineInv, DataTypeOK
  <2> QED
    BY <1>16, <1>17, <2>1 DEF ServedIsTaken
<1>21. PendingAreReady'
  BY <1>2, <1>14, <1>15, <1>17 DEF EventInv, PendingAreReady
<1>22. EventsAreCurrent'
  BY <1>2, <1>10, <1>16, <1>17 DEF EventsAreCurrent
<1> QED
  BY <1>18, <1>19, <1>20, <1>21, <1>22 DEF EventInv

-----------------------------------------------------------------------------
(* An event is of an open socket, and the batch has no other of it.        *)
LEMMA EventTaken ==
  ASSUME LineInv, EventInv, NEW e, Event(e)
  PROVE  /\ serving = NULL /\ e \in open \cup {Listener} /\ e \in Watched
         /\ batch' \in Seq(Watched) /\ IsInjective(batch')
         /\ Range(batch') = Range(batch) \ {e}
<1>1. batch \in Seq(Watched) /\ IsInjective(batch) /\ batch # << >>
  BY DEF Event, EventInv, EventTypeOK, EventsAreCurrent, Watched
<1>2. /\ batch' \in Seq(Watched) /\ IsInjective(batch')
      /\ e \in Range(batch)
      /\ Range(batch') = Range(batch) \ {e}
  BY <1>1, TailOfDistinct DEF Event
<1> QED
  BY <1>2 DEF Event, EventInv, EventsAreCurrent, LineInv, DataTypeOK, Watched

(* The closed socket leaves the list; nothing else changes in it.          *)
LEMMA CloseLeavesOthers ==
  ASSUME LineInv, EventInv, NEW s \in Fds, CloseSocket(s), waiting' = waiting
  PROVE  /\ ready' \in Seq(Watched)
         /\ ReadyIsSet'
         /\ PendingAreReady'
         /\ \A e \in Watched \ {s} : Pending(e)' <=> Pending(e)
<1>1. /\ ready' \in Seq(Watched) /\ IsInjective(ready')
      /\ Range(ready') = Range(ready) \ {s}
  <2>1. ready \in Seq(Watched) /\ IsInjective(ready) /\ ready' = RemoveFirst(ready, s)
    BY DEF EventInv, EventTypeOK, ReadyIsSet, CloseSocket, Watched
  <2> QED
    BY <2>1, RemoveOnly
<1>2. /\ open' = open \ {s} /\ over' = over \ {s}
      /\ unread' = [unread EXCEPT ![s] = << >>]
      /\ unread \in [Fds -> Seq(Bytes)] /\ open \subseteq Fds
  BY DEF CloseSocket, LineInv, DataTypeOK
<1>3. \A e \in Watched \ {s} : Pending(e)' <=> Pending(e)
  <2>1. ASSUME NEW e \in Watched \ {s} PROVE Pending(e)' <=> Pending(e)
    <3>1. CASE e = Listener
      BY <3>1 DEF Pending
    <3>2. CASE e \in Fds
      BY <1>2, <3>2, LoopAssumption DEF Pending
    <3> QED
      BY <3>1, <3>2 DEF Watched
  <2> QED
    BY <2>1
<1>4. s # Listener
  BY LoopAssumption
<1>5. ReadyIsSet'
  BY <1>1, <1>2, <1>4 DEF EventInv, ReadyIsSet
<1>6. PendingAreReady'
  BY <1>1, <1>2, <1>3, <1>4 DEF EventInv, PendingAreReady, Watched
<1> QED
  BY <1>1, <1>3, <1>5, <1>6

(* The handlers keep what the rest of the batch relies on.                 *)
LEMMA HandlersKeepEventInv ==
  ASSUME LineInv, EventInv, AcceptClient \/ \E s \in Fds : Receive(s) \/ Disconnect(s)
  PROVE  EventInv'
<1>1. CASE AcceptClient
  <2>1. /\ serving = NULL /\ Listener \in Watched
        /\ batch' \in Seq(Watched) /\ IsInjective(batch')
        /\ Range(batch') = Range(batch) \ {Listener}
    BY <1>1, EventTaken DEF AcceptClient
  <2>2. UNCHANGED << over, unread, ready, serving >>
    BY <1>1 DEF AcceptClient
  <2>3. /\ open \subseteq open'
        /\ \A s \in open' \ open : s \in Fds /\ ~Pending(s)
        /\ waiting' > 0 => waiting > 0
    <3>1. CASE waiting = 0 \/ Fds \subseteq open
      BY <1>1, <3>1 DEF AcceptClient
    <3>2. CASE ~(waiting = 0 \/ Fds \subseteq open)
      <4>1. PICK s \in Fds : s \notin open /\ waiting' = waiting - 1 /\ open' = open \cup {s}
        BY <1>1, <3>2 DEF AcceptClient, LowestFree
      <4>2. ~Pending(s)
        BY <4>1, LoopAssumption DEF Pending, LineInv, DataTypeOK, ClosedAreEmpty
      <4>3. waiting \in Nat
        BY LoopAssumption DEF LineInv, DataTypeOK
      <4> QED
        BY <4>1, <4>2, <4>3
    <3> QED
      BY <3>1, <3>2
  <2>4. /\ \A e : e # Listener => Pending(e)' = Pending(e)
        /\ Pending(Listener)' => Pending(Listener)
    BY <2>2, <2>3 DEF Pending
  <2>5. EventTypeOK' /\ ReadyIsSet' /\ ServedIsTaken'
    BY <2>1, <2>2, <2>3
       DEF EventInv, EventTypeOK, ReadyIsSet, ServedIsTaken, Watched
  <2>6. PendingAreReady'
    BY <2>2, <2>3, <2>4, LoopAssumption DEF EventInv, PendingAreReady
  <2>7. EventsAreCurrent'
    BY <2>1, <2>3, <2>4 DEF EventInv, EventsAreCurrent
  <2> QED
    BY <2>5, <2>6, <2>7 DEF EventInv
<1>2. ASSUME NEW s \in Fds, Receive(s) PROVE EventInv'
  <2>1. /\ serving = NULL
        /\ batch' \in Seq(Watched) /\ IsInjective(batch')
        /\ Range(batch') = Range(batch) \ {s}
    BY <1>2, EventTaken DEF Receive
  <2>2. /\ unread' = [unread EXCEPT ![s] = SubSeq(@, Received(s) + 1, Len(@))]
        /\ serving' = s
        /\ UNCHANGED << waiting, open, over, ready >>
    BY <1>2 DEF Receive
  <2>3. unread[s] = << >> => SubSeq(unread[s], Received(s) + 1, Len(unread[s])) = << >>
    BY ReceivedParts DEF LineInv
  <2>4. \A e \in Watched : (e # s => Pending(e)' = Pending(e)) /\ (Pending(e)' => Pending(e))
    <3>1. ASSUME NEW e \in Watched
          PROVE  (e # s => Pending(e)' = Pending(e)) /\ (Pending(e)' => Pending(e))
      <4>1. CASE e = Listener
        BY <2>2, <4>1 DEF Pending
      <4>2. CASE e \in Fds
        BY <2>2, <2>3, <4>2, LoopAssumption DEF Pending, LineInv, DataTypeOK
      <4> QED
        BY <4>1, <4>2 DEF Watched
    <3> QED
      BY <3>1
  <2>5. EventTypeOK' /\ ReadyIsSet' /\ ServedIsTaken'
    BY <2>1, <2>2 DEF EventInv, EventTypeOK, ReadyIsSet, ServedIsTaken, Watched
  <2>6. PendingAreReady'
    BY <2>2, <2>4 DEF EventInv, PendingAreReady, LineInv, DataTypeOK, Watched
  <2>7. EventsAreCurrent'
    BY <2>1, <2>2, <2>4 DEF EventInv, EventsAreCurrent, LineInv, DataTypeOK, Watched
  <2> QED
    BY <2>5, <2>6, <2>7 DEF EventInv
<1>3. ASSUME NEW s \in Fds, Disconnect(s) PROVE EventInv'
  <2>1. /\ batch' \in Seq(Watched) /\ IsInjective(batch')
        /\ Range(batch') = Range(batch) \ {s}
    BY <1>3, EventTaken DEF Disconnect
  <2>2. CloseSocket(s) /\ waiting' = waiting /\ serving' = serving
    BY <1>3 DEF Disconnect
  <2>3. /\ ready' \in Seq(Watched) /\ ReadyIsSet' /\ PendingAreReady'
        /\ \A e \in Watched \ {s} : Pending(e)' <=> Pending(e)
    BY <2>2, CloseLeavesOthers
  <2>4. EventTypeOK' /\ ServedIsTaken'
    BY <2>1, <2>2, <2>3 DEF EventInv, EventTypeOK, ServedIsTaken, Watched
  <2>5. open' = open \ {s}
    BY <2>2 DEF CloseSocket
  <2>6. EventsAreCurrent'
    BY <2>1, <2>3, <2>5 DEF EventInv, EventsAreCurrent, LineInv, DataTypeOK, Watched
  <2> QED
    BY <2>3, <2>4, <2>6 DEF EventInv
<1> QED
  BY <1>1, <1>2, <1>3

(* So do the commands: only the served socket is closed, and it was taken. *)
LEMMA CommandsKeepEventInv ==
  ASSUME LineInv, EventInv, CutCommand \/ RunCommand \/ Return
  PROVE  EventInv'
<1>1. CASE CutCommand
  BY <1>1 DEF CutCommand, socketVars, EventInv, EventTypeOK, ReadyIsSet, ServedIsTaken,
     PendingAreReady, EventsAreCurrent, Pending
<1>2. CASE Return
  <2>1. serving' = NULL /\ UNCHANGED << waiting, open, over, unread, ready, batch >>
    BY <1>2 DEF Return, socketVars
  <2>2. NULL \notin Watched
    BY LoopAssumption DEF Watched
  <2>3. NULL \notin Range(batch)
    BY <2>2 DEF EventInv, EventsAreCurrent, LineInv, DataTypeOK, Watched
  <2> QED
    BY <2>1, <2>3 DEF EventInv, EventTypeOK, ReadyIsSet, ServedIsTaken,
       PendingAreReady, EventsAreCurrent, Pending
<1>3. CASE RunCommand
  <2>1. /\ serving \in Fds
        /\ UNCHANGED << waiting, batch, serving >>
        /\ CloseSocket(serving) \/ UNCHANGED << open, over, unread, ready >>
    BY <1>3 DEF RunCommand, LineInv, DataTypeOK
  <2>2. CASE CloseSocket(serving)
    <3>1. /\ ready' \in Seq(Watched) /\ ReadyIsSet' /\ PendingAreReady'
          /\ \A e \in Watched \ {serving} : Pending(e)' <=> Pending(e)
      BY <2>1, <2>2, CloseLeavesOthers
    <3>2. EventTypeOK' /\ ServedIsTaken'
      BY <2>1, <3>1 DEF EventInv, EventTypeOK, ServedIsTaken, Watched
    <3>3. open' = open \ {serving}
      BY <2>2 DEF CloseSocket
    <3>4. EventsAreCurrent'
      BY <2>1, <3>1, <3>3
         DEF EventInv, EventsAreCurrent, ServedIsTaken, LineInv, DataTypeOK, Watched
    <3> QED
      BY <3>1, <3>2, <3>4 DEF EventInv
  <2>3. CASE UNCHANGED << open, over, unread, ready >>
    BY <2>1, <2>3 DEF EventInv, EventTypeOK, ReadyIsSet, ServedIsTaken,
       PendingAreReady, EventsAreCurrent, Pending
  <2> QED
    BY <2>1, <2>2, <2>3
<1> QED
  BY <1>1, <1>2, <1>3

-----------------------------------------------------------------------------
(* At the start there is no event.                                         *)
LEMMA InitEventInv ==
  ASSUME Init
  PROVE  EventInv
<1>1. << >> \in Seq(Fds \cup {Listener}) /\ DOMAIN << >> = {}
  OBVIOUS
<1>2. Range(<< >>) = {} /\ IsInjective(<< >>)
  BY <1>1 DEF Range, IsInjective
<1>3. EventTypeOK /\ ReadyIsSet /\ ServedIsTaken /\ EventsAreCurrent
  BY <1>1, <1>2 DEF Init, EventTypeOK, ReadyIsSet, ServedIsTaken, EventsAreCurrent
<1>4. PendingAreReady
  BY LoopAssumption DEF Init, PendingAreReady, Pending
<1> QED
  BY <1>3, <1>4 DEF EventInv

(***************************************************************************)
(* The list of epoll has each socket once and all that have something, and *)
(* what is left of a batch stays true while its events are handled.        *)
(***************************************************************************)
THEOREM EventInvariant == Spec => []EventInv
<1>1. LineInv /\ EventInv /\ [Next]_vars => EventInv'
  <2> SUFFICES ASSUME LineInv, EventInv, [Next]_vars PROVE EventInv'
    OBVIOUS
  <2>1. CASE Client
    BY <2>1, ClientKeepsEventInv
  <2>2. CASE Wait
    BY <2>2, WaitKeepsEventInv
  <2>3. CASE AcceptClient \/ \E s \in Fds : Receive(s) \/ Disconnect(s)
    BY <2>3, HandlersKeepEventInv
  <2>4. CASE CutCommand \/ RunCommand \/ Return
    BY <2>4, CommandsKeepEventInv
  <2>5. CASE UNCHANGED vars
    BY <2>5 DEF vars, socketVars, EventInv, EventTypeOK, ReadyIsSet, ServedIsTaken,
       PendingAreReady, EventsAreCurrent, Pending
  <2> QED
    BY <2>1, <2>2, <2>3, <2>4, <2>5 DEF Next, Server
<1> QED
  BY InitEventInv, <1>1, LineInvariant, PTL DEF Spec

(***************************************************************************)
(* No handler closes a socket whose event is still to be handled, and none *)
(* takes away what was reported of it.                                     *)
(***************************************************************************)
THEOREM EventsStayCurrent == Spec => []EventsAreCurrent
<1>1. EventInv => EventsAreCurrent
  BY DEF EventInv
<1> QED
  BY <1>1, EventInvariant, PTL

(* No socket with something to read is forgotten by epoll.                 *)
THEOREM NothingPendingIsForgotten == Spec => []PendingAreReady
<1>1. EventInv => PendingAreReady
  BY DEF EventInv
<1> QED
  BY <1>1, EventInvariant, PTL

(* Every variable of the loop keeps its type.                              *)
THEOREM LoopTypes == Spec => []TypeOK
<1>1. LineInv /\ EventInv => TypeOK
  BY DEF LineInv, EventInv, TypeOK
<1> QED
  BY <1>1, LineInvariant, EventInvariant, PTL

=============================================================================
