----------------------------- MODULE LoopProofs -----------------------------
(***************************************************************************)
(* The loop of the server: its invariants, and that each of its steps is   *)
(* one of LineService or none, for any number of sockets and any sizes of  *)
(* the buffers and of the batches.                                         *)
(***************************************************************************)
EXTENDS EventLoop, SequenceLemmas

-----------------------------------------------------------------------------
(* What find("\n") returns.                                                *)
LEMMA FindLFResult ==
  ASSUME NEW b \in Seq(Bytes), HasLF(b)
  PROVE  /\ FindLF(b) \in 1..Len(b)
         /\ b[FindLF(b)] = LF
         /\ \A j \in 1..(FindLF(b) - 1) : b[j] # LF
<1> DEFINE ends == {i \in 1..Len(b) : b[i] = LF}
<1>1. ends # {} /\ ends \subseteq Nat
  BY DEF HasLF
<1>2. Min(ends) \in ends /\ \A j \in ends : Min(ends) <= j
  BY <1>1, MinInSet
<1>3. \A j \in 1..(Min(ends) - 1) : b[j] # LF
  BY <1>2
<1>4. \E i \in DOMAIN b : b[i] = LF /\ \A j \in 1..(i - 1) : b[j] # LF
  BY <1>2, <1>3
<1>5. FindLF(b) = CHOOSE i \in DOMAIN b : b[i] = LF /\ \A j \in 1..(i - 1) : b[j] # LF
  BY DEF FindLF
<1> QED
  BY <1>4, <1>5

(* What find("\r\n") returns.                                              *)
LEMMA FindCrLfResult ==
  ASSUME NEW b \in Seq(Bytes)
  PROVE  \/ FindCrLf(b) = 0 /\ \A i \in DOMAIN b : ~CrLfAt(b, i)
         \/ /\ FindCrLf(b) \in DOMAIN b
            /\ CrLfAt(b, FindCrLf(b))
            /\ \A j \in 1..(FindCrLf(b) - 1) : ~CrLfAt(b, j)
<1> DEFINE pairs == {i \in 1..Len(b) : CrLfAt(b, i)}
<1>1. CASE pairs = {}
  BY <1>1 DEF FindCrLf
<1>2. CASE pairs # {}
  <2>1. pairs \subseteq Nat
    OBVIOUS
  <2>2. Min(pairs) \in pairs /\ \A j \in pairs : Min(pairs) <= j
    BY <1>2, <2>1, MinInSet
  <2>3. \A j \in 1..(Min(pairs) - 1) : ~CrLfAt(b, j)
    BY <2>2
  <2>4. \E i \in DOMAIN b : CrLfAt(b, i) /\ \A j \in 1..(i - 1) : ~CrLfAt(b, j)
    BY <2>2, <2>3
  <2>5. \E i \in DOMAIN b : CrLfAt(b, i)
    BY <2>4
  <2>6. FindCrLf(b) = CHOOSE i \in DOMAIN b : CrLfAt(b, i) /\ \A j \in 1..(i - 1) : ~CrLfAt(b, j)
    BY <2>5 DEF FindCrLf
  <2> QED
    BY <2>4, <2>6
<1> QED
  BY <1>1, <1>2

(* The end of a line: a CR just before the first LF, or that LF.           *)
LEMMA EndOfLine ==
  ASSUME NEW b \in Seq(Bytes), HasLF(b)
  PROVE  LET e == FindLF(b) IN
         IF e > 1 /\ b[e - 1] = CR
           THEN EndPos(b) = e - 1 /\ b[EndPos(b)] = CR
           ELSE EndPos(b) = e /\ b[EndPos(b)] = LF
<1> DEFINE e == FindLF(b)
           c == FindCrLf(b)
<1>1. /\ e \in 1..Len(b) /\ b[e] = LF
      /\ \A j \in 1..(e - 1) : b[j] # LF
  BY FindLFResult
<1>2. Len(b) \in Nat /\ DOMAIN b = 1..Len(b)
  OBVIOUS
<1>3. CR # LF
  BY LoopAssumption
<1>4. CASE c = 0 /\ \A i \in DOMAIN b : ~CrLfAt(b, i)
  <2>1. ~(e > 1 /\ b[e - 1] = CR)
    BY <1>1, <1>2, <1>4 DEF CrLfAt
  <2>2. EndPos(b) = e
    BY <1>4 DEF EndPos
  <2> QED
    BY <1>1, <2>1, <2>2
<1>5. CASE /\ c \in DOMAIN b /\ CrLfAt(b, c)
           /\ \A j \in 1..(c - 1) : ~CrLfAt(b, j)
  <2>1. c \in 1..Len(b) /\ c + 1 \in 1..Len(b) /\ b[c] = CR /\ b[c + 1] = LF
    BY <1>5, <1>2 DEF CrLfAt
  <2> HIDE DEF c, e
  <2>2. e <= c + 1 /\ e # c
    BY <1>1, <1>3, <2>1
  <2>3. CASE c < e
    <3>1. e = c + 1
      BY <2>1, <2>2, <2>3, <1>1
    <3>2. EndPos(b) = c
      BY <2>1, <2>3 DEF EndPos, c, e
    <3>3. e - 1 = c /\ e > 1
      BY <3>1, <2>1
    <3> QED
      BY <2>1, <3>2, <3>3 DEF e
  <2>4. CASE ~(c < e)
    <3>1. EndPos(b) = e
      BY <2>4 DEF EndPos, c, e
    <3>2. ASSUME e > 1, b[e - 1] = CR PROVE FALSE
      <4>1. e - 1 \in 1..(c - 1) /\ e - 1 \in 1..Len(b) /\ (e - 1) + 1 = e
        BY <3>2, <2>1, <2>2, <2>4, <1>1
      <4>2. CrLfAt(b, e - 1)
        BY <4>1, <3>2, <1>1, <1>2 DEF CrLfAt
      <4> QED
        BY <4>1, <4>2, <1>5 DEF c
    <3> QED
      BY <3>1, <3>2, <1>1 DEF e
  <2> QED
    BY <2>3, <2>4
<1> QED
  BY <1>4, <1>5, FindCrLfResult

(* Dropping a prefix of the first part of a concatenation.                 *)
LEMMA DropOfConcat ==
  ASSUME NEW S, NEW b \in Seq(S), NEW u \in Seq(S), NEW n \in 0..Len(b)
  PROVE  /\ SubSeq(b, n + 1, Len(b)) \in Seq(S)
         /\ SubSeq(b \o u, n + 1, Len(b \o u)) = SubSeq(b, n + 1, Len(b)) \o u
<1> DEFINE w == b \o u
           d == SubSeq(b, n + 1, Len(b))
           l == SubSeq(w, n + 1, Len(w))
           r == d \o u
<1>1. Len(b) \in Nat /\ Len(u) \in Nat /\ n \in Nat
  OBVIOUS
<1>2. /\ w \in Seq(S) /\ Len(w) = Len(b) + Len(u)
      /\ \A i \in 1..(Len(b) + Len(u)) :
           w[i] = IF i <= Len(b) THEN b[i] ELSE u[i - Len(b)]
  BY ConcatProperties
<1>3. /\ d \in Seq(S) /\ Len(d) = Len(b) - n
      /\ \A i \in 1..(Len(b) - n) : d[i] = b[n + i]
  OBVIOUS
<1> HIDE DEF w, d
<1>4. /\ r \in Seq(S) /\ Len(r) = (Len(b) - n) + Len(u)
      /\ \A i \in 1..((Len(b) - n) + Len(u)) :
           r[i] = IF i <= Len(b) - n THEN d[i] ELSE u[i - (Len(b) - n)]
  <2>1. /\ r \in Seq(S) /\ Len(r) = Len(d) + Len(u)
        /\ \A i \in 1..(Len(d) + Len(u)) :
             r[i] = IF i <= Len(d) THEN d[i] ELSE u[i - Len(d)]
    BY <1>3, ConcatProperties
  <2> HIDE DEF r
  <2> QED
    BY <2>1, <1>3
<1>5. /\ l \in Seq(S) /\ Len(l) = (Len(b) + Len(u)) - n
      /\ \A i \in 1..((Len(b) + Len(u)) - n) : l[i] = w[n + i]
  <2>1. n + 1 \in Int /\ Len(w) \in Int /\ \A i \in (n + 1)..Len(w) : w[i] \in S
    BY <1>1, <1>2
  <2>2. /\ l \in Seq(S)
        /\ Len(l) = IF n + 1 <= Len(w) THEN Len(w) - (n + 1) + 1 ELSE 0
        /\ \A i \in 1..(Len(w) - (n + 1) + 1) : l[i] = w[(n + 1) + i - 1]
    BY <2>1, SubSeqProperties
  <2> HIDE DEF l
  <2>3. /\ Len(w) - (n + 1) + 1 = (Len(b) + Len(u)) - n
        /\ n + 1 > Len(w) => (Len(b) + Len(u)) - n = 0
        /\ \A i \in 1..((Len(b) + Len(u)) - n) : (n + 1) + i - 1 = n + i
    BY <1>1, <1>2
  <2> QED
    BY <2>2, <2>3
<1> HIDE DEF l, r
<1>6. ASSUME NEW i \in 1..Len(l) PROVE l[i] = r[i]
  <2>1. /\ i \in 1..((Len(b) + Len(u)) - n)
        /\ n + i \in 1..(Len(b) + Len(u))
    BY <1>1, <1>5
  <2>2. CASE i <= Len(b) - n
    BY <2>1, <2>2, <1>1, <1>2, <1>3, <1>4, <1>5
  <2>3. CASE ~(i <= Len(b) - n)
    <3>1. (n + i) - Len(b) = i - (Len(b) - n) /\ ~(n + i <= Len(b))
      BY <1>1, <2>1, <2>3
    <3>2. l[i] = u[(n + i) - Len(b)]
      BY <3>1, <2>1, <1>2, <1>5
    <3>3. r[i] = u[i - (Len(b) - n)]
      BY <2>1, <2>3, <1>1, <1>4
    <3> QED
      BY <3>1, <3>2, <3>3
  <2> QED
    BY <2>2, <2>3
<1>7. Len(l) = Len(r)
  BY <1>1, <1>4, <1>5
<1>8. l = r
  BY <1>4, <1>5, <1>6, <1>7, SeqEqual
<1> QED
  BY <1>3, <1>8 DEF l, r, w, d

(***************************************************************************)
(* What the loop of handleConnection cuts from the buffer is the first line*)
(* of everything that arrived, however much of it recv has brought so far. *)
(***************************************************************************)
LEMMA CutIsFirstLine ==
  ASSUME NEW b \in Seq(Bytes), NEW u \in Seq(Bytes), HasLF(b)
  PROVE  /\ Service!HasLine(b \o u)
         /\ Cut(b) = Service!FirstLine(b \o u)
         /\ Remaining(b) \o u = Service!Rest(b \o u)
         /\ Cut(b) \in Seq(Bytes)
         /\ Remaining(b) \in Seq(Bytes)
<1> DEFINE w == b \o u
           e == FindLF(b)
<1>1. /\ e \in 1..Len(b) /\ b[e] = LF
      /\ \A j \in 1..(e - 1) : b[j] # LF
  BY FindLFResult
<1>2. /\ Len(b) \in Nat /\ Len(u) \in Nat
      /\ w \in Seq(Bytes) /\ DOMAIN w = 1..(Len(b) + Len(u))
      /\ \A i \in 1..Len(b) : w[i] = b[i]
  BY ConcatProperties
<1>3. IF e > 1 /\ b[e - 1] = CR
        THEN EndPos(b) = e - 1 /\ b[EndPos(b)] = CR
        ELSE EndPos(b) = e /\ b[EndPos(b)] = LF
  BY EndOfLine
<1> HIDE DEF w, e
<1>4. Service!HasLine(w)
  BY <1>1, <1>2 DEF Service!HasLine
<1>5. Service!LineEnd(w) = e
  <2> DEFINE P(i) == i \in DOMAIN w /\ w[i] = LF /\ \A j \in 1..(i - 1) : w[j] # LF
  <2>1. P(e)
    BY <1>1, <1>2
  <2>2. ASSUME NEW i, P(i) PROVE i = e
    <3>1. i \in Int /\ i >= 1 /\ e \in Int /\ e >= 1 /\ w[e] = LF /\ w[i] = LF
      BY <2>2, <1>1, <1>2
    <3>2. ~(i < e)
      BY <3>1, <1>1, <1>2
    <3>3. ~(e < i)
      BY <3>1, <2>2
    <3> QED
      BY <3>1, <3>2, <3>3
  <2> QED
    BY <2>1, <2>2 DEF Service!LineEnd
<1>6. CR # LF
  BY LoopAssumption
<1>7. w[e - 1] = b[e - 1] \/ ~(e > 1)
  BY <1>1, <1>2
<1>8. Cut(b) \in Seq(Bytes) /\ Cut(b) = Service!FirstLine(w)
  <2> DEFINE n == IF e > 1 /\ b[e - 1] = CR THEN e - 2 ELSE e - 1
  <2>1. n \in 0..Len(b) /\ EndPos(b) - 1 = n
    BY <1>1, <1>2, <1>3
  <2>2. Cut(b) = SubSeq(b, 1, n)
    BY <2>1 DEF Cut
  <2>3. Service!FirstLine(w) = SubSeq(w, 1, n)
    BY <1>5, <1>7 DEF Service!FirstLine
  <2> HIDE DEF n
  <2>4. /\ SubSeq(b, 1, n) \in Seq(Bytes) /\ Len(SubSeq(b, 1, n)) = n
        /\ \A i \in 1..n : SubSeq(b, 1, n)[i] = b[i]
    BY <2>1, <1>2
  <2>5. /\ SubSeq(w, 1, n) \in Seq(Bytes) /\ Len(SubSeq(w, 1, n)) = n
        /\ \A i \in 1..n : SubSeq(w, 1, n)[i] = w[i]
    BY <2>1, <1>2
  <2>6. SubSeq(b, 1, n) = SubSeq(w, 1, n)
    BY <2>1, <2>4, <2>5, <1>2, SeqEqual
  <2> QED
    BY <2>2, <2>3, <2>4, <2>6
<1>9. Remaining(b) = SubSeq(b, e + 1, Len(b))
  <2>1. CASE e > 1 /\ b[e - 1] = CR
    <3>1. EndPos(b) = e - 1 /\ b[EndPos(b)] = CR
      BY <1>3, <2>1
    <3>2. EndPos(b) + 2 = e + 1
      BY <3>1, <1>1
    <3> QED
      BY <3>1, <3>2 DEF Remaining
  <2>2. CASE ~(e > 1 /\ b[e - 1] = CR)
    <3>1. EndPos(b) = e /\ b[EndPos(b)] # CR
      BY <1>3, <1>6, <2>2
    <3> QED
      BY <3>1 DEF Remaining
  <2> QED
    BY <2>1, <2>2
<1>10. /\ SubSeq(b, e + 1, Len(b)) \in Seq(Bytes)
       /\ SubSeq(w, e + 1, Len(w)) = SubSeq(b, e + 1, Len(b)) \o u
  <2>1. e \in 0..Len(b)
    BY <1>1
  <2> QED
    BY <2>1, DropOfConcat DEF w
<1>11. Service!Rest(w) = SubSeq(w, e + 1, Len(w))
  BY <1>5 DEF Service!Rest
<1> QED
  BY <1>4, <1>8, <1>9, <1>10, <1>11 DEF w

-----------------------------------------------------------------------------
(* What recv moves from the socket to the buffer.                          *)
LEMMA ReceivedParts ==
  ASSUME DataTypeOK, NEW s \in Fds
  PROVE  LET front == SubSeq(unread[s], 1, Received(s))
             back == SubSeq(unread[s], Received(s) + 1, Len(unread[s])) IN
         /\ front \in Seq(Bytes) /\ back \in Seq(Bytes)
         /\ unread[s] = front \o back
         /\ unread[s] = << >> => back = << >>
<1> DEFINE n == Received(s)
           front == SubSeq(unread[s], 1, n)
           back == SubSeq(unread[s], n + 1, Len(unread[s]))
<1>1. unread[s] \in Seq(Bytes) /\ Len(unread[s]) \in Nat
  BY DEF DataTypeOK
<1>2. n \in 0..Len(unread[s])
  BY <1>1, LoopAssumption DEF Received
<1> HIDE DEF n
<1>3. front \in Seq(Bytes) /\ back \in Seq(Bytes)
  BY <1>1, <1>2
<1>4. front \o back = unread[s]
  <2>1. front \o back = SubSeq(unread[s], 1, Len(unread[s]))
    <3>1. /\ 1 \in 1..(Len(unread[s]) + 1) /\ n \in (1 - 1)..Len(unread[s])
          /\ Len(unread[s]) \in n..Len(unread[s])
      BY <1>1, <1>2
    <3> QED
      BY <3>1, <1>1, ConcatAdjacentSubSeq
  <2> QED
    BY <2>1, <1>1, SubSeqFull
<1>5. unread[s] = << >> => back = << >>
  <2>1. unread[s] = << >> => Len(unread[s]) = 0
    OBVIOUS
  <2>2. unread[s] = << >> => Len(unread[s]) < n + 1
    BY <2>1, <1>2
  <2> QED
    BY <2>2, <1>1, <1>2, SubSeqEmpty
<1> QED
  BY <1>3, <1>4, <1>5 DEF n

(* What a client does leaves the lines that are being cut alone.           *)
LEMMA ClientKeepsLineInv ==
  ASSUME LineInv, Client
  PROVE  LineInv'
<1> USE DEF LineInv, DataTypeOK, ClosedAreEmpty, IdleHasNoCommands, OnlyServedHasLines, HasLF
<1>1. CASE Dial
  <2>1. waiting' \in 0 .. Backlog
    <3>1. waiting \in 0 .. Backlog /\ waiting < Backlog /\ waiting' = waiting + 1
      BY <1>1 DEF Dial
    <3> QED
      BY <3>1, LoopAssumption
  <2>2. UNCHANGED << open, over, unread, partial, serving, commands >>
    BY <1>1 DEF Dial, serverVars
  <2> QED
    BY <2>1, <2>2
<1>2. ASSUME NEW s \in Fds, HangUp(s) PROVE LineInv'
  BY <1>2 DEF HangUp, serverVars
<1>3. ASSUME NEW s \in Fds, NEW b \in Bytes, Send(s, b) PROVE LineInv'
  <2>1. Append(unread[s], b) \in Seq(Bytes)
    BY <1>3
  <2>2. /\ unread' = [unread EXCEPT ![s] = Append(@, b)]
        /\ UNCHANGED << waiting, open, over, partial, serving, commands >>
        /\ s \in open
    BY <1>3 DEF Send, serverVars
  <2> QED
    BY <2>1, <2>2
<1> QED
  BY <1>1, <1>2, <1>3 DEF Client

(* A socket that closes has nothing left to read.                          *)
LEMMA CloseKeepsSockets ==
  ASSUME DataTypeOK, ClosedAreEmpty, NEW s \in Fds, CloseSocket(s)
  PROVE  /\ open' \in SUBSET Fds /\ over' \in SUBSET open'
         /\ unread' \in [Fds -> Seq(Bytes)]
         /\ ClosedAreEmpty'
<1>1. << >> \in Seq(Bytes)
  OBVIOUS
<1> QED
  BY <1>1 DEF DataTypeOK, ClosedAreEmpty, CloseSocket

(* Every step of the server keeps the data and the lines in order.         *)
LEMMA ServerKeepsLineInv ==
  ASSUME LineInv, Server
  PROVE  LineInv'
<1>1. CASE Wait
  BY <1>1 DEF LineInv, DataTypeOK, ClosedAreEmpty, IdleHasNoCommands, OnlyServedHasLines,
     HasLF, Wait, socketVars
<1>2. CASE AcceptClient
  <2>1. /\ waiting' \in 0 .. Backlog
        /\ open' \in SUBSET Fds /\ open \subseteq open'
        /\ UNCHANGED << over, unread, partial, serving, commands >>
    <3>1. CASE waiting = 0 \/ Fds \subseteq open
      BY <1>2, <3>1 DEF LineInv, DataTypeOK, AcceptClient
    <3>2. CASE ~(waiting = 0 \/ Fds \subseteq open)
      <4>1. PICK s \in Fds : waiting' = waiting - 1 /\ open' = open \cup {s}
        BY <1>2, <3>2 DEF AcceptClient
      <4>2. waiting - 1 \in 0 .. Backlog
        BY <3>2, LoopAssumption DEF LineInv, DataTypeOK
      <4>3. UNCHANGED << over, unread, partial, serving, commands >>
        BY <1>2 DEF AcceptClient
      <4> QED
        BY <4>1, <4>2, <4>3 DEF LineInv, DataTypeOK
    <3> QED
      BY <3>1, <3>2
  <2> QED
    BY <2>1 DEF LineInv, DataTypeOK, ClosedAreEmpty, IdleHasNoCommands, OnlyServedHasLines, HasLF
<1>3. ASSUME NEW s \in Fds, Receive(s) PROVE LineInv'
  <2> DEFINE front == SubSeq(unread[s], 1, Received(s))
             back == SubSeq(unread[s], Received(s) + 1, Len(unread[s]))
  <2>1. /\ front \in Seq(Bytes) /\ back \in Seq(Bytes)
        /\ unread[s] = << >> => back = << >>
    BY ReceivedParts DEF LineInv
  <2>2. /\ partial' = [partial EXCEPT ![s] = @ \o front]
        /\ unread' = [unread EXCEPT ![s] = back]
        /\ serving' = s
        /\ UNCHANGED << waiting, open, over, commands >>
    BY <1>3 DEF Receive
  <2> HIDE DEF front, back
  <2>3. partial[s] \o front \in Seq(Bytes)
    BY <2>1, ConcatProperties DEF LineInv, DataTypeOK
  <2>4. NULL \notin Fds
    BY LoopAssumption
  <2>5. unread' \in [Fds -> Seq(Bytes)] /\ partial' \in [Fds -> Seq(Bytes)]
    BY <2>1, <2>2, <2>3 DEF LineInv, DataTypeOK
  <2>6. ClosedAreEmpty'
    BY <2>1, <2>2 DEF LineInv, DataTypeOK, ClosedAreEmpty
  <2>7. OnlyServedHasLines'
    <3>1. serving = NULL
      BY <1>3 DEF Receive, Event
    <3>2. \A t \in Fds \ {s} : partial'[t] = partial[t] /\ ~HasLF(partial[t])
      BY <2>2, <2>4, <3>1 DEF LineInv, DataTypeOK, OnlyServedHasLines
    <3> QED
      BY <2>2, <3>2 DEF OnlyServedHasLines
  <2> QED
    BY <2>2, <2>4, <2>5, <2>6, <2>7 DEF LineInv, DataTypeOK, IdleHasNoCommands
<1>4. ASSUME NEW s \in Fds, Disconnect(s) PROVE LineInv'
  <2>1. CloseSocket(s) /\ UNCHANGED << waiting, partial, serving, commands >>
    BY <1>4 DEF Disconnect
  <2> QED
    BY <2>1, CloseKeepsSockets
       DEF LineInv, DataTypeOK, IdleHasNoCommands, OnlyServedHasLines, HasLF
<1>5. CASE CutCommand
  <2>1. serving \in Fds /\ serving # NULL /\ partial[serving] \in Seq(Bytes)
        /\ HasLF(partial[serving])
    BY <1>5 DEF LineInv, DataTypeOK, CutCommand
  <2>2. Cut(partial[serving]) \in Seq(Bytes) /\ Remaining(partial[serving]) \in Seq(Bytes)
    <3>1. << >> \in Seq(Bytes)
      OBVIOUS
    <3> QED
      BY <2>1, <3>1, CutIsFirstLine
  <2>3. /\ commands' = Append(commands, Cut(partial[serving]))
        /\ partial' = [partial EXCEPT ![serving] = Remaining(partial[serving])]
        /\ UNCHANGED << waiting, open, over, unread, serving >>
    BY <1>5 DEF CutCommand, socketVars
  <2>4. commands' \in Seq(Seq(Bytes))
    BY <2>2, <2>3, AppendProperties DEF LineInv, DataTypeOK
  <2>5. partial' \in [Fds -> Seq(Bytes)]
    BY <2>1, <2>2, <2>3 DEF LineInv, DataTypeOK
  <2> QED
    BY <2>1, <2>3, <2>4, <2>5
       DEF LineInv, DataTypeOK, ClosedAreEmpty, IdleHasNoCommands, OnlyServedHasLines
<1>6. CASE RunCommand
  <2>1. /\ serving \in Fds /\ serving # NULL
        /\ commands # << >> /\ commands' = Tail(commands)
        /\ CloseSocket(serving) \/ UNCHANGED << open, over, unread >>
        /\ UNCHANGED << waiting, partial, serving >>
    BY <1>6 DEF LineInv, DataTypeOK, RunCommand
  <2>2. commands' \in Seq(Seq(Bytes))
    BY <2>1, HeadTailProperties DEF LineInv, DataTypeOK
  <2>3. /\ open' \in SUBSET Fds /\ over' \in SUBSET open'
        /\ unread' \in [Fds -> Seq(Bytes)]
        /\ ClosedAreEmpty'
    BY <2>1, CloseKeepsSockets DEF LineInv, DataTypeOK, ClosedAreEmpty
  <2> QED
    BY <2>1, <2>2, <2>3 DEF LineInv, DataTypeOK, IdleHasNoCommands, OnlyServedHasLines
<1>7. CASE Return
  <2>1. /\ serving # NULL /\ ~HasLF(partial[serving]) /\ commands = << >>
        /\ serving' = NULL
        /\ UNCHANGED << waiting, open, over, unread, partial, commands >>
    BY <1>7 DEF Return, socketVars
  <2> QED
    BY <2>1 DEF LineInv, DataTypeOK, ClosedAreEmpty, IdleHasNoCommands, OnlyServedHasLines, HasLF
<1> QED
  BY <1>1, <1>2, <1>3, <1>4, <1>5, <1>6, <1>7 DEF Server

-----------------------------------------------------------------------------
(* Concatenation of sequences of bytes is associative.                      *)
LEMMA BytesAssociative ==
  ASSUME NEW p \in Seq(Bytes), NEW f \in Seq(Bytes), NEW r \in Seq(Bytes)
  PROVE  (p \o f) \o r = p \o (f \o r)
  BY ConcatAssociative

(* What LineService is told of the buffers and of the commands.            *)
bytesOf == [s \in Fds |-> partial[s] \o unread[s]]

todoOf == [s \in Fds |-> IF s = serving THEN commands ELSE << >>]

(* What a client does, the service sees.                                   *)
LEMMA ClientRefines ==
  ASSUME LineInv, Client
  PROVE  Service!Next
<1>1. CASE Dial
  <2>1. Service!Dial
    BY <1>1 DEF Dial, serverVars, Service!Dial
  <2> QED
    BY <2>1 DEF Service!Next
<1>2. ASSUME NEW s \in Fds, HangUp(s) PROVE Service!Next
  <2>1. Service!HangUp(s)
    BY <1>2 DEF HangUp, serverVars, Service!HangUp
  <2> QED
    BY <2>1 DEF Service!Next
<1>3. ASSUME NEW s \in Fds, NEW b \in Bytes, Send(s, b) PROVE Service!Next
  <2>1. /\ unread' = [unread EXCEPT ![s] = Append(@, b)]
        /\ s \in open \ over
        /\ UNCHANGED << waiting, open, over, partial, serving, commands >>
    BY <1>3 DEF Send, serverVars
  <2>2. partial[s] \in Seq(Bytes) /\ unread[s] \in Seq(Bytes) /\ unread \in [Fds -> Seq(Bytes)]
    BY DEF LineInv, DataTypeOK
  <2>3. partial[s] \o Append(unread[s], b) = Append(partial[s] \o unread[s], b)
    <3>1. << b >> \in Seq(Bytes)
      OBVIOUS
    <3>2. /\ Append(unread[s], b) = unread[s] \o << b >>
          /\ Append(partial[s] \o unread[s], b) = (partial[s] \o unread[s]) \o << b >>
      BY <2>2, ConcatProperties, AppendIsConcat
    <3>3. (partial[s] \o unread[s]) \o << b >> = partial[s] \o (unread[s] \o << b >>)
      BY <2>2, <3>1, BytesAssociative
    <3> QED
      BY <3>2, <3>3
  <2>4. bytesOf' = [bytesOf EXCEPT ![s] = Append(@, b)]
    BY <2>1, <2>2, <2>3 DEF bytesOf
  <2>5. Service!Send(s, b)
    BY <2>1, <2>4 DEF Service!Send, bytesOf
  <2> QED
    BY <2>5 DEF Service!Next, Service!Bytes, Bytes
<1> QED
  BY <1>1, <1>2, <1>3 DEF Client

(* epoll_wait and recv are not visible to the service, nor is a return.    *)
LEMMA ReadingIsStutter ==
  ASSUME LineInv, Wait \/ Return \/ \E s \in Fds : Receive(s)
  PROVE  UNCHANGED Service!vars
<1>1. CASE Wait
  BY <1>1 DEF Wait, socketVars, Service!vars
<1>2. CASE Return
  <2>1. commands = << >> /\ UNCHANGED << waiting, open, over, partial, unread, commands >>
    BY <1>2 DEF Return, socketVars
  <2>2. UNCHANGED todoOf
    BY <2>1 DEF todoOf
  <2> QED
    BY <2>1, <2>2 DEF Service!vars, todoOf
<1>3. ASSUME NEW s \in Fds, Receive(s) PROVE UNCHANGED Service!vars
  <2> DEFINE front == SubSeq(unread[s], 1, Received(s))
             back == SubSeq(unread[s], Received(s) + 1, Len(unread[s]))
  <2>1. /\ front \in Seq(Bytes) /\ back \in Seq(Bytes)
        /\ unread[s] = front \o back
    BY ReceivedParts DEF LineInv
  <2>2. /\ partial' = [partial EXCEPT ![s] = @ \o front]
        /\ unread' = [unread EXCEPT ![s] = back]
        /\ serving = NULL
        /\ UNCHANGED << waiting, open, over, commands >>
    BY <1>3 DEF Receive, Event
  <2> HIDE DEF front, back
  <2>3. partial \in [Fds -> Seq(Bytes)] /\ unread \in [Fds -> Seq(Bytes)]
    BY DEF LineInv, DataTypeOK
  <2>4. (partial[s] \o front) \o back = partial[s] \o unread[s]
    <3>1. partial[s] \in Seq(Bytes)
      BY <2>3
    <3>2. (partial[s] \o front) \o back = partial[s] \o (front \o back)
      BY <2>1, <3>1, BytesAssociative
    <3> QED
      BY <2>1, <3>2
  <2>5. UNCHANGED bytesOf
    BY <2>2, <2>3, <2>4 DEF bytesOf
  <2>6. UNCHANGED todoOf
    <3>1. commands = << >> /\ commands' = << >>
      BY <2>2 DEF LineInv, IdleHasNoCommands
    <3> QED
      BY <3>1 DEF todoOf
  <2> QED
    BY <2>2, <2>5, <2>6 DEF Service!vars, bytesOf, todoOf
<1> QED
  BY <1>1, <1>2, <1>3

(* An accept is one the service may make: no command is waiting.           *)
LEMMA AcceptRefines ==
  ASSUME LineInv, AcceptClient
  PROVE  Service!Next \/ UNCHANGED Service!vars
<1>1. serving = NULL /\ UNCHANGED << over, unread, partial, serving, commands >>
  BY DEF AcceptClient, Event
<1>2. CASE waiting = 0 \/ Fds \subseteq open
  <2>1. UNCHANGED << waiting, open >>
    BY <1>2 DEF AcceptClient
  <2> QED
    BY <1>1, <2>1 DEF Service!vars
<1>3. CASE ~(waiting = 0 \/ Fds \subseteq open)
  <2>1. PICK s \in Fds : s \notin open /\ waiting' = waiting - 1 /\ open' = open \cup {s}
    BY <1>3 DEF AcceptClient, LowestFree
  <2>2. waiting > 0
    BY <1>3, LoopAssumption DEF LineInv, DataTypeOK
  <2>3. todoOf[s] = << >>
    BY <1>1, LoopAssumption DEF todoOf
  <2>4. Service!Accept(s)
    BY <1>1, <2>1, <2>2, <2>3 DEF Service!Accept, todoOf
  <2> QED
    BY <2>4 DEF Service!Next
<1> QED
  BY <1>2, <1>3

(* A closed connection had no line left and no command to run.             *)
LEMMA DisconnectRefines ==
  ASSUME LineInv, NEW s \in Fds, Disconnect(s)
  PROVE  Service!Next
<1>1. /\ serving = NULL /\ unread[s] = << >> /\ s \in over
      /\ CloseSocket(s)
      /\ UNCHANGED << waiting, partial, serving, commands >>
  BY DEF Disconnect, Event
<1>2. /\ unread \in [Fds -> Seq(Bytes)] /\ partial \in [Fds -> Seq(Bytes)]
      /\ over \subseteq open /\ s # serving
  BY <1>1, LoopAssumption DEF LineInv, DataTypeOK
<1>3. unread' = unread /\ open' = open \ {s} /\ over' = over \ {s}
  BY <1>1, <1>2 DEF CloseSocket
<1>4. bytesOf' = bytesOf /\ todoOf' = todoOf
  BY <1>1, <1>3 DEF bytesOf, todoOf
<1>5. bytesOf[s] = partial[s] /\ todoOf[s] = << >>
  <2>1. partial[s] \in Seq(Bytes)
    BY <1>2
  <2>2. partial[s] \o << >> = partial[s]
    BY <2>1, ConcatProperties
  <2> QED
    BY <1>1, <1>2, <2>2 DEF bytesOf, todoOf
<1>6. ~Service!HasLine(bytesOf[s])
  BY <1>2, <1>5 DEF LineInv, OnlyServedHasLines, HasLF, Service!HasLine
<1>7. Service!Close(s)
  BY <1>1, <1>2, <1>3, <1>4, <1>5, <1>6 DEF Service!Close, bytesOf, todoOf
<1> QED
  BY <1>7 DEF Service!Next

(* A command is cut: the service issues the first line.                    *)
LEMMA CutRefines ==
  ASSUME LineInv, CutCommand
  PROVE  Service!Next
<1>0. PICK s \in Fds : s = serving
  BY DEF LineInv, DataTypeOK, CutCommand
<1>1. /\ HasLF(partial[s]) /\ serving = s
      /\ commands' = Append(commands, Cut(partial[s]))
      /\ partial' = [partial EXCEPT ![s] = Remaining(partial[s])]
      /\ UNCHANGED << waiting, open, over, unread, serving >>
  BY <1>0 DEF CutCommand, socketVars
<1>2. /\ partial \in [Fds -> Seq(Bytes)] /\ unread \in [Fds -> Seq(Bytes)]
      /\ partial[s] \in Seq(Bytes) /\ unread[s] \in Seq(Bytes)
  BY <1>1 DEF LineInv, DataTypeOK
<1>3. /\ Service!HasLine(partial[s] \o unread[s])
      /\ Cut(partial[s]) = Service!FirstLine(partial[s] \o unread[s])
      /\ Remaining(partial[s]) \o unread[s] = Service!Rest(partial[s] \o unread[s])
  BY <1>1, <1>2, CutIsFirstLine
<1>4. bytesOf[s] = partial[s] \o unread[s] /\ todoOf[s] = commands
  BY <1>1 DEF bytesOf, todoOf
<1>5. bytesOf' = [bytesOf EXCEPT ![s] = Service!Rest(@)]
  BY <1>1, <1>2, <1>3, <1>4 DEF bytesOf
<1>6. todoOf' = [todoOf EXCEPT ![s] = Append(@, Service!FirstLine(bytesOf[s]))]
  BY <1>1, <1>3, <1>4 DEF todoOf
<1>7. Service!HasLine(bytesOf[s])
  BY <1>3, <1>4
<1>8. Service!Issue(s)
  BY <1>1, <1>5, <1>6, <1>7 DEF Service!Issue, bytesOf, todoOf
<1> QED
  BY <1>1, <1>8 DEF Service!Next

(* A command is run; a QUIT loses what recv has not brought.               *)
LEMMA RunRefines ==
  ASSUME LineInv, RunCommand
  PROVE  Service!Next
<1>0. PICK s \in Fds : s = serving
  BY DEF LineInv, DataTypeOK, RunCommand
<1>1. /\ ~HasLF(partial[s]) /\ serving = s
      /\ commands # << >> /\ commands' = Tail(commands)
      /\ UNCHANGED << waiting, partial, serving >>
  BY <1>0 DEF RunCommand
<1>2. /\ partial \in [Fds -> Seq(Bytes)] /\ unread \in [Fds -> Seq(Bytes)]
      /\ partial[s] \in Seq(Bytes) /\ unread[s] \in Seq(Bytes)
  BY <1>1 DEF LineInv, DataTypeOK
<1>3. bytesOf[s] = partial[s] \o unread[s] /\ todoOf[s] = commands
  BY <1>1 DEF bytesOf, todoOf
<1>4. todoOf' = [todoOf EXCEPT ![s] = Tail(@)]
  BY <1>1, <1>3 DEF todoOf
<1>5. CASE Head(commands) = << Quit >> /\ s \in open
  <2>1. /\ open' = open \ {s} /\ over' = over \ {s}
        /\ unread' = [unread EXCEPT ![s] = << >>]
    BY <1>1, <1>5 DEF RunCommand, CloseSocket
  <2>2. /\ Len(partial[s]) \in 0 .. Len(bytesOf[s])
        /\ SubSeq(bytesOf[s], 1, Len(partial[s])) = partial[s]
        /\ partial[s] \o << >> = partial[s]
    <3>1. /\ Len(partial[s]) \in Nat /\ Len(unread[s]) \in Nat
          /\ Len(partial[s] \o unread[s]) = Len(partial[s]) + Len(unread[s])
      BY <1>2, ConcatProperties, LenProperties
    <3>2. SubSeq(partial[s] \o unread[s], 1, Len(partial[s])) = partial[s]
      BY <1>2
    <3>3. partial[s] \o << >> = partial[s]
      BY <1>2, ConcatProperties
    <3>4. Len(partial[s]) \in 0 .. Len(partial[s] \o unread[s])
      <4>1. \A k, l \in Nat : k \in 0 .. k + l
        OBVIOUS
      <4> QED
        BY <3>1, <4>1, Zenon
    <3> QED
      BY <1>3, <3>2, <3>3, <3>4
  <2>3. bytesOf' = [bytesOf EXCEPT ![s] = SubSeq(@, 1, Len(partial[s]))]
    BY <1>1, <1>2, <2>1, <2>2 DEF bytesOf
  <2>4. ~Service!HasLine(SubSeq(bytesOf[s], 1, Len(partial[s])))
    BY <1>1, <2>2 DEF HasLF, Service!HasLine
  <2>5. \E n \in 0 .. Len(bytesOf[s]) :
          /\ ~Service!HasLine(SubSeq(bytesOf[s], 1, n))
          /\ bytesOf' = [bytesOf EXCEPT ![s] = SubSeq(@, 1, n)]
    BY <2>2, <2>3, <2>4
  <2> QED
    BY <1>1, <1>3, <1>4, <1>5, <2>1, <2>5 DEF Service!Next, Service!Run, bytesOf, todoOf
<1>6. CASE ~(Head(commands) = << Quit >> /\ s \in open)
  <2>1. UNCHANGED << open, over, unread >>
    BY <1>1, <1>6 DEF RunCommand
  <2>2. UNCHANGED bytesOf
    BY <1>1, <2>1 DEF bytesOf
  <2>3. todoOf[s] # << >> /\ ~(Head(todoOf[s]) = << Quit >> /\ s \in open)
    BY <1>1, <1>3, <1>6
  <2>4. Service!Run(s)
    BY <1>1, <1>4, <2>1, <2>2, <2>3 DEF Service!Run, bytesOf, todoOf
  <2> QED
    BY <1>1, <2>4 DEF Service!Next
<1> QED
  BY <1>5, <1>6

-----------------------------------------------------------------------------
(* The first state is in order.                                            *)
LEMMA InitLineInv ==
  ASSUME Init
  PROVE  LineInv
<1>1. << >> \in Seq(Bytes) /\ << >> \in Seq(Seq(Bytes))
  OBVIOUS
<1>2. DataTypeOK
  BY <1>1, LoopAssumption DEF Init, DataTypeOK
<1>3. ClosedAreEmpty /\ IdleHasNoCommands /\ OnlyServedHasLines
  BY DEF Init, ClosedAreEmpty, IdleHasNoCommands, OnlyServedHasLines, HasLF
<1> QED
  BY <1>2, <1>3 DEF LineInv

(***************************************************************************)
(* The data of the loop have their types, no byte is kept for a closed     *)
(* socket, and only the connection being served has lines to cut.          *)
(***************************************************************************)
THEOREM LineInvariant == Spec => []LineInv
<1>1. LineInv /\ [Next]_vars => LineInv'
  <2> SUFFICES ASSUME LineInv, [Next]_vars PROVE LineInv'
    OBVIOUS
  <2>1. CASE Client
    BY <2>1, ClientKeepsLineInv
  <2>2. CASE Server
    BY <2>2, ServerKeepsLineInv
  <2>3. CASE UNCHANGED vars
    BY <2>3 DEF vars, socketVars, LineInv, DataTypeOK, ClosedAreEmpty, IdleHasNoCommands,
       OnlyServedHasLines, HasLF
  <2> QED
    BY <2>1, <2>2, <2>3 DEF Next
<1> QED
  BY InitLineInv, <1>1, PTL DEF Spec

(***************************************************************************)
(* When handleConnection has returned, no buffer holds a whole line.       *)
(***************************************************************************)
THEOREM NoLineIsLeftBehind == Spec => []NoLineLeftBehind
<1>1. LineInv => NoLineLeftBehind
  BY LoopAssumption DEF LineInv, OnlyServedHasLines, NoLineLeftBehind
<1> QED
  BY <1>1, LineInvariant, PTL

(***************************************************************************)
(* Every step of the loop is one LineService may take or none of it can be *)
(* seen there: lines become commands whole, once and in order, wherever    *)
(* recv cuts what the client sent.                                         *)
(***************************************************************************)
THEOREM LoopKeepsLines == Spec => Service!Init /\ [][Service!Next]_(Service!vars)
<1>1. Init => Service!Init
  BY LoopAssumption DEF Init, Service!Init
<1>2. LineInv /\ [Next]_vars => [Service!Next]_(Service!vars)
  <2> SUFFICES ASSUME LineInv, [Next]_vars PROVE Service!Next \/ UNCHANGED Service!vars
    OBVIOUS
  <2>1. CASE Client
    BY <2>1, ClientRefines
  <2>2. CASE Wait \/ Return \/ \E s \in Fds : Receive(s)
    BY <2>2, ReadingIsStutter
  <2>3. CASE AcceptClient
    BY <2>3, AcceptRefines
  <2>4. CASE \E s \in Fds : Disconnect(s)
    BY <2>4, DisconnectRefines
  <2>5. CASE CutCommand
    BY <2>5, CutRefines
  <2>6. CASE RunCommand
    BY <2>6, RunRefines
  <2>7. CASE UNCHANGED vars
    BY <2>7 DEF vars, socketVars, Service!vars
  <2> QED
    BY <2>1, <2>2, <2>3, <2>4, <2>5, <2>6, <2>7 DEF Next, Server
<1> QED
  BY <1>1, <1>2, LineInvariant, PTL DEF Spec
=============================================================================
