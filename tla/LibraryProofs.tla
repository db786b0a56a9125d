--------------------------- MODULE LibraryProofs ----------------------------
(***************************************************************************)
(* What the runs of Library check, proved of any constants: each of the    *)
(* components by an inductive invariant of its own.                        *)
(***************************************************************************)
EXTENDS Library, Sequences, FiniteSets, SequenceTheorems, FiniteSetTheorems, TLAPS

-----------------------------------------------------------------------------
(* The receive path (RecvPath).                                            *)

(* How many bytes have left the socket: the callback has them, or the read *)
(* that is under way.                                                      *)
Taken == Len(heard) + IF recv_pc = "wait" THEN 0 ELSE Len(buffer)

(* The bytes are in order wherever they are, and none is missing between   *)
(* the callback, the buffer, the socket and, until a reset, the peer.      *)
StreamInv ==
    /\ \A i \in 1 .. Len(heard) : heard[i] = i
    /\ recv_pc # "wait" => \A i \in 1 .. Len(buffer) : buffer[i] = Len(heard) + i
    /\ \A i \in 1 .. Len(queue) : queue[i] = Taken + i
    /\ ended \in {"no", "fin"} => Taken + Len(queue) = sent

(* The count is that of the buffer until a reset is met, which ends the    *)
(* link; and why a link has gone tells what may be left unread.            *)
CountInv ==
    /\ Len(buffer) <= Cap
    /\ i_recv_size = Len(buffer) - (IF ended = "reported" THEN 1 ELSE 0)
    /\ ended \in {"reset", "reported"} => queue = <<>>
    /\ ended = "reported" => recv_pc = "read" \/ closed = "end"
    /\ recv_pc = "read" => closed = "no"
    /\ recv_live <=> closed = "no"
    /\ events \cap {"ERR", "RDHUP"} # {} => ended # "no"
    /\ closed = "hangup" => ended # "no" /\ recv_pc = "wait"
    /\ closed = "end" => \/ i_recv_size = Cap
                         \/ queue = <<>> /\ ended # "no"

(* The callback is told the truth of every buffer but the last one, if     *)
(* that has met a reset.                                                   *)
ToldInv ==
    /\ ended # "reported" \/ recv_pc # "wait" =>
            \A i \in 1 .. Len(told) : told[i].ui_size = told[i].size
    /\ Recv!SizeIsBufSize

RecvInv == Recv!TypeOK /\ StreamInv /\ CountInv /\ ToldInv

(* What is read of a queue of bytes, and what is left of it.               *)
LEMMA Split ==
    ASSUME NEW S, NEW q \in Seq(S), NEW n \in 1 .. Len(q)
    PROVE  /\ SubSeq(q, 1, n) \in Seq(S) /\ Len(SubSeq(q, 1, n)) = n
           /\ \A i \in 1 .. n : SubSeq(q, 1, n)[i] = q[i]
           /\ SubSeq(q, n + 1, Len(q)) \in Seq(S)
           /\ Len(SubSeq(q, n + 1, Len(q))) = Len(q) - n
           /\ \A i \in 1 .. (Len(q) - n) : SubSeq(q, n + 1, Len(q))[i] = q[n + i]
  OBVIOUS

(* And of what is put behind what was read before.                         *)
LEMMA Joined ==
    ASSUME NEW S, NEW q \in Seq(S), NEW r \in Seq(S)
    PROVE  /\ q \o r \in Seq(S) /\ Len(q \o r) = Len(q) + Len(r)
           /\ \A i \in 1 .. Len(q) : (q \o r)[i] = q[i]
           /\ \A i \in 1 .. Len(r) : (q \o r)[Len(q) + i] = r[i]
  OBVIOUS

(* Nothing has been sent at first.                                         *)
LEMMA RecvInit == Recv!ConstantsOK /\ Recv!Init => RecvInv
  <1> SUFFICES ASSUME Recv!ConstantsOK, Recv!Init PROVE RecvInv
    OBVIOUS
  <1>1. Recv!TypeOK
    BY DEF Recv!ConstantsOK, Recv!Init, Recv!TypeOK, Recv!Width, Recv!Event
  <1>2. StreamInv
    BY DEF Recv!Init, StreamInv, Taken
  <1>3. CountInv
    BY DEF Recv!ConstantsOK, Recv!Init, CountInv
  <1>4. ToldInv
    BY DEF Recv!Init, ToldInv, Recv!SizeIsBufSize
  <1> QED
    BY <1>1, <1>2, <1>3, <1>4 DEF RecvInv

(* Each step of the peer and of the worker keeps it.                       *)
LEMMA RecvStep ==
    ASSUME Recv!ConstantsOK, RecvInv, Recv!Next \/ UNCHANGED recvVars
    PROVE  RecvInv'
  <1> USE DEF Recv!ConstantsOK, RecvInv
  <1>1. ASSUME Recv!Establish PROVE RecvInv'
    <2> USE <1>1 DEF Recv!Establish, Recv!peerVars, Recv!linkVars, Recv!readVars, Recv!toldVars
    <2>1. Recv!TypeOK'
      BY DEF Recv!TypeOK, Recv!Event
    <2>2. StreamInv'
      BY DEF StreamInv, Taken, Recv!TypeOK
    <2>3. CountInv'
      BY DEF CountInv, Recv!TypeOK
    <2>4. ToldInv'
      BY DEF ToldInv, CountInv, Recv!SizeIsBufSize, Recv!TypeOK
    <2> QED
      BY <2>1, <2>2, <2>3, <2>4
  <1>2. ASSUME Recv!Arrives PROVE RecvInv'
    <2> USE <1>2 DEF Recv!Arrives, Recv!IsUp, Recv!peerVars, Recv!linkVars, Recv!readVars, Recv!toldVars
    <2>1. Recv!TypeOK'
      BY DEF Recv!TypeOK, Recv!Event
    <2>2. StreamInv'
      <3>1. /\ Len(queue') = Len(queue) + 1 /\ queue'[Len(queue) + 1] = sent + 1
            /\ \A i \in 1 .. Len(queue) : queue'[i] = queue[i]
        BY DEF Recv!TypeOK
      <3>2. Taken \in Nat /\ Len(queue) \in Nat /\ sent \in Nat
        BY DEF Taken, Recv!TypeOK
      <3>3. Taken + Len(queue) = sent /\ Taken' = Taken
        BY DEF StreamInv, Taken
      <3>4. ASSUME NEW i \in 1 .. Len(queue') PROVE queue'[i] = Taken' + i
        <4>1. CASE i \in 1 .. Len(queue)
          BY <3>1, <3>3, <4>1 DEF StreamInv
        <4>2. CASE i = Len(queue) + 1
          BY <3>1, <3>2, <3>3, <4>2
        <4> QED
          BY <3>1, <3>2, <4>1, <4>2
      <3>5. Taken' + Len(queue') = sent'
        BY <3>1, <3>2, <3>3
      <3> QED
        BY <3>4, <3>5 DEF StreamInv
    <2>3. CountInv'
      BY DEF CountInv, Recv!TypeOK
    <2>4. ToldInv'
      BY DEF ToldInv, CountInv, Recv!SizeIsBufSize, Recv!TypeOK
    <2> QED
      BY <2>1, <2>2, <2>3, <2>4
  <1>3. ASSUME Recv!Fin PROVE RecvInv'
    <2> USE <1>3 DEF Recv!Fin, Recv!IsUp, Recv!peerVars, Recv!linkVars, Recv!readVars, Recv!toldVars
    <2>1. Recv!TypeOK'
      BY DEF Recv!TypeOK, Recv!Event
    <2>2. StreamInv'
      BY DEF StreamInv, Taken, Recv!TypeOK
    <2>3. CountInv'
      BY DEF CountInv, Recv!TypeOK
    <2>4. ToldInv'
      BY DEF ToldInv, CountInv, Recv!SizeIsBufSize, Recv!TypeOK
    <2> QED
      BY <2>1, <2>2, <2>3, <2>4
  <1>4. ASSUME Recv!Reset PROVE RecvInv'
    <2> USE <1>4 DEF Recv!Reset, Recv!IsUp, Recv!peerVars, Recv!linkVars, Recv!readVars, Recv!toldVars
    <2>1. Recv!TypeOK'
      BY DEF Recv!TypeOK, Recv!Event
    <2>2. StreamInv'
      BY DEF StreamInv, Taken, Recv!TypeOK
    <2>3. CountInv'
      BY DEF CountInv, Recv!TypeOK
    <2>4. ToldInv'
      BY DEF ToldInv, CountInv, Recv!SizeIsBufSize, Recv!TypeOK
    <2> QED
      BY <2>1, <2>2, <2>3, <2>4
  <1>5. ASSUME Recv!Handle PROVE RecvInv'
    <2>1. /\ recv_pc = "wait" /\ recv_live /\ events' = {}
          /\ UNCHANGED <<sent, ended, queue, told, heard>>
          /\ \/ /\ Recv!IsDisconnected(events) /\ recv_live' = FALSE /\ closed' = "hangup"
                /\ UNCHANGED <<m_link_type, recv_pc, buffer, i_recv_size>>
             \/ /\ m_link_type' = "Connected"
                /\ UNCHANGED <<recv_live, closed, recv_pc, buffer, i_recv_size>>
             \/ /\ recv_pc' = "read" /\ buffer' = <<>> /\ i_recv_size' = 0
                /\ UNCHANGED <<m_link_type, recv_live, closed>>
             \/ UNCHANGED <<m_link_type, recv_live, closed, recv_pc, buffer, i_recv_size>>
      BY <1>5 DEF Recv!Handle, Recv!peerVars, Recv!linkVars, Recv!readVars, Recv!toldVars
    <2>2. Len(<<>>) = 0 /\ <<>> \in Seq(1 .. Bytes)
      OBVIOUS
    <2>3. closed = "no" /\ ended # "reported"
      BY <2>1 DEF CountInv
    <2>4. CASE UNCHANGED <<recv_pc, buffer, i_recv_size>>
      <3>1. m_link_type' \in {"Connect", "Connected", "Accept"} /\ recv_live' \in BOOLEAN
            /\ closed' \in {"no", "hangup", "end"}
        BY <2>1 DEF Recv!TypeOK
      <3>2. Recv!TypeOK'
        BY <2>1, <2>4, <3>1 DEF Recv!TypeOK
      <3>3. StreamInv' /\ ToldInv'
        BY <2>1, <2>4 DEF StreamInv, Taken, ToldInv, Recv!SizeIsBufSize
      <3>4. CountInv'
        <4>1. CASE Recv!IsDisconnected(events) /\ recv_live' = FALSE /\ closed' = "hangup"
          BY <2>1, <2>3, <2>4, <4>1 DEF CountInv, Recv!IsDisconnected
        <4>2. CASE UNCHANGED <<recv_live, closed>>
          BY <2>1, <2>3, <2>4, <4>2 DEF CountInv
        <4> QED
          BY <2>1, <4>1, <4>2
      <3> QED
        BY <3>2, <3>3, <3>4
    <2>5. CASE /\ recv_pc' = "read" /\ buffer' = <<>> /\ i_recv_size' = 0
               /\ UNCHANGED <<m_link_type, recv_live, closed>>
      <3>1. Len(buffer') = 0 /\ buffer' \in Seq(1 .. Bytes)
        BY <2>2, <2>5
      <3>2. Recv!TypeOK'
        BY <2>1, <2>5, <3>1 DEF Recv!TypeOK
      <3>3. Taken' = Taken
        BY <2>1, <2>5, <3>1 DEF Taken, Recv!TypeOK
      <3>4. StreamInv'
        BY <2>1, <2>5, <3>1, <3>3 DEF StreamInv
      <3>5. CountInv'
        BY <2>1, <2>3, <2>5, <3>1 DEF CountInv
      <3>6. ToldInv'
        BY <2>1, <2>3 DEF ToldInv, Recv!SizeIsBufSize
      <3> QED
        BY <3>2, <3>4, <3>5, <3>6
    <2> QED
      BY <2>1, <2>4, <2>5
  <1>6. ASSUME Recv!ReadSome PROVE RecvInv'
    <2>1. PICK n \in 1 .. Len(queue) :
            /\ n <= Recv!Room /\ buffer' = buffer \o SubSeq(queue, 1, n)
            /\ i_recv_size' = i_recv_size + n /\ queue' = SubSeq(queue, n + 1, Len(queue))
      BY <1>6 DEF Recv!ReadSome, Recv!Got
    <2>2. recv_pc = "read" /\ UNCHANGED <<sent, ended, events, m_link_type, recv_live, closed,
                                         recv_pc, told, heard>>
      BY <1>6 DEF Recv!ReadSome, Recv!peerVars, Recv!linkVars, Recv!toldVars
    <2>3. queue \in Seq(1 .. Bytes) /\ buffer \in Seq(1 .. Bytes) /\ heard \in Seq(1 .. Bytes)
      BY DEF Recv!TypeOK
    <2>4. /\ Len(queue) \in Nat /\ Len(buffer) \in Nat /\ Len(heard) \in Nat /\ n \in Nat
          /\ n >= 1 /\ n <= Len(queue)
      BY <2>3
    <2> DEFINE s == SubSeq(queue, 1, n)
    <2>5. /\ s \in Seq(1 .. Bytes) /\ Len(s) = n /\ \A i \in 1 .. n : s[i] = queue[i]
          /\ queue' \in Seq(1 .. Bytes) /\ Len(queue') = Len(queue) - n
          /\ \A i \in 1 .. (Len(queue) - n) : queue'[i] = queue[n + i]
      <3>1. /\ SubSeq(queue, 1, n) \in Seq(1 .. Bytes) /\ Len(SubSeq(queue, 1, n)) = n
            /\ \A i \in 1 .. n : SubSeq(queue, 1, n)[i] = queue[i]
        BY <2>3, Split
      <3>2. /\ SubSeq(queue, n + 1, Len(queue)) \in Seq(1 .. Bytes)
            /\ Len(SubSeq(queue, n + 1, Len(queue))) = Len(queue) - n
            /\ \A i \in 1 .. (Len(queue) - n) : SubSeq(queue, n + 1, Len(queue))[i] = queue[n + i]
        BY <2>3, Split
      <3> QED
        BY <2>1, <3>1, <3>2, Zenon
    <2> HIDE DEF s
    <2>6. /\ buffer' \in Seq(1 .. Bytes) /\ Len(buffer') = Len(buffer) + n
          /\ \A i \in 1 .. Len(buffer) : buffer'[i] = buffer[i]
          /\ \A i \in 1 .. n : buffer'[Len(buffer) + i] = s[i]
      <3>1. buffer' = buffer \o s
        BY <2>1 DEF s
      <3> QED
        <4> HIDE DEF RecvInv, Recv!ConstantsOK
        <4>1. /\ buffer \o s \in Seq(1 .. Bytes) /\ Len(buffer \o s) = Len(buffer) + Len(s)
              /\ \A i \in 1 .. Len(buffer) : (buffer \o s)[i] = buffer[i]
              /\ \A i \in 1 .. Len(s) : (buffer \o s)[Len(buffer) + i] = s[i]
          <5>1. buffer \in Seq(1 .. Bytes) /\ s \in Seq(1 .. Bytes)
            BY <2>3, <2>5
          <5> QED
            BY ONLY <5>1, Joined
        <4> QED
          BY <2>5, <3>1, <4>1, Zenon
    <2>7. ended # "reported" /\ i_recv_size = Len(buffer) /\ closed = "no"
      <3>1. queue # <<>>
        BY <2>3, <2>4
      <3> QED
        BY <2>2, <2>4, <3>1 DEF CountInv
    <2>8. i_recv_size' \in -1 .. Cap /\ i_recv_size' = Len(buffer') /\ Len(buffer') <= Cap
      BY <2>1, <2>4, <2>6, <2>7 DEF Recv!Room
    <2>9. Recv!TypeOK'
      BY <2>2, <2>5, <2>6, <2>8 DEF Recv!TypeOK
    <2>10. Taken = Len(heard) + Len(buffer) /\ Taken' = Taken + n
      BY <2>2, <2>4, <2>6 DEF Taken
    <2>11. StreamInv'
      <3>1. ASSUME NEW i \in 1 .. Len(buffer') PROVE buffer'[i] = Len(heard) + i
        <4>1. CASE i \in 1 .. Len(buffer)
          BY <2>2, <2>6, <4>1 DEF StreamInv
        <4>2. CASE i > Len(buffer)
          <5>1. i - Len(buffer) \in 1 .. n /\ i = Len(buffer) + (i - Len(buffer))
            BY <2>4, <2>6, <4>2
          <5>2. buffer'[i] = queue[i - Len(buffer)]
            BY <2>5, <2>6, <5>1
          <5>3. queue[i - Len(buffer)] = Taken + (i - Len(buffer))
            BY <2>4, <5>1 DEF StreamInv
          <5> QED
            BY <2>4, <2>10, <5>1, <5>2, <5>3
        <4> QED
          BY <2>4, <2>6, <4>1, <4>2
      <3>2. ASSUME NEW i \in 1 .. Len(queue') PROVE queue'[i] = Taken' + i
        <4>1. i \in 1 .. (Len(queue) - n)
          BY <2>5
        <4>2. queue'[i] = queue[n + i]
          BY <2>5, <4>1, Zenon
        <4>3. n + i \in 1 .. Len(queue) /\ i \in Int
          BY <2>4, <4>1
        <4>4. queue[n + i] = Taken + (n + i)
          BY <4>3 DEF StreamInv
        <4> QED
          BY <2>4, <2>10, <4>2, <4>3, <4>4
      <3>3. ended \in {"no", "fin"} => Taken' + Len(queue') = sent'
        BY <2>2, <2>4, <2>5, <2>10 DEF StreamInv
      <3> QED
        BY <2>2, <3>1, <3>2, <3>3 DEF StreamInv
    <2>12. CountInv'
      <3>1. ended \notin {"reset", "reported"}
        BY <2>3, <2>4 DEF CountInv
      <3> QED
        BY <2>2, <2>7, <2>8, <3>1 DEF CountInv
    <2>13. ToldInv'
      BY <2>2 DEF ToldInv, Recv!SizeIsBufSize
    <2> QED
      BY <2>9, <2>11, <2>12, <2>13
  <1>7. ASSUME Recv!ReadNothing PROVE RecvInv'
    <2> USE <1>7 DEF Recv!ReadNothing, Recv!Room, Recv!peerVars, Recv!linkVars, Recv!readVars, Recv!toldVars
    <2>1. Recv!TypeOK'
      BY DEF Recv!TypeOK, Recv!Event
    <2>2. StreamInv'
      BY DEF StreamInv, Taken, Recv!TypeOK
    <2>3. CountInv'
      BY DEF CountInv, Recv!TypeOK
    <2>4. ToldInv'
      BY DEF ToldInv, CountInv, Recv!SizeIsBufSize, Recv!TypeOK
    <2> QED
      BY <2>1, <2>2, <2>3, <2>4
  <1>8. ASSUME Recv!ReadReset PROVE RecvInv'
    <2> USE <1>8 DEF Recv!ReadReset, Recv!Room, Recv!peerVars, Recv!linkVars, Recv!readVars, Recv!toldVars
    <2>1. Recv!TypeOK'
      <3>1. i_recv_size = Len(buffer) /\ Len(buffer) \in Nat /\ Len(buffer) <= Cap
        BY DEF CountInv, Recv!TypeOK
      <3>2. i_recv_size - 1 \in -1 .. Cap
        BY <3>1
      <3> QED
        BY <3>2 DEF Recv!TypeOK
    <2>2. StreamInv'
      BY DEF StreamInv, Taken, Recv!TypeOK
    <2>3. CountInv'
      BY DEF CountInv, Recv!TypeOK
    <2>4. ToldInv'
      BY DEF ToldInv, CountInv, Recv!SizeIsBufSize, Recv!TypeOK
    <2> QED
      BY <2>1, <2>2, <2>3, <2>4
  <1>9. ASSUME Recv!ReadEnd PROVE RecvInv'
    <2> USE <1>9 DEF Recv!ReadEnd, Recv!AtEnd, Recv!Room, Recv!peerVars, Recv!linkVars, Recv!readVars, Recv!toldVars
    <2>1. Recv!TypeOK'
      BY DEF Recv!TypeOK, Recv!Event
    <2>2. StreamInv'
      BY DEF StreamInv, Taken, Recv!TypeOK
    <2>3. CountInv'
      BY DEF CountInv, Recv!TypeOK
    <2>4. ToldInv'
      BY DEF ToldInv, CountInv, Recv!SizeIsBufSize, Recv!TypeOK
    <2> QED
      BY <2>1, <2>2, <2>3, <2>4
  <1>10. ASSUME Recv!TellEnd PROVE RecvInv'
    <2> DEFINE e == [ui_size |-> i_recv_size % Recv!Width, size |-> Len(buffer)]
    <2>1. /\ recv_pc = "end" /\ recv_pc' = "wait"
          /\ told' = Append(told, e) /\ heard' = heard \o buffer
          /\ UNCHANGED <<sent, ended, queue, events, m_link_type, recv_live, closed,
                         buffer, i_recv_size>>
      BY <1>10 DEF Recv!TellEnd, Recv!peerVars, Recv!linkVars, Recv!readVars
    <2>2. /\ buffer \in Seq(1 .. Bytes) /\ heard \in Seq(1 .. Bytes)
          /\ Len(buffer) \in Nat /\ Len(heard) \in Nat /\ Len(buffer) <= Cap
      BY DEF Recv!TypeOK, CountInv
    <2>3. /\ heard' \in Seq(1 .. Bytes) /\ Len(heard') = Len(heard) + Len(buffer)
          /\ \A i \in 1 .. Len(heard) : heard'[i] = heard[i]
          /\ \A i \in 1 .. Len(buffer) : heard'[Len(heard) + i] = buffer[i]
      BY <2>1, <2>2
    <2>4. e.size = Len(buffer) /\ e.ui_size = i_recv_size % Recv!Width
      OBVIOUS
    <2>5. IF ended = "reported" THEN e.ui_size = (e.size - 1) % Recv!Width
          ELSE e.ui_size = e.size
      <3>1. \A x \in 0 .. 255 : x % 256 = x
        OBVIOUS
      <3>2. Len(buffer) \in 0 .. 255
        <4>1. Cap \in Int /\ Cap <= 255
          BY DEF Recv!ConstantsOK
        <4>2. \A k \in Nat : k <= Cap => k \in 0 .. 255
          BY <4>1
        <4> QED
          BY <2>2, <4>2, Zenon
      <3>3. i_recv_size = IF ended = "reported" THEN Len(buffer) - 1 ELSE Len(buffer)
        BY <2>2 DEF CountInv
      <3> QED
        BY <2>4, <3>1, <3>2, <3>3 DEF Recv!Width
    <2>6. e \in [ui_size : 0 .. Recv!Width - 1, size : 0 .. Cap]
      <3>1. \A x \in Int : x % 256 \in 0 .. 255
        OBVIOUS
      <3>2. i_recv_size \in Int /\ Len(buffer) \in 0 .. Cap
        BY <2>2 DEF Recv!TypeOK
      <3> QED
        BY <3>1, <3>2 DEF Recv!Width
    <2> HIDE DEF e
    <2>7. /\ told' \in Seq([ui_size : 0 .. Recv!Width - 1, size : 0 .. Cap])
          /\ Len(told') = Len(told) + 1 /\ told'[Len(told) + 1] = e
          /\ \A i \in 1 .. Len(told) : told'[i] = told[i]
          /\ DOMAIN told' = 1 .. Len(told') /\ Len(told) \in Nat
      BY <2>1, <2>6 DEF Recv!TypeOK
    <2>8. Recv!TypeOK'
      BY <2>1, <2>3, <2>7 DEF Recv!TypeOK
    <2>9. Taken' = Taken
      BY <2>1, <2>2, <2>3 DEF Taken
    <2>10. StreamInv'
      <3>1. ASSUME NEW i \in 1 .. Len(heard') PROVE heard'[i] = i
        <4>1. CASE i \in 1 .. Len(heard)
          BY <2>3, <4>1 DEF StreamInv
        <4>2. CASE i > Len(heard)
          <5>1. i - Len(heard) \in 1 .. Len(buffer) /\ i = Len(heard) + (i - Len(heard))
            BY <2>2, <2>3, <4>2
          <5> QED
            BY <2>1, <2>2, <2>3, <5>1 DEF StreamInv
        <4> QED
          BY <2>2, <2>3, <4>1, <4>2
      <3> QED
        BY <2>1, <2>9, <3>1 DEF StreamInv
    <2>11. CountInv'
      BY <2>1 DEF CountInv
    <2>12. ToldInv'
      <3>1. \A i \in 1 .. Len(told) : told'[i].ui_size = told'[i].size
        BY <2>1, <2>7 DEF ToldInv
      <3>2. \A i \in 1 .. Len(told') : i \in 1 .. Len(told) \/ i = Len(told')
        BY <2>7
      <3>3. told'[Len(told')] = e
        BY <2>7
      <3> QED
        BY <2>1, <2>5, <2>7, <3>1, <3>2, <3>3 DEF ToldInv, Recv!SizeIsBufSize
    <2> QED
      BY <2>8, <2>10, <2>11, <2>12
  <1>11. ASSUME UNCHANGED recvVars PROVE RecvInv'
    BY <1>11 DEF recvVars, Recv!TypeOK, StreamInv, Taken, CountInv, ToldInv,
       Recv!SizeIsBufSize
  <1> QED
    BY <1>1, <1>2, <1>3, <1>4, <1>5, <1>6, <1>7, <1>8, <1>9, <1>10, <1>11 DEF Recv!Next,
       Recv!WorkerStep

(* What the callback hears follows.                                        *)
LEMMA RecvGoals == RecvInv => StreamIsHeard
  <1> SUFFICES ASSUME RecvInv PROVE StreamIsHeard
    OBVIOUS
  <1>1. Recv!HeardIsPrefix
    BY DEF RecvInv, StreamInv, Recv!TypeOK, Recv!HeardIsPrefix
  <1>2. Recv!LossIsExplained
    BY DEF RecvInv, CountInv, Recv!TypeOK, Recv!LossIsExplained
  <1>3. Recv!EndIsExplained
    BY DEF RecvInv, CountInv, Recv!TypeOK, Recv!EndIsExplained
  <1> QED
    BY <1>1, <1>2, <1>3 DEF RecvInv, ToldInv, StreamIsHeard

-----------------------------------------------------------------------------
(* When a link has expired (AliveTimeout).                                 *)

(* By the clock, a link's last sign of life is not longer ago than its     *)
(* last data: every refresh of mt_last_alive_time brings it nearer, and a  *)
(* clock set back does so too.                                             *)
StampIsYounger ==
    clock = "on" \/ (st_time <= began /\ \A l \in table : stamp[l] <= silent[l])

(* A link that is still to be given the time from before the accept loop   *)
(* counts as silent since then.                                            *)
FreshIsBegun ==
    /\ \A l \in fresh : looping /\ fresh = {l}
    /\ \A l \in fresh \cap table : silent[l] = began

AliveInv == Alive!TypeOK /\ StampIsYounger /\ FreshIsBegun /\ Alive!ExpiredWasSilent

(* Capping keeps the order of ages, and puts them in the range.            *)
LEMMA CappedIsAge ==
    ASSUME Limit \in Nat, NEW age \in Int, NEW other \in Int
    PROVE  /\ Alive!Capped(age) \in -Limit .. Limit
           /\ age >= 0 => Alive!Capped(age) \in Alive!Age
           /\ age <= other => Alive!Capped(age) <= Alive!Capped(other)
  <1>1. CASE age > Limit
    BY <1>1 DEF Alive!Capped, Alive!Age
  <1>2. CASE age < -Limit
    BY <1>2 DEF Alive!Capped, Alive!Age
  <1>3. CASE -Limit <= age /\ age <= Limit
    BY <1>3 DEF Alive!Capped, Alive!Age
  <1> QED
    BY <1>1, <1>2, <1>3

LEMMA AliveInit == Alive!ConstantsOK /\ Alive!Init => AliveInv
  <1> SUFFICES ASSUME Alive!ConstantsOK, Alive!Init PROVE AliveInv
    OBVIOUS
  <1>1. 0 \in -Limit .. Limit /\ 0 \in Alive!Age /\ Limit \in Alive!Age
    BY DEF Alive!ConstantsOK, Alive!Age
  <1>2. Alive!TypeOK
    BY <1>1 DEF Alive!Init, Alive!TypeOK
  <1>3. StampIsYounger /\ FreshIsBegun /\ Alive!ExpiredWasSilent
    BY DEF Alive!Init, StampIsYounger, FreshIsBegun, Alive!ExpiredWasSilent
  <1> QED
    BY <1>2, <1>3 DEF AliveInv

LEMMA AliveStep ==
    Alive!ConstantsOK /\ AliveInv /\ (Alive!Next \/ UNCHANGED aliveVars) => AliveInv'
  <1> SUFFICES ASSUME Alive!ConstantsOK, AliveInv, Alive!Next \/ UNCHANGED aliveVars
               PROVE  AliveInv'
    OBVIOUS
  <1> USE DEF Alive!ConstantsOK, AliveInv, Alive!TypeOK, StampIsYounger,
              FreshIsBegun, Alive!loopVars, Alive!ExpiredWasSilent, Alive!Age
  <1>1. ASSUME NEW l \in Links, Alive!Accept(l) PROVE AliveInv'
    BY <1>1 DEF Alive!Accept, Alive!Reset
  <1>2. ASSUME NEW l \in Links, Alive!OnEventRead(l) PROVE AliveInv'
    BY <1>2 DEF Alive!OnEventRead, Alive!Reset
  <1>3. ASSUME NEW l \in Links, Alive!LinkSend(l) PROVE AliveInv'
    BY <1>3 DEF Alive!LinkSend, Alive!Reset
  <1>4. ASSUME Alive!DoSendBuff PROVE AliveInv'
    <2>1. waiting' \subseteq Links /\ mb_send_flag' \in BOOLEAN
      BY <1>4 DEF Alive!DoSendBuff
    <2>2. stamp' \in [Links -> -Limit .. Limit]
      BY <1>4 DEF Alive!DoSendBuff
    <2>3. clock = "on" \/ \A l \in table : stamp'[l] <= silent[l]
      BY <1>4 DEF Alive!DoSendBuff
    <2> QED
      BY <1>4, <2>1, <2>2, <2>3 DEF Alive!DoSendBuff
  <1>5. ASSUME Alive!CheckLinkTimeout PROVE AliveInv'
    <2>1. stamp' \in [Links -> -Limit .. Limit] /\ verdict' \in [Links -> Alive!Age]
      BY <1>5 DEF Alive!CheckLinkTimeout
    <2>2. clock = "on" \/ \A l \in table : stamp'[l] <= silent[l]
      BY <1>5 DEF Alive!CheckLinkTimeout
    <2>3. clock = "on" \/ \A l \in expired' : verdict'[l] = Limit
      <3> SUFFICES ASSUME clock # "on", NEW l \in expired' PROVE verdict'[l] = Limit
        OBVIOUS
      <3>1. l \in table /\ stamp[l] >= Limit
        BY <1>5 DEF Alive!CheckLinkTimeout, Alive!IsAlive
      <3>2. silent[l] = Limit
        BY <3>1
      <3> QED
        BY <1>5, <3>1, <3>2 DEF Alive!CheckLinkTimeout
    <2> QED
      BY <1>5, <2>1, <2>2, <2>3 DEF Alive!CheckLinkTimeout
  <1>6. ASSUME NEW l \in Links, Alive!LinkDestroy(l) PROVE AliveInv'
    BY <1>6 DEF Alive!LinkDestroy
  <1>7. ASSUME Alive!Tick PROVE AliveInv'
    <2>1. \A l \in Links : /\ Alive!Capped(stamp[l] + 1) \in -Limit .. Limit
                           /\ Alive!Capped(silent[l] + 1) \in Alive!Age
                           /\ stamp[l] <= silent[l] =>
                                 Alive!Capped(stamp[l] + 1) <= Alive!Capped(silent[l] + 1)
      BY CappedIsAge
    <2>2. stamp' \in [Links -> -Limit .. Limit] /\ silent' \in [Links -> Alive!Age]
      BY <1>7, <2>1 DEF Alive!Tick, Alive!Older
    <2>3. clock = "on" \/ \A l \in table : stamp'[l] <= silent'[l]
      BY <1>7, <2>1 DEF Alive!Tick, Alive!Older
    <2>4. /\ Alive!Capped(st_time + 1) \in -Limit .. Limit
          /\ Alive!Capped(began + 1) \in Alive!Age
          /\ st_time <= began => Alive!Capped(st_time + 1) <= Alive!Capped(began + 1)
      BY CappedIsAge
    <2>5. st_time' \in -Limit .. Limit /\ began' \in Alive!Age
      BY <1>7, <2>4 DEF Alive!Tick
    <2>6. clock = "on" \/ st_time' <= began'
      BY <1>7, <2>4 DEF Alive!Tick
    <2>7. \A l \in fresh \cap table : silent'[l] = began'
      BY <1>7 DEF Alive!Tick, Alive!Older
    <2> QED
      BY <1>7, <2>2, <2>3, <2>5, <2>6, <2>7 DEF Alive!Tick
  <1>8. ASSUME NEW d \in Jumps, Alive!SetClock(d) PROVE AliveInv'
    <2>1. \A l \in Links : /\ Alive!Capped(stamp[l] + d) \in -Limit .. Limit
                           /\ d <= 0 /\ stamp[l] <= silent[l]
                                => Alive!Capped(stamp[l] + d) <= silent[l]
      BY CappedIsAge DEF Alive!Capped
    <2>2. stamp' \in [Links -> -Limit .. Limit]
      BY <1>8, <2>1 DEF Alive!SetClock
    <2>3. clock' = "on" \/ \A l \in table : stamp'[l] <= silent[l]
      BY <1>8, <2>1 DEF Alive!SetClock
    <2>4. /\ Alive!Capped(st_time + d) \in -Limit .. Limit
          /\ d <= 0 /\ st_time <= began => Alive!Capped(st_time + d) <= began
      BY CappedIsAge DEF Alive!Capped
    <2>5. st_time' \in -Limit .. Limit /\ (clock' = "on" \/ st_time' <= began)
      BY <1>8, <2>4 DEF Alive!SetClock
    <2> QED
      BY <1>8, <2>2, <2>3, <2>5 DEF Alive!SetClock
  <1>9. ASSUME UNCHANGED aliveVars PROVE AliveInv'
    BY <1>9 DEF aliveVars
  <1>10. ASSUME Alive!OnEventAccept PROVE AliveInv'
    BY <1>10 DEF Alive!OnEventAccept
  <1>11. ASSUME NEW l \in Links, Alive!UpdateLinkTime(l) PROVE AliveInv'
    BY <1>11 DEF Alive!UpdateLinkTime
  <1>12. ASSUME Alive!AcceptEnds PROVE AliveInv'
    <2>1. Alive!TypeOK'
      <3>1. /\ st_time' = 0 /\ began' = 0 /\ looping' = FALSE
            /\ UNCHANGED <<table, stamp, silent, fresh, waiting, mb_send_flag, expired, verdict,
                           clock>>
        BY <1>12 DEF Alive!AcceptEnds
      <3>2. 0 \in -Limit .. Limit /\ 0 \in Alive!Age
        BY DEF Alive!Age
      <3> QED
        BY <3>1, <3>2
    <2>2. StampIsYounger'
      BY <1>12 DEF Alive!AcceptEnds
    <2>3. FreshIsBegun' /\ Alive!ExpiredWasSilent'
      BY <1>12 DEF Alive!AcceptEnds
    <2> QED
      BY <2>1, <2>2, <2>3
  <1> HIDE DEF AliveInv
  <1> QED
    BY <1>1, <1>2, <1>3, <1>4, <1>5, <1>6, <1>7, <1>8, <1>9, <1>10, <1>11, <1>12
    DEF Alive!Next, Alive!TimerStep

LEMMA AliveGoals == AliveInv => ExpiredWasSilent
  BY DEF ExpiredWasSilent, AliveInv

-----------------------------------------------------------------------------
(* Whose descriptor is open (Descriptors).                                 *)

(* Its finite sets are those of FiniteSets.                                *)
LEMMA DescrSets ==
    /\ \A S : Descr!Cardinality(S) = Cardinality(S)
    /\ \A S : Descr!IsFiniteSet(S) = IsFiniteSet(S)
  <1>1. \A S : Descr!Cardinality(S) = Cardinality(S)
    BY DEF Descr!Cardinality, Cardinality
  <1>2. \A S : Descr!IsFiniteSet(S) = IsFiniteSet(S)
    BY DEF Descr!IsFiniteSet, IsFiniteSet
  <1> QED
    BY <1>1, <1>2

(* Only a link that has been in the table has a descriptor or a thread at  *)
(* work on it, and only one that has left the table is shut down.          *)
MadeFirst ==
    \A l \in Descr!Link :
        /\ stage[l] \in {"unmade", "failed"} =>
              mi_socket[l] = 0 /\ connector[l] = "idle" /\ destroyer[l] = "idle"
        /\ destroyer[l] \in {"test", "shut"} => stage[l] = "gone"

(* A link's descriptor is its own until a failed connect has closed it,    *)
(* and what is open for a link at that point was given up by another       *)
(* thread.                                                                 *)
SocketIsOwn ==
    \A l \in Descr!Link :
        /\ mi_socket[l] # 0 => \/ mi_socket[l] \in descr_open /\ owner[mi_socket[l]] = l
                               \/ connector[l] = "closed"
        /\ connector[l] = "closed" => \A f \in descr_open : owner[f] = l => stage[l] = "gone"

(* Who waits to be accepted has not been accepted.                         *)
GuestsWait == pending <= Cardinality(Guest \cap Descr!Unmade)

DescrInv == Descr!TypeOK /\ MadeFirst /\ SocketIsOwn /\ Descr!LeaksAreEnds /\ GuestsWait

(* The guests are finitely many, so those of them that wait are.          *)
LEMMA GuestsAreFinite ==
    Descr!ConstantsOK =>
        /\ IsFiniteSet(Guest) /\ Cardinality(Guest) \in Nat
        /\ \A S : /\ IsFiniteSet(Guest \cap S) /\ Cardinality(Guest \cap S) \in Nat
                  /\ Cardinality(Guest \cap S) <= Cardinality(Guest)
  <1> SUFFICES ASSUME Descr!ConstantsOK
               PROVE  /\ IsFiniteSet(Guest) /\ Cardinality(Guest) \in Nat
                      /\ \A S : /\ IsFiniteSet(Guest \cap S)
                                /\ Cardinality(Guest \cap S) \in Nat
                                /\ Cardinality(Guest \cap S) <= Cardinality(Guest)
    OBVIOUS
  <1>1. IsFiniteSet(Guest)
    BY DescrSets, Zenon DEF Descr!ConstantsOK
  <1>2. \A S : Guest \cap S \in SUBSET Guest
    OBVIOUS
  <1>3. \A T \in SUBSET Guest : IsFiniteSet(T) /\ Cardinality(T) <= Cardinality(Guest)
    BY <1>1, FS_Subset, Zenon
  <1>4. \A S : IsFiniteSet(Guest \cap S) /\ Cardinality(Guest \cap S) <= Cardinality(Guest)
    BY <1>2, <1>3, Zenon
  <1> QED
    BY <1>1, <1>4, FS_CardinalityType, Zenon

(* Nothing is open at first.                                               *)
LEMMA DescrInit == Descr!ConstantsOK /\ Descr!Init => DescrInv
  <1> SUFFICES ASSUME Descr!ConstantsOK, Descr!Init PROVE DescrInv
    OBVIOUS
  <1>1. Cardinality(Guest) \in Nat /\ Cardinality(Guest \cap Descr!Unmade) \in Nat
    BY GuestsAreFinite, Zenon
  <1>2. pending \in 0..Cardinality(Guest) /\ GuestsWait
    BY <1>1 DEF Descr!Init, GuestsWait
  <1>3. pending \in 0..Descr!Cardinality(Guest)
    BY <1>2, DescrSets, Zenon
  <1>4. Descr!TypeOK
    BY <1>3 DEF Descr!Init, Descr!TypeOK
  <1>5. MadeFirst /\ SocketIsOwn /\ Descr!LeaksAreEnds
    BY DEF Descr!Init, MadeFirst, SocketIsOwn, Descr!LeaksAreEnds
  <1> QED
    BY <1>2, <1>4, <1>5 DEF DescrInv

(* Each step keeps count of who waits: a guest that is accepted, or is not *)
(* because getsockname fails, is taken off the queue.                      *)
LEMMA DescrGuestStep ==
    Descr!ConstantsOK /\ DescrInv /\ (Descr!Next \/ UNCHANGED descrVars)
    => GuestsWait' /\ pending' \in 0..Descr!Cardinality(Guest)
  <1> SUFFICES ASSUME Descr!ConstantsOK, DescrInv, Descr!Next \/ UNCHANGED descrVars
               PROVE  GuestsWait' /\ pending' \in 0..Descr!Cardinality(Guest)
    OBVIOUS
  <1> DEFINE here == Guest \cap Descr!Unmade
             left == Guest \cap Descr!Unmade'
  <1>1. /\ Cardinality(here) \in Nat /\ Cardinality(left) \in Nat
        /\ Cardinality(left) <= Cardinality(Guest) /\ Cardinality(Guest) \in Nat
        /\ IsFiniteSet(here)
    BY GuestsAreFinite, Zenon
  <1>2. pending \in Nat /\ pending <= Cardinality(here)
    <2>1. pending \in 0..Cardinality(Guest)
      BY DescrSets, Zenon DEF DescrInv, Descr!TypeOK
    <2> QED
      BY <1>1, <2>1 DEF DescrInv, GuestsWait
  <1>3. (pending' = pending /\ left = here)
        \/ (pending' = pending + 1 /\ pending < Cardinality(here) /\ left = here)
        \/ (pending > 0 /\ pending' = pending - 1 /\ \E l \in here : left = here \ {l})
    <2>1. CASE Descr!Arrive
      <3>1. Cardinality(here) = Descr!Cardinality(here)
        BY DescrSets, Zenon
      <3> QED
        BY <2>1, <3>1 DEF Descr!Arrive, Descr!Unmade
    <2>2. ASSUME NEW l \in Guest, Descr!Accept(l) \/ Descr!AcceptUnnamed(l)
          PROVE  pending > 0 /\ pending' = pending - 1 /\ l \in here /\ left = here \ {l}
      BY <2>2 DEF Descr!Accept, Descr!AcceptUnnamed, Descr!Move, Descr!Goto, Descr!Unmade,
                  DescrInv, Descr!TypeOK, Descr!Link
    <2>3. ASSUME NEW l \in Descr!Link, Descr!LinkCreate(l) \/ Descr!BindFails(l)
          PROVE  pending' = pending /\ left = here
      BY <2>3 DEF Descr!LinkCreate, Descr!BindFails, Descr!Move, Descr!Goto, Descr!Unmade,
                  Descr!ConstantsOK, Descr!listener, DescrInv, Descr!TypeOK, Descr!Link
    <2>4. ASSUME NEW l \in Descr!Link, Descr!DelLink(l) \/ Descr!HangUp(l)
          PROVE  pending' = pending /\ left = here
      BY <2>4 DEF Descr!DelLink, Descr!HangUp, Descr!Move, Descr!Goto, Descr!Unmade,
                  Descr!listener, DescrInv, Descr!TypeOK, Descr!Link
    <2>5. pending' = pending /\ stage' = stage => left = here
      BY DEF Descr!Unmade
    <2>6. ASSUME NEW l \in Descr!Link,
                 \/ Descr!FindLink(l) \/ Descr!Connected(l) \/ Descr!ConnectFails(l)
                 \/ Descr!ResetSocket(l) \/ Descr!Doom(l) \/ Descr!TestSocket(l)
                 \/ Descr!Shutdown(l)
          PROVE  pending' = pending /\ stage' = stage
      BY <2>6 DEF Descr!FindLink, Descr!Connected, Descr!ConnectFails, Descr!ResetSocket,
                  Descr!Doom, Descr!TestSocket, Descr!Shutdown, Descr!listener, Descr!threads
    <2>7. Descr!OnEventAccept \/ Descr!AcceptEnds \/ UNCHANGED descrVars
          => pending' = pending /\ stage' = stage
      BY DEF Descr!OnEventAccept, Descr!AcceptEnds, descrVars, Descr!listener
    <2> QED
      BY <2>1, <2>2, <2>3, <2>4, <2>5, <2>6, <2>7, Zenon DEF Descr!Next, Descr!Worker
  <1>4. \A l \in here : Cardinality(here \ {l}) = Cardinality(here) - 1
    BY <1>1, FS_RemoveElement, Zenon
  <1>5. pending' \in Nat /\ pending' <= Cardinality(left)
    BY <1>1, <1>2, <1>3, <1>4
  <1>6. pending' \in 0..Cardinality(Guest)
    BY <1>1, <1>5
  <1> QED
    BY <1>5, <1>6, DescrSets, Zenon DEF GuestsWait

(* Each step keeps the descriptors: who takes one takes one that nobody    *)
(* has, and a link whose connect fails closes its own.                     *)
LEMMA DescrStep ==
    Descr!ConstantsOK /\ DescrInv /\ (Descr!Next \/ UNCHANGED descrVars) => DescrInv'
  <1> SUFFICES ASSUME Descr!ConstantsOK, DescrInv, Descr!Next \/ UNCHANGED descrVars
               PROVE  DescrInv'
    OBVIOUS
  <1>0. GuestsWait' /\ pending' \in 0..Descr!Cardinality(Guest)
    BY DescrGuestStep
  <1> DEFINE Kept == MadeFirst /\ SocketIsOwn /\ Descr!LeaksAreEnds
             Types == /\ mi_socket \in [Descr!Link -> Fds \cup {0}] /\ descr_open \subseteq Fds
                      /\ stage \in [Descr!Link -> {"unmade", "failed", "listed", "gone"}]
                      /\ owner \in [Fds -> Descr!Link \cup {0}]
                      /\ \A f \in descr_open : owner[f] # 0
                      /\ connector \in [Descr!Link -> {"idle", "found", "closed"}]
                      /\ destroyer \in [Descr!Link -> {"idle", "del", "test", "shut"}]
                      /\ edge \in BOOLEAN /\ accepting \in BOOLEAN
                      /\ struck \subseteq Descr!Link \X Descr!Link
  <1>1. Types /\ Kept /\ 0 \notin Fds /\ 0 \notin Descr!Link /\ Guest \subseteq Descr!Link
    BY DEF DescrInv, Descr!TypeOK, Descr!ConstantsOK, Descr!Link
  <1> USE DEF MadeFirst, SocketIsOwn, Descr!LeaksAreEnds, Descr!Move, Descr!Goto, Descr!Take,
              Descr!Hit, Descr!threads, Descr!listener
  <1>2. ASSUME NEW l \in Descr!Link, Descr!LinkCreate(l) PROVE Types' /\ Kept'
    BY <1>1, <1>2 DEF Descr!LinkCreate
  <1>3. ASSUME NEW l \in Descr!Link, Descr!BindFails(l) PROVE Types' /\ Kept'
    BY <1>1, <1>3 DEF Descr!BindFails
  <1>4. ASSUME NEW l \in Descr!Link, Descr!FindLink(l) PROVE Types' /\ Kept'
    BY <1>1, <1>4 DEF Descr!FindLink
  <1>5. ASSUME NEW l \in Descr!Link, Descr!Connected(l) PROVE Types' /\ Kept'
    BY <1>1, <1>5 DEF Descr!Connected
  <1>6. ASSUME NEW l \in Descr!Link, Descr!ConnectFails(l) PROVE Types' /\ Kept'
    BY <1>1, <1>6 DEF Descr!ConnectFails
  <1>7. ASSUME NEW l \in Descr!Link, Descr!ResetSocket(l) PROVE Types' /\ Kept'
    BY <1>1, <1>7 DEF Descr!ResetSocket
  <1>8. ASSUME NEW l \in Descr!Link, Descr!Doom(l) PROVE Types' /\ Kept'
    BY <1>1, <1>8 DEF Descr!Doom
  <1>9. ASSUME NEW l \in Descr!Link, Descr!DelLink(l) PROVE Types' /\ Kept'
    BY <1>1, <1>9 DEF Descr!DelLink
  <1>10. ASSUME NEW l \in Descr!Link, Descr!TestSocket(l) PROVE Types' /\ Kept'
    BY <1>1, <1>10 DEF Descr!TestSocket
  <1>11. ASSUME NEW l \in Descr!Link, Descr!Shutdown(l) PROVE Types' /\ Kept'
    BY <1>1, <1>11 DEF Descr!Shutdown
  <1>12. ASSUME NEW l \in Descr!Link, Descr!HangUp(l) PROVE Types' /\ Kept'
    BY <1>1, <1>12 DEF Descr!HangUp
  <1>13. ASSUME NEW l \in Guest, Descr!Accept(l) PROVE Types' /\ Kept'
    BY <1>1, <1>13 DEF Descr!Accept
  <1>14. ASSUME NEW l \in Guest, Descr!AcceptUnnamed(l) PROVE Types' /\ Kept'
    <2>1. l \in Descr!Link /\ stage[l] = "unmade"
      BY <1>1, <1>14 DEF Descr!AcceptUnnamed
    <2>2. Types'
      BY <1>1, <1>14, <2>1 DEF Descr!AcceptUnnamed
    <2>3. Kept'
      BY <1>1, <1>14, <2>1 DEF Descr!AcceptUnnamed
    <2> QED
      BY <2>2, <2>3
  <1>15. ASSUME \/ Descr!Arrive \/ Descr!OnEventAccept \/ Descr!AcceptEnds
                \/ UNCHANGED descrVars
         PROVE  Types' /\ Kept'
    <2>1. /\ mi_socket' = mi_socket /\ stage' = stage /\ descr_open' = descr_open
          /\ owner' = owner /\ connector' = connector /\ destroyer' = destroyer
          /\ struck' = struck
      BY <1>15 DEF Descr!Arrive, Descr!OnEventAccept, Descr!AcceptEnds, descrVars
    <2>2. edge' \in BOOLEAN /\ accepting' \in BOOLEAN
      BY <1>1, <1>15 DEF Descr!Arrive, Descr!OnEventAccept, Descr!AcceptEnds, descrVars
    <2> QED
      BY <1>1, <2>1, <2>2
  <1>16. Types' /\ Kept'
    BY <1>2, <1>3, <1>4, <1>5, <1>6, <1>7, <1>8, <1>9, <1>10, <1>11, <1>12, <1>13, <1>14,
       <1>15, Zenon DEF Descr!Next, Descr!Worker
  <1> QED
    BY <1>0, <1>16 DEF DescrInv, Descr!TypeOK

(* What the run checks of the descriptors: of each state ...               *)
LEMMA DescrStates == DescrInv => Descr!TypeOK /\ Descr!LeaksAreEnds /\ Descr!OwnDescriptor
  BY DEF DescrInv, SocketIsOwn, Descr!OwnDescriptor

(* ... and of each step: a call for a link hits another's descriptor only  *)
(* while the number mi_socket holds has been closed.                       *)
LEMMA DescrStrikes ==
    Descr!ConstantsOK /\ DescrInv /\ (Descr!Next \/ UNCHANGED descrVars)
    => \A pair \in struck' \ struck : Descr!GapIsOpen(pair[1])
  <1> SUFFICES ASSUME Descr!ConstantsOK, DescrInv, Descr!Next \/ UNCHANGED descrVars,
                      NEW pair \in struck' \ struck
               PROVE  Descr!GapIsOpen(pair[1])
    OBVIOUS
  <1>1. ASSUME NEW l \in Descr!Link, Descr!Hit(l) PROVE Descr!GapIsOpen(pair[1])
    <2>1. /\ mi_socket[l] \in descr_open /\ owner[mi_socket[l]] # l
          /\ pair = <<l, owner[mi_socket[l]]>>
      BY <1>1, Zenon DEF Descr!Hit
    <2>2. mi_socket[l] # 0
      BY <2>1 DEF DescrInv, Descr!TypeOK, Descr!ConstantsOK
    <2>3. connector[l] = "closed"
      BY <2>1, <2>2 DEF DescrInv, SocketIsOwn
    <2> QED
      BY <2>1, <2>3 DEF Descr!GapIsOpen
  <1>2. struck' # struck
    OBVIOUS
  <1>3. \E l \in Descr!Link : Descr!Hit(l)
    BY <1>2 DEF Descr!Next, Descr!Worker, Descr!Arrive, Descr!OnEventAccept,
       Descr!AcceptEnds,
                Descr!Accept, Descr!AcceptUnnamed, Descr!LinkCreate, Descr!BindFails,
                Descr!FindLink, Descr!Connected, Descr!ConnectFails, Descr!ResetSocket,
                Descr!Doom, Descr!DelLink, Descr!TestSocket, Descr!Shutdown, Descr!HangUp,
                descrVars
  <1> QED
    BY <1>1, <1>3

-----------------------------------------------------------------------------
(* Starting and ending (EpollLife).                                        *)

(* The object has one epoll descriptor at a time, the last one made; a     *)
(* timeout thread that runs is the one it knows of.                        *)
LifeInv ==
    /\ TcpLife!TypeOK
    /\ life_open = {mi_epoll_fd} \ {0} /\ mi_epoll_fd \in {0, life_made}
    /\ life_pc \in {"event", "worker", "timer"} => mi_epoll_fd # 0
    /\ \A n \in TcpLife!Try : TcpLife!Ticks(n) => n = m_pthread_timeout
    /\ mi_epoll_fd = 0 \/ life_pc \in {"event", "worker", "timer", "close", "free"} =>
            m_pthread_timeout = 0
    /\ life_pc = "free" => mi_epoll_fd = 0
    /\ life_pc \in {"flag", "joinTimer", "close", "free"} => m_pthread_id = 0

(* Until init has closed everything under a worker, a worker that runs is  *)
(* the one the object knows of, and waits for its descriptor.              *)
WorkerInv ==
    stranded \/
        /\ mi_epoll_fd = 0 \/ life_pc \in {"event", "worker"} => m_pthread_id = 0
        /\ \A n \in TcpLife!Try : /\ TcpLife!Works(n) => n = m_pthread_id
                                  /\ worker[n] = "wait" => waits[n] \in life_open

(* Nothing is there at first.                                              *)
LEMMA LifeInit == TcpLife!ConstantsOK /\ TcpLife!Init => LifeInv /\ WorkerInv
  <1> SUFFICES ASSUME TcpLife!ConstantsOK, TcpLife!Init PROVE LifeInv /\ WorkerInv
    OBVIOUS
  <1>1. TcpLife!TypeOK
    <2>1. life_made = 0 /\ 0 \in 0 .. MaxInits /\ 0 \in 0 .. life_made
      BY DEF TcpLife!ConstantsOK, TcpLife!Init
    <2>2. waits \in [TcpLife!Try -> 0 .. life_made]
      BY <2>1 DEF TcpLife!Init
    <2> QED
      BY <2>1, <2>2 DEF TcpLife!Init, TcpLife!TypeOK
  <1>2. \A n \in TcpLife!Try : ~TcpLife!Works(n) /\ ~TcpLife!Ticks(n) /\ worker[n] # "wait"
    BY DEF TcpLife!Init, TcpLife!Works, TcpLife!Ticks
  <1> QED
    BY <1>1, <1>2 DEF TcpLife!Init, LifeInv, WorkerInv

(* Of a link object of either class the steps are the same, but for what   *)
(* comes after the worker.                                                 *)
LEMMA OneLife ==
    UdpLife!Next => UdpLife!StartWorker \/ TcpLife!Next
  <1>1. UdpLife!CreateEpoll => TcpLife!CreateEpoll
    BY DEF UdpLife!CreateEpoll, TcpLife!CreateEpoll, UdpLife!Goto, TcpLife!Goto,
           UdpLife!threads, TcpLife!threads
  <1>2. UdpLife!CreateExitEvent => TcpLife!CreateExitEvent
    BY DEF UdpLife!CreateExitEvent, TcpLife!CreateExitEvent, UdpLife!Goto, TcpLife!Goto,
           UdpLife!CloseBoth, TcpLife!CloseBoth, UdpLife!threads, TcpLife!threads
  <1>3. UdpLife!StartTimer => TcpLife!StartTimer
    BY DEF UdpLife!StartTimer, TcpLife!StartTimer, UdpLife!Goto, TcpLife!Goto,
           UdpLife!MsPthreadCreat, TcpLife!MsPthreadCreat, UdpLife!CloseBoth,
           TcpLife!CloseBoth
  <1>4. UdpLife!WriteExit => TcpLife!WriteExit
    BY DEF UdpLife!WriteExit, TcpLife!WriteExit, UdpLife!Goto, TcpLife!Goto,
           UdpLife!attrs, TcpLife!attrs, UdpLife!threads, TcpLife!threads
  <1>5. UdpLife!JoinWorker => TcpLife!JoinWorker
    BY DEF UdpLife!JoinWorker, TcpLife!JoinWorker, UdpLife!Goto, TcpLife!Goto,
           UdpLife!threads, TcpLife!threads
  <1>6. UdpLife!ClearTimerFlag => TcpLife!ClearTimerFlag
    BY DEF UdpLife!ClearTimerFlag, TcpLife!ClearTimerFlag, UdpLife!Goto, TcpLife!Goto,
           UdpLife!threads, TcpLife!threads
  <1>7. UdpLife!JoinTimer => TcpLife!JoinTimer
    BY DEF UdpLife!JoinTimer, TcpLife!JoinTimer, UdpLife!Goto, TcpLife!Goto,
           UdpLife!threads, TcpLife!threads
  <1>8. UdpLife!Close => TcpLife!Close
    BY DEF UdpLife!Close, TcpLife!Close, UdpLife!Goto, TcpLife!Goto, UdpLife!CloseBoth,
           TcpLife!CloseBoth, UdpLife!threads, TcpLife!threads
  <1>9. UdpLife!FreeAll => TcpLife!FreeAll
    BY DEF UdpLife!FreeAll, TcpLife!FreeAll, UdpLife!Goto, TcpLife!Goto, UdpLife!attrs,
           TcpLife!attrs, UdpLife!threads, TcpLife!threads
  <1>10. \A n : UdpLife!EnterWait(n) => TcpLife!EnterWait(n)
    BY DEF UdpLife!EnterWait, TcpLife!EnterWait, UdpLife!attrs, TcpLife!attrs
  <1>11. \A n : UdpLife!Handled(n) => TcpLife!Handled(n)
    BY DEF UdpLife!Handled, TcpLife!Handled, UdpLife!attrs, TcpLife!attrs
  <1>12. \A n : UdpLife!WorkerExits(n) => TcpLife!WorkerExits(n)
    BY DEF UdpLife!WorkerExits, TcpLife!WorkerExits, UdpLife!attrs, TcpLife!attrs
  <1>13. \A n : UdpLife!TimerStep(n) => TcpLife!TimerStep(n)
    BY DEF UdpLife!TimerStep, TcpLife!TimerStep, UdpLife!attrs, TcpLife!attrs
  <1> QED
    BY <1>1, <1>2, <1>3, <1>4, <1>5, <1>6, <1>7, <1>8, <1>9, <1>10, <1>11, <1>12, <1>13
    DEF UdpLife!Next, TcpLife!Next, UdpLife!Start, TcpLife!Start, UdpLife!End, TcpLife!End,
        UdpLife!Try, TcpLife!Try

(* Each step of init, of end and of a thread keeps both.                   *)
LEMMA LifeStep ==
    ASSUME TcpLife!ConstantsOK, LifeInv, WorkerInv,
           TcpLife!Next \/ UdpLife!Next \/ UNCHANGED lifeVars
    PROVE  LifeInv' /\ WorkerInv'
  <1> USE DEF TcpLife!ConstantsOK, LifeInv, WorkerInv, TcpLife!TypeOK, TcpLife!Try
  <1>1. ASSUME TcpLife!CreateEpoll PROVE LifeInv' /\ WorkerInv'
    BY <1>1 DEF TcpLife!CreateEpoll, TcpLife!Goto, TcpLife!threads, TcpLife!Ticks,
           TcpLife!Works
  <1>2. ASSUME TcpLife!CreateExitEvent PROVE LifeInv' /\ WorkerInv'
    BY <1>2 DEF TcpLife!CreateExitEvent, TcpLife!Goto, TcpLife!threads, TcpLife!Ticks,
           TcpLife!Works, TcpLife!CloseBoth
  <1>3. ASSUME TcpLife!StartWorker \/ UdpLife!StartWorker PROVE LifeInv' /\ WorkerInv'
    <2>1. /\ life_pc = "worker" /\ life_pc' \in {"timer", "idle"} /\ links' = FALSE
          /\ UNCHANGED <<m_pthread_timeout, life_made, written, waits, timer, stranded,
                         mb_timeout_thread_flag>>
          /\ \/ /\ worker' = [worker EXCEPT ![life_made] = "loop"] /\ m_pthread_id' = life_made
                /\ UNCHANGED <<mi_epoll_fd, mi_exit_event, life_open>>
             \/ /\ worker' = worker /\ m_pthread_id' = m_pthread_id /\ life_pc' = "idle"
                /\ mi_epoll_fd' = 0 /\ mi_exit_event' = 0 /\ life_open' = life_open \ {mi_epoll_fd}
      BY <1>3 DEF TcpLife!StartWorker, TcpLife!Goto, TcpLife!CloseBoth,
         TcpLife!MsPthreadCreat,
                  UdpLife!StartWorker, UdpLife!Goto, UdpLife!CloseBoth, UdpLife!MsPthreadCreat
    <2>2. LifeInv'
      <3>1. worker' \in [TcpLife!Try -> {"none", "loop", "wait", "exited"}]
            /\ timer' \in [TcpLife!Try -> {"none", "check", "sleep", "exited"}]
        BY <2>1
      <3>2. life_made \in Nat /\ life_made \in 0 .. life_made
        BY DEF TcpLife!TypeOK
      <3>3. life_open' \subseteq life_open /\ mi_epoll_fd' \in life_open' \cup {0}
            /\ mi_exit_event' \in {0, mi_epoll_fd'}
        BY <2>1
      <3>4. m_pthread_id' \in 0 .. life_made' /\ m_pthread_timeout' \in 0 .. life_made'
        BY <2>1, <3>2
      <3>5. TcpLife!TypeOK'
        BY <2>1, <3>1, <3>3, <3>4
      <3>6. \A n \in TcpLife!Try : TcpLife!Ticks(n)' => n = m_pthread_timeout'
        BY <2>1 DEF TcpLife!Ticks
      <3> QED
        BY <2>1, <3>5, <3>6
    <2>3. WorkerInv'
      BY <2>1 DEF TcpLife!Works
    <2> QED
      BY <2>2, <2>3
  <1>4. ASSUME TcpLife!StartTimer PROVE LifeInv' /\ WorkerInv'
    <2>1. /\ life_pc = "timer" /\ life_pc' = "idle"
          /\ UNCHANGED <<m_pthread_id, life_made, written, worker, waits, links>>
          /\ \/ /\ timer' = [timer EXCEPT ![life_made] = "check"] /\ m_pthread_timeout' = life_made
                /\ mb_timeout_thread_flag' = TRUE
                /\ UNCHANGED <<mi_epoll_fd, mi_exit_event, life_open, stranded>>
             \/ /\ timer' = timer /\ m_pthread_timeout' = m_pthread_timeout
                /\ mb_timeout_thread_flag' = FALSE /\ stranded' = TRUE
                /\ mi_epoll_fd' = 0 /\ mi_exit_event' = 0 /\ life_open' = life_open \ {mi_epoll_fd}
      BY <1>4 DEF TcpLife!StartTimer, TcpLife!Goto, TcpLife!CloseBoth,
         TcpLife!MsPthreadCreat
    <2>2. LifeInv'
      <3>1. worker' \in [TcpLife!Try -> {"none", "loop", "wait", "exited"}]
            /\ timer' \in [TcpLife!Try -> {"none", "check", "sleep", "exited"}]
        BY <2>1
      <3>2. life_made \in Nat /\ life_made \in 0 .. life_made
        BY DEF TcpLife!TypeOK
      <3>3. life_open' \subseteq life_open /\ mi_epoll_fd' \in life_open' \cup {0}
            /\ mi_exit_event' \in {0, mi_epoll_fd'}
        BY <2>1
      <3>4. m_pthread_id' \in 0 .. life_made' /\ m_pthread_timeout' \in 0 .. life_made'
        BY <2>1, <3>2
      <3>5. TcpLife!TypeOK'
        BY <2>1, <3>1, <3>3, <3>4
      <3>6. \A n \in TcpLife!Try : TcpLife!Ticks(n)' => n = m_pthread_timeout'
        BY <2>1 DEF TcpLife!Ticks
      <3> QED
        BY <2>1, <3>5, <3>6
    <2>3. WorkerInv'
      BY <2>1 DEF TcpLife!Works
    <2> QED
      BY <2>2, <2>3
  <1>5. ASSUME TcpLife!WriteExit PROVE LifeInv' /\ WorkerInv'
    BY <1>5 DEF TcpLife!WriteExit, TcpLife!Goto, TcpLife!threads, TcpLife!Ticks,
           TcpLife!Works, TcpLife!attrs
  <1>6. ASSUME TcpLife!JoinWorker PROVE LifeInv' /\ WorkerInv'
    BY <1>6 DEF TcpLife!JoinWorker, TcpLife!Goto, TcpLife!threads, TcpLife!Ticks,
           TcpLife!Works
  <1>7. ASSUME TcpLife!ClearTimerFlag PROVE LifeInv' /\ WorkerInv'
    BY <1>7 DEF TcpLife!ClearTimerFlag, TcpLife!Goto, TcpLife!threads, TcpLife!Ticks,
           TcpLife!Works
  <1>8. ASSUME TcpLife!JoinTimer PROVE LifeInv' /\ WorkerInv'
    BY <1>8 DEF TcpLife!JoinTimer, TcpLife!Goto, TcpLife!threads, TcpLife!Ticks,
           TcpLife!Works
  <1>9. ASSUME TcpLife!Close PROVE LifeInv' /\ WorkerInv'
    BY <1>9 DEF TcpLife!Close, TcpLife!Goto, TcpLife!threads, TcpLife!Ticks,
           TcpLife!Works, TcpLife!CloseBoth
  <1>10. ASSUME TcpLife!FreeAll PROVE LifeInv' /\ WorkerInv'
    BY <1>10 DEF TcpLife!FreeAll, TcpLife!Goto, TcpLife!threads, TcpLife!Ticks,
           TcpLife!Works, TcpLife!attrs
  <1>11. ASSUME NEW n \in TcpLife!Try, TcpLife!EnterWait(n) PROVE LifeInv' /\ WorkerInv'
    BY <1>11 DEF TcpLife!EnterWait, TcpLife!Goto, TcpLife!threads, TcpLife!Ticks,
           TcpLife!Works, TcpLife!attrs
  <1>12. ASSUME NEW n \in TcpLife!Try, TcpLife!Handled(n) PROVE LifeInv' /\ WorkerInv'
    BY <1>12 DEF TcpLife!Handled, TcpLife!Goto, TcpLife!threads, TcpLife!Ticks,
           TcpLife!Works, TcpLife!attrs
  <1>13. ASSUME NEW n \in TcpLife!Try, TcpLife!WorkerExits(n) PROVE LifeInv' /\ WorkerInv'
    BY <1>13 DEF TcpLife!WorkerExits, TcpLife!Goto, TcpLife!threads, TcpLife!Ticks,
           TcpLife!Works, TcpLife!attrs
  <1>14. ASSUME NEW n \in TcpLife!Try, TcpLife!TimerStep(n) PROVE LifeInv' /\ WorkerInv'
    BY <1>14 DEF TcpLife!TimerStep, TcpLife!Goto, TcpLife!threads, TcpLife!Ticks,
           TcpLife!Works, TcpLife!attrs
  <1>15. ASSUME UNCHANGED lifeVars PROVE LifeInv' /\ WorkerInv'
    BY <1>15 DEF lifeVars, TcpLife!Ticks, TcpLife!Works
  <1> QED
    BY <1>1, <1>2, <1>3, <1>4, <1>5, <1>6, <1>7, <1>8, <1>9, <1>10, <1>11, <1>12, <1>13,
       <1>14, <1>15, OneLife
    DEF TcpLife!Next, TcpLife!Start, TcpLife!End

(* What end relies on follows.                                             *)
LEMMA LifeGoals == LifeInv /\ WorkerInv => ThreadsAreKnown
  BY DEF LifeInv, WorkerInv, ThreadsAreKnown, TcpLife!TypeOK, TcpLife!ThreadsAreKnown,
         TcpLife!NoneWhenFreed, TcpLife!WaitsForOpen, TcpLife!Try

-----------------------------------------------------------------------------
(* Handles (Handles).                                                      *)

(* The remainder of a division is the one number in range that leaves a    *)
(* multiple.                                                               *)
LEMMA RemainderIs ==
    ASSUME NEW a \in Int, NEW v \in Nat \ {0}, NEW q \in Int, NEW r \in 0 .. v - 1,
           a = q * v + r
    PROVE  a % v = r
  <1> DEFINE d == a \div v s == a % v
  <1>1. d \in Int /\ s \in 0 .. v - 1 /\ a = v * d + s
    OBVIOUS
  <1> HIDE DEF d, s
  <1>2. v * d = d * v /\ d * v \in Int /\ q * v \in Int
    BY <1>1
  <1>3. (q - d) * v = q * v - d * v
    BY <1>1
  <1>4. (q - d) * v = s - r
    BY <1>1, <1>2, <1>3
  <1>5. \A k \in Int : k >= 1 => k * v >= v
    OBVIOUS
  <1>6. \A k \in Int : k <= -1 => k * v <= -v
    OBVIOUS
  <1>7. q - d \in Int /\ ~(q - d >= 1) /\ ~(q - d <= -1)
    BY <1>1, <1>4, <1>5, <1>6
  <1>8. q - d = 0
    BY <1>7
  <1>9. s = r
    BY <1>1, <1>4, <1>8
  <1> QED
    BY <1>9 DEF s

(* The handle made of a counter.                                           *)
LEMMA HandleIs ==
    ASSUME Hand!ConstantsOK, NEW x \in -Half .. Half - 1
    PROVE  Hand!ToHandle(x) = IF x < 0 THEN x + Hand!Values ELSE x
  <1> DEFINE V == Hand!Values M == Hand!Modulus
  <1>1. Half \in Nat \ {0} /\ V = 2 * Half /\ V \in Nat \ {0} /\ M \in Nat \ {0} /\ M > V
    BY DEF Hand!ConstantsOK, Hand!Values, Hand!Modulus
  <1>2. Hand!ToHandle(x) = Hand!Remainder(x, M) % V
    BY DEF Hand!ToHandle
  <1> HIDE DEF V, M
  <1>3. CASE x < 0
    <2>1. (-x) % M = -x
      <3>1. -x \in Int /\ -x \in 0 .. M - 1 /\ -x = 0 * M + (-x)
        BY <1>1, <1>3
      <3> QED
        BY <1>1, <3>1, RemainderIs
    <2>2. Hand!Remainder(x, M) = x
      BY <1>3, <2>1 DEF Hand!Remainder
    <2>3. x % V = x + V
      <3>1. x \in Int /\ x + V \in 0 .. V - 1 /\ x = (-1) * V + (x + V)
        BY <1>1, <1>3
      <3> QED
        BY <1>1, <3>1, RemainderIs
    <2> QED
      BY <1>2, <1>3, <2>2, <2>3 DEF V
  <1>4. CASE ~(x < 0)
    <2>1. x % M = x /\ x % V = x
      <3>1. x \in Int /\ x \in 0 .. M - 1 /\ x \in 0 .. V - 1 /\ x = 0 * M + x /\ x = 0 * V + x
        BY <1>1, <1>4
      <3> QED
        BY <1>1, <3>1, RemainderIs
    <2> QED
      BY <1>2, <1>4, <2>1 DEF Hand!Remainder
  <1> QED
    BY <1>3, <1>4

(* The counter, and every handle, has gone round a whole number of times.  *)
HandInv ==
    /\ Hand!TypeOK
    /\ \E q \in Nat : handles_made = q * Hand!Values + i_link
    /\ \A l \in 1 .. handles_made : \E q \in Nat : l = q * Hand!Values + mh_link[l]
    /\ \A h \in DOMAIN m_maplink : mh_link[m_maplink[h]] = h
    /\ Hand!FoundUnlessLapped

(* No handle has been given at first.                                      *)
LEMMA HandInit == Hand!ConstantsOK /\ Hand!Init => HandInv
  <1> SUFFICES ASSUME Hand!ConstantsOK, Hand!Init PROVE HandInv
    OBVIOUS
  <1>1. i_link \in -Half .. Half - 1 /\ handles_made \in 0 .. MaxMade /\ 1 .. handles_made = {}
    BY DEF Hand!ConstantsOK, Hand!Init
  <1>2. DOMAIN m_maplink = {} /\ mh_link \in [1 .. handles_made -> Hand!Handle]
    BY DEF Hand!Init
  <1>3. handles_made = 0 * Hand!Values + i_link
    BY DEF Hand!ConstantsOK, Hand!Init, Hand!Values
  <1> QED
    BY <1>1, <1>2, <1>3 DEF Hand!Init, HandInv, Hand!TypeOK, Hand!FoundUnlessLapped

(* The counter that follows, and the handle it gives.                      *)
LEMMA NextHandle ==
    ASSUME Hand!ConstantsOK, HandInv
    PROVE  LET x == Hand!Signed(i_link + 1) IN
           /\ x \in -Half .. Half - 1
           /\ \E q \in Nat : handles_made + 1 = q * Hand!Values + x
           /\ Hand!ToHandle(x) \in Hand!Handle
           /\ \E q \in Nat : handles_made + 1 = q * Hand!Values + Hand!ToHandle(x)
  <1> DEFINE x == Hand!Signed(i_link + 1) V == Hand!Values
  <1>1. Half \in Nat \ {0} /\ V = 2 * Half /\ V \in Nat \ {0}
    BY DEF Hand!ConstantsOK, Hand!Values
  <1>2. i_link \in -Half .. Half - 1 /\ handles_made \in Nat
    BY DEF HandInv, Hand!TypeOK
  <1>3. x = IF i_link + 1 = Half THEN i_link + 1 - V ELSE i_link + 1
    BY <1>1, <1>2 DEF Hand!Signed
  <1>4. PICK q \in Nat : handles_made = q * V + i_link
    BY DEF HandInv
  <1> HIDE DEF x, V
  <1>5. (q + 1) * V = q * V + V /\ q * V \in Nat
    BY <1>1, <1>4
  <1>6. x \in -Half .. Half - 1
    BY <1>1, <1>2, <1>3
  <1>7. \E k \in Nat : handles_made + 1 = k * V + x
    <2>1. CASE i_link + 1 = Half
      BY <1>1, <1>2, <1>3, <1>4, <1>5, <2>1
    <2>2. CASE i_link + 1 # Half
      BY <1>1, <1>2, <1>3, <1>4, <1>5, <2>2
    <2> QED
      BY <2>1, <2>2
  <1>8. Hand!ToHandle(x) = IF x < 0 THEN x + V ELSE x
    BY <1>6, HandleIs DEF V
  <1>9. Hand!ToHandle(x) \in Hand!Handle
    BY <1>1, <1>6, <1>8 DEF Hand!Handle, V
  <1>10. \E k \in Nat : handles_made + 1 = k * V + Hand!ToHandle(x)
    <2>1. PICK k \in Nat : handles_made + 1 = k * V + x
      BY <1>7
    <2>2. CASE x < 0
      <3>1. k * V \in Nat /\ (k - 1) * V = k * V - V
        BY <1>1
      <3>2. k # 0
        BY <1>1, <1>2, <1>6, <2>1, <2>2
      <3>3. k - 1 \in Nat /\ handles_made + 1 = (k - 1) * V + Hand!ToHandle(x)
        BY <1>1, <1>2, <1>6, <1>8, <2>1, <2>2, <3>1, <3>2
      <3> QED
        BY <3>3
    <2> QED
      BY <1>8, <2>1, <2>2
  <1> QED
    BY <1>6, <1>7, <1>9, <1>10 DEF x, V

(* Two links of one handle are whole rounds apart.                         *)
LEMMA Lapped ==
    ASSUME Hand!ConstantsOK, NEW l \in Nat, NEW k \in Nat, NEW h \in Int,
           NEW p \in Nat, NEW q \in Nat,
           l = p * Hand!Values + h, k = q * Hand!Values + h, l < k
    PROVE  k - l >= Hand!Values
  <1> DEFINE V == Hand!Values
  <1>1. V \in Nat \ {0}
    BY DEF Hand!ConstantsOK, Hand!Values
  <1> HIDE DEF V
  <1>2. p * V \in Nat /\ q * V \in Nat /\ (q - p) * V = q * V - p * V
    BY <1>1
  <1>3. (q - p) * V = k - l
    BY <1>2 DEF V
  <1>4. \A i \in Int : i <= 0 => i * V <= 0
    BY <1>1
  <1>5. \A i \in Int : i >= 1 => i * V >= V
    BY <1>1
  <1>6. q - p >= 1
    BY <1>1, <1>3, <1>4
  <1> QED
    BY <1>3, <1>5, <1>6 DEF V

(* Each step keeps it: a handle is given for the counter that follows.     *)
LEMMA HandStep ==
    ASSUME Hand!ConstantsOK, HandInv, Hand!Next \/ UNCHANGED handVars
    PROVE  HandInv'
  <1> DEFINE V == Hand!Values
  <1>1. Half \in Nat \ {0} /\ V = 2 * Half /\ V \in Nat \ {0} /\ MaxMade \in Nat
    BY DEF Hand!ConstantsOK, Hand!Values
  <1>2. /\ i_link \in -Half .. Half - 1 /\ DOMAIN m_maplink \subseteq Hand!Handle
        /\ \A h \in DOMAIN m_maplink : m_maplink[h] \in 1 .. handles_made
        /\ mh_link \in [1 .. handles_made -> Hand!Handle] /\ handles_made \in 0 .. MaxMade
        /\ handles_open \subseteq 1 .. handles_made
    BY DEF HandInv, Hand!TypeOK
  <1>3. ASSUME Hand!Create PROVE HandInv'
    <2> DEFINE n == handles_made + 1 x == Hand!Signed(i_link + 1) g == Hand!ToHandle(x)
    <2>1. /\ n \in 1 .. MaxMade /\ n \in Nat /\ i_link' = x /\ handles_made' = n
          /\ mh_link' = [l \in 1 .. n |-> IF l = n THEN g ELSE mh_link[l]]
          /\ handles_open' = handles_open \cup {n}
      BY <1>1, <1>2, <1>3 DEF Hand!Create
    <2>2. /\ x \in -Half .. Half - 1 /\ g \in Hand!Handle
          /\ \E q \in Nat : n = q * V + x
          /\ \E q \in Nat : n = q * V + g
      BY NextHandle
    <2>3. m_maplink' = [h \in DOMAIN m_maplink \cup {g} |-> IF h = g THEN n ELSE m_maplink[h]]
      BY <1>3, <2>1 DEF Hand!Create
    <2> HIDE DEF n, x, g
    <2>4. 1 .. n = (1 .. handles_made) \cup {n} /\ n \notin 1 .. handles_made
      BY <1>2 DEF n
    <2>5. mh_link' \in [1 .. n -> Hand!Handle] /\ mh_link'[n] = g
          /\ \A l \in 1 .. handles_made : mh_link'[l] = mh_link[l]
      BY <1>2, <2>1, <2>2, <2>4
    <2>6. /\ DOMAIN m_maplink' = DOMAIN m_maplink \cup {g} /\ m_maplink'[g] = n
          /\ \A h \in DOMAIN m_maplink \ {g} : m_maplink'[h] = m_maplink[h]
      BY <2>3
    <2>7. Hand!TypeOK'
      <3>1. \A h \in DOMAIN m_maplink' : m_maplink'[h] \in 1 .. n
        BY <1>2, <2>4, <2>6
      <3>2. n \in 0 .. MaxMade
        BY <2>1
      <3> QED
        BY <1>2, <2>1, <2>2, <2>4, <2>5, <2>6, <3>1, <3>2 DEF Hand!TypeOK
    <2>8. \A l \in 1 .. n : \E q \in Nat : l = q * V + mh_link'[l]
      BY <2>2, <2>4, <2>5 DEF HandInv
    <2>9. \A h \in DOMAIN m_maplink' : mh_link'[m_maplink'[h]] = h
      BY <1>2, <2>5, <2>6 DEF HandInv
    <2>10. ASSUME NEW l \in handles_open', handles_made' - l < V
           PROVE  mh_link'[l] \in DOMAIN m_maplink' /\ m_maplink'[mh_link'[l]] = l
      <3>1. CASE l = n
        BY <2>5, <2>6, <3>1
      <3>2. CASE l # n
        <4>1. l \in handles_open /\ l \in 1 .. handles_made /\ l \in Nat /\ l < n
          BY <1>2, <2>1, <3>2 DEF n
        <4>2. handles_made - l < V
          BY <1>1, <1>2, <2>1, <2>10, <4>1 DEF n
        <4>3. mh_link[l] \in DOMAIN m_maplink /\ m_maplink[mh_link[l]] = l
          BY <4>1, <4>2 DEF HandInv, Hand!FoundUnlessLapped
        <4>4. mh_link[l] # g
          <5>1. SUFFICES ASSUME mh_link[l] = g PROVE FALSE
            OBVIOUS
          <5>2. PICK p \in Nat : l = p * V + g
            BY <4>1, <5>1 DEF HandInv
          <5>3. PICK q \in Nat : n = q * V + g
            BY <2>2
          <5>4. g \in Int
            BY <1>1, <2>2 DEF Hand!Handle
          <5>5. n - l >= V
            BY <2>1, <4>1, <5>2, <5>3, <5>4, Lapped
          <5> QED
            BY <1>1, <2>1, <2>10, <4>1, <5>5
        <4> QED
          BY <2>5, <2>6, <4>1, <4>3, <4>4
      <3> QED
        BY <3>1, <3>2
    <2> QED
      BY <2>1, <2>2, <2>7, <2>8, <2>9, <2>10 DEF HandInv, Hand!FoundUnlessLapped
  <1>4. ASSUME NEW l \in handles_open, Hand!Destroy(l) PROVE HandInv'
    <2> DEFINE h == mh_link[l]
    <2>1. /\ h \in DOMAIN m_maplink /\ m_maplink' = [k \in DOMAIN m_maplink \ {h} |-> m_maplink[k]]
          /\ handles_open' = handles_open \ {m_maplink[h]}
          /\ UNCHANGED <<i_link, mh_link, handles_made>>
      BY <1>4 DEF Hand!Destroy
    <2> HIDE DEF h
    <2>2. /\ DOMAIN m_maplink' = DOMAIN m_maplink \ {h}
          /\ \A k \in DOMAIN m_maplink \ {h} : m_maplink'[k] = m_maplink[k]
      BY <2>1
    <2>3. Hand!TypeOK'
      BY <1>2, <2>1, <2>2 DEF Hand!TypeOK
    <2>4. \A k \in DOMAIN m_maplink' : mh_link'[m_maplink'[k]] = k
      BY <2>1, <2>2 DEF HandInv
    <2>5. Hand!FoundUnlessLapped'
      BY <2>1, <2>2 DEF HandInv, Hand!FoundUnlessLapped
    <2> QED
      BY <2>1, <2>3, <2>4, <2>5 DEF HandInv
  <1>5. ASSUME UNCHANGED handVars PROVE HandInv'
    BY <1>5 DEF handVars, HandInv, Hand!TypeOK, Hand!FoundUnlessLapped
  <1> QED
    BY <1>3, <1>4, <1>5 DEF Hand!Next

(* A handle finds its link, and is INVALID_HTCPLINK as rarely as can be.   *)
LEMMA HandGoals == Hand!ConstantsOK /\ HandInv => HandlesFind
  <1> SUFFICES ASSUME Hand!ConstantsOK, HandInv PROVE HandlesFind
    OBVIOUS
  <1>1. ASSUME NEW l \in 1 .. handles_made, mh_link[l] = Hand!INVALID
        PROVE  l % Hand!Values = Hand!Values - 1
    <2>1. PICK q \in Nat : l = q * Hand!Values + mh_link[l]
      BY DEF HandInv
    <2>2. Hand!Values \in Nat \ {0}
      BY DEF Hand!ConstantsOK, Hand!Values
    <2>3. l \in Int /\ q \in Int /\ Hand!Values - 1 \in 0 .. Hand!Values - 1
          /\ l = q * Hand!Values + (Hand!Values - 1)
      BY <1>1, <2>1, <2>2 DEF Hand!INVALID
    <2> QED
      BY <2>2, <2>3, RemainderIs
  <1> QED
    BY <1>1 DEF HandInv, HandlesFind, Hand!InvalidIsRare

-----------------------------------------------------------------------------
(* The one object (Singleton), whichever threads may make the first calls. *)

(* The types, but for the bound on the objects.                            *)
OnceTypes ==
    /\ m_pInstance \in alive \cup {0} /\ m_Lock \in 0..2 /\ once_made \in Nat
    /\ alive \subseteq 1..once_made /\ built \subseteq 1..once_made
    /\ once_pc \in [Thread -> Warm!InsidePC \cup {"out", "use"}]
    /\ releases \in [Thread -> BOOLEAN] /\ got \in [Thread -> 0..once_made]
    /\ wiped \in BOOLEAN

(* What a thread has built and not yet stored is there, and its alone.     *)
StoresOwn ==
    \A t \in Thread :
        /\ once_pc[t] = "build" => got[t] # 0
        /\ once_pc[t] = "store" =>
              /\ got[t] \in alive /\ got[t] # m_pInstance
              /\ \A u \in Thread \ {t} : once_pc[u] = "store" => got[u] # got[t]

(* Whoever may still make an object is counted when it calls.              *)
Makers == {t \in Thread :
    /\ once_pc[t] \in {"test", "init", "lock", "lockSlow", "asleep", "testAgain"}
    /\ ~releases[t]}
ObjectsAreBounded(max) == once_made + Cardinality(Makers) <= max

(* The mutex is taken by a thread, sleepers wait for it, and no sleep is   *)
(* without end.                                                            *)
LockInv ==
    /\ m_Lock # 0 => \E t \in Thread : once_pc[t] \in Warm!Holding
    /\ sleeping \subseteq {t \in Thread : once_pc[t] = "asleep"}
    /\ Warm!SleepersAreWoken

OnceInv(max) == OnceTypes /\ StoresOwn /\ ObjectsAreBounded(max) /\ LockInv

(* A call, whoever may make it.                                            *)
Called(t, max) ==
    /\ Warm!Goto(t, "out", "test")
    /\ \/ releases' = [releases EXCEPT ![t] = TRUE]
       \/ /\ releases' = [releases EXCEPT ![t] = FALSE]
          /\ once_made + Cardinality(Warm!Inside) < max
    /\ UNCHANGED <<m_pInstance, once_made, alive, built, got, m_Lock, sleeping, wiped>>
OnceNext(max) == \E t \in Thread : Called(t, max) \/ Warm!Step(t)

(* The steps are the same for warm and cold starts; a start differs in who *)
(* may call.                                                               *)
LEMMA OnceSteps ==
    (Warm!Next => OnceNext(WarmObjects)) /\ (Cold!Next => OnceNext(ColdObjects))
  <1>1. \A t : Cold!Test(t) <=> Warm!Test(t)
    BY DEF Warm!Test, Cold!Test, Warm!IsWanted, Cold!IsWanted, Warm!Goto, Cold!Goto,
           Warm!objects, Cold!objects, Warm!mutex, Cold!mutex
  <1>2. \A t : Cold!InitLock(t) <=> Warm!InitLock(t)
    BY DEF Warm!InitLock, Cold!InitLock, Warm!Goto, Cold!Goto, Warm!objects, Cold!objects
  <1>3. \A t : Cold!Lock(t) <=> Warm!Lock(t)
    BY DEF Warm!Lock, Cold!Lock, Warm!Goto, Cold!Goto, Warm!objects, Cold!objects
  <1>4. \A t : Cold!LockSlow(t) <=> Warm!LockSlow(t)
    BY DEF Warm!LockSlow, Cold!LockSlow, Warm!Goto, Cold!Goto, Warm!objects, Cold!objects
  <1>5. \A t : Cold!Wake(t) <=> Warm!Wake(t)
    BY DEF Warm!Wake, Cold!Wake, Warm!Goto, Cold!Goto, Warm!objects, Cold!objects,
           Warm!mutex, Cold!mutex
  <1>6. \A t : Cold!TestAgain(t) <=> Warm!TestAgain(t)
    BY DEF Warm!TestAgain, Cold!TestAgain, Warm!IsWanted, Cold!IsWanted, Warm!Goto,
           Cold!Goto, Warm!objects, Cold!objects, Warm!mutex, Cold!mutex
  <1>7. \A t : Cold!New(t) <=> Warm!New(t)
    BY DEF Warm!New, Cold!New, Warm!IsWanted, Cold!IsWanted, Warm!Goto, Cold!Goto,
           Warm!mutex, Cold!mutex
  <1>8. \A t : Cold!Build(t) <=> Warm!Build(t)
    BY DEF Warm!Build, Cold!Build, Warm!Goto, Cold!Goto, Warm!mutex, Cold!mutex
  <1>9. \A t : Cold!Store(t) <=> Warm!Store(t)
    BY DEF Warm!Store, Cold!Store, Warm!Goto, Cold!Goto, Warm!mutex, Cold!mutex
  <1>10. \A t : Cold!Delete(t) <=> Warm!Delete(t)
    BY DEF Warm!Delete, Cold!Delete, Warm!IsWanted, Cold!IsWanted, Warm!Goto, Cold!Goto,
           Warm!mutex, Cold!mutex
  <1>11. \A t : Cold!Unlock(t) <=> Warm!Unlock(t)
    BY DEF Warm!Unlock, Cold!Unlock, Warm!Goto, Cold!Goto, Warm!objects, Cold!objects
  <1>12. \A t : Cold!Return(t) <=> Warm!Return(t)
    BY DEF Warm!Return, Cold!Return, Warm!Goto, Cold!Goto, Warm!mutex, Cold!mutex
  <1>13. \A t : Cold!Used(t) <=> Warm!Used(t)
    BY DEF Warm!Used, Cold!Used, Warm!Goto, Cold!Goto, Warm!objects, Cold!objects,
           Warm!mutex, Cold!mutex
  <1>14. \A t : Warm!CallInstance(t) \/ Warm!CallRelease(t) => Called(t, WarmObjects)
    BY DEF Called, Warm!CallInstance, Warm!CallRelease, Warm!Cardinality, Cardinality,
           Warm!objects, Warm!mutex
  <1>15. \A t : Cold!CallInstance(t) \/ Cold!CallRelease(t) => Called(t, ColdObjects)
    BY DEF Called, Cold!CallInstance, Cold!CallRelease, Cold!Cardinality, Cardinality,
           Cold!objects, Cold!mutex, Cold!Goto, Warm!Goto, Cold!Inside, Warm!Inside,
           Cold!InsidePC, Warm!InsidePC
  <1>16. \A t : Cold!Step(t) <=> Warm!Step(t)
    BY <1>1, <1>2, <1>3, <1>4, <1>5, <1>6, <1>7, <1>8, <1>9, <1>10, <1>11, <1>12, <1>13,
       Zenon DEF Warm!Step, Cold!Step
  <1>17. Warm!Next => OnceNext(WarmObjects)
    BY <1>14, Zenon DEF Warm!Next, OnceNext
  <1>18. Cold!Next => OnceNext(ColdObjects)
    BY <1>15, <1>16, Zenon DEF Cold!Next, OnceNext
  <1> QED
    BY <1>17, <1>18

(* Nobody has called at first.                                             *)
LEMMA OnceInit ==
    ASSUME Warm!Init, NEW max \in Nat
    PROVE  OnceInv(max)
  <1> USE DEF Warm!Init
  <1>0. OnceTypes
    <2>1. /\ once_pc \in [Thread -> Warm!InsidePC \cup {"out", "use"}]
          /\ releases \in [Thread -> BOOLEAN] /\ got \in [Thread -> 0..0]
      OBVIOUS
    <2>2. /\ m_pInstance \in alive \cup {0} /\ alive \subseteq 1..0 /\ built \subseteq 1..0
      OBVIOUS
    <2>3. m_Lock \in 0..2 /\ once_made = 0
      OBVIOUS
    <2>4. wiped \in BOOLEAN
      OBVIOUS
    <2> QED
      BY <2>1, <2>2, <2>3, <2>4 DEF OnceTypes
  <1>1. StoresOwn /\ LockInv
    BY DEF StoresOwn, LockInv, Warm!SleepersAreWoken
  <1>2. Makers = {} /\ once_made = 0
    BY DEF Makers
  <1>3. Cardinality(Makers) = 0
    BY <1>2, FS_EmptySet, Zenon
  <1>4. ObjectsAreBounded(max)
    BY <1>2, <1>3 DEF ObjectsAreBounded
  <1> QED
    BY <1>0, <1>1, <1>4 DEF OnceInv

(* Each step keeps the types, and what is built is stored once.            *)
LEMMA OnceTypeStep ==
    ASSUME OnceTypes, StoresOwn, NEW max, OnceNext(max) \/ UNCHANGED onceVars
    PROVE  OnceTypes' /\ StoresOwn'
  <1> USE DEF OnceTypes, StoresOwn, Warm!Goto, Warm!objects, Warm!mutex, Warm!InsidePC
  <1>1. ASSUME NEW t \in Thread, Called(t, max) PROVE OnceTypes' /\ StoresOwn'
    BY <1>1 DEF Called
  <1>2. ASSUME NEW t \in Thread, Warm!Test(t) PROVE OnceTypes' /\ StoresOwn'
    BY <1>2 DEF Warm!Test
  <1>3. ASSUME NEW t \in Thread, Warm!InitLock(t) PROVE OnceTypes' /\ StoresOwn'
    BY <1>3 DEF Warm!InitLock
  <1>4. ASSUME NEW t \in Thread, Warm!Lock(t) PROVE OnceTypes' /\ StoresOwn'
    BY <1>4 DEF Warm!Lock
  <1>5. ASSUME NEW t \in Thread, Warm!LockSlow(t) PROVE OnceTypes' /\ StoresOwn'
    BY <1>5 DEF Warm!LockSlow
  <1>6. ASSUME NEW t \in Thread, Warm!Wake(t) PROVE OnceTypes' /\ StoresOwn'
    BY <1>6 DEF Warm!Wake
  <1>7. ASSUME NEW t \in Thread, Warm!TestAgain(t) PROVE OnceTypes' /\ StoresOwn'
    BY <1>7 DEF Warm!TestAgain
  <1>8. ASSUME NEW t \in Thread, Warm!New(t) PROVE OnceTypes' /\ StoresOwn'
    <2>1. once_made' = once_made + 1 /\ alive' = alive \cup {once_made + 1}
          /\ got' = [got EXCEPT ![t] = once_made + 1] /\ releases' = releases
          /\ m_Lock' = m_Lock /\ wiped' = wiped
      BY <1>8 DEF Warm!New
    <2>2. once_made' \in Nat /\ alive' \subseteq 1..once_made' /\ got' \in [Thread -> 0..once_made']
      BY <2>1
    <2>3. \A u \in Thread : once_pc[u] = "store" => got[u] # once_made + 1
      OBVIOUS
    <2>4. CASE /\ once_pc' = [once_pc EXCEPT ![t] = "build"] /\ m_pInstance' = once_made'
               /\ built' = built
      <3>1. OnceTypes'
        BY <2>1, <2>2, <2>4
      <3>2. StoresOwn'
        BY <2>1, <2>3, <2>4
      <3> QED
        BY <3>1, <3>2
    <2>5. CASE /\ once_pc' = [once_pc EXCEPT ![t] = "store"] /\ m_pInstance' = m_pInstance
               /\ built' = built \cup {once_made'}
      <3>1. OnceTypes'
        BY <2>1, <2>2, <2>5
      <3>2. StoresOwn'
        BY <2>1, <2>3, <2>5
      <3> QED
        BY <3>1, <3>2
    <2> QED
      BY <1>8, <2>4, <2>5 DEF Warm!New
  <1>9. ASSUME NEW t \in Thread, Warm!Build(t) PROVE OnceTypes' /\ StoresOwn'
    <2>1. got[t] \in 1..once_made
      BY <1>9 DEF Warm!Build
    <2>2. OnceTypes'
      BY <1>9, <2>1 DEF Warm!Build
    <2>3. StoresOwn'
      BY <1>9 DEF Warm!Build
    <2> QED
      BY <2>2, <2>3
  <1>10. ASSUME NEW t \in Thread, Warm!Store(t) PROVE OnceTypes' /\ StoresOwn'
    BY <1>10 DEF Warm!Store
  <1>11. ASSUME NEW t \in Thread, Warm!Delete(t) PROVE OnceTypes' /\ StoresOwn'
    BY <1>11 DEF Warm!Delete
  <1>12. ASSUME NEW t \in Thread, Warm!Unlock(t) PROVE OnceTypes' /\ StoresOwn'
    BY <1>12 DEF Warm!Unlock
  <1>13. ASSUME NEW t \in Thread, Warm!Return(t) PROVE OnceTypes' /\ StoresOwn'
    BY <1>13 DEF Warm!Return
  <1>14. ASSUME NEW t \in Thread, Warm!Used(t) PROVE OnceTypes' /\ StoresOwn'
    BY <1>14 DEF Warm!Used
  <1>15. ASSUME UNCHANGED onceVars PROVE OnceTypes' /\ StoresOwn'
    BY <1>15 DEF onceVars
  <1> QED
    BY <1>1, <1>2, <1>3, <1>4, <1>5, <1>6, <1>7, <1>8, <1>9, <1>10, <1>11, <1>12, <1>13,
       <1>14, <1>15, Zenon DEF OnceNext, Warm!Step

(* Each step keeps the objects bounded: who makes one was counted.         *)
LEMMA OnceBoundStep ==
    ASSUME IsFiniteSet(Thread), NEW max \in Nat, OnceTypes, ObjectsAreBounded(max),
           OnceNext(max) \/ UNCHANGED onceVars
    PROVE  ObjectsAreBounded(max)'
  <1>1. \A S \in SUBSET Thread : IsFiniteSet(S) /\ Cardinality(S) \in Nat
    BY FS_Subset, FS_CardinalityType, Zenon
  <1>2. Makers \in SUBSET Thread /\ Makers' \in SUBSET Thread
        /\ Warm!Inside \in SUBSET Thread /\ Makers \subseteq Warm!Inside
    BY DEF Makers, Warm!Inside, Warm!InsidePC
  <1>3. \/ once_made' = once_made /\ Makers' \subseteq Makers
        \/ once_made' = once_made + 1 /\ \E t \in Makers : Makers' = Makers \ {t}
        \/ /\ once_made' = once_made /\ once_made + Cardinality(Warm!Inside) < max
           /\ \E t \in Thread : t \notin Makers /\ Makers' = Makers \cup {t}
    <2> USE DEF OnceTypes, Warm!Goto, Warm!objects, Warm!mutex, Warm!InsidePC, Makers
    <2>1. ASSUME NEW t \in Thread, Called(t, max)
          PROVE  \/ once_made' = once_made /\ Makers' \subseteq Makers
                 \/ /\ once_made' = once_made /\ once_made + Cardinality(Warm!Inside) < max
                    /\ t \notin Makers /\ Makers' = Makers \cup {t}
      BY <2>1 DEF Called
    <2>2. ASSUME NEW t \in Thread, Warm!New(t)
          PROVE  /\ once_made' = once_made + 1 /\ t \in Makers /\ Makers' = Makers \ {t}
      BY <2>2 DEF Warm!New
    <2>3. ASSUME NEW t \in Thread,
                 \/ Warm!Test(t) \/ Warm!InitLock(t) \/ Warm!Lock(t) \/ Warm!LockSlow(t)
                 \/ Warm!Wake(t) \/ Warm!TestAgain(t)
          PROVE  once_made' = once_made /\ Makers' \subseteq Makers
      BY <2>3 DEF Warm!Test, Warm!InitLock, Warm!Lock, Warm!LockSlow, Warm!Wake,
         Warm!TestAgain
    <2>4. ASSUME NEW t \in Thread,
                 \/ Warm!Build(t) \/ Warm!Store(t) \/ Warm!Delete(t) \/ Warm!Unlock(t)
                 \/ Warm!Return(t) \/ Warm!Used(t)
          PROVE  once_made' = once_made /\ Makers' \subseteq Makers
      BY <2>4 DEF Warm!Build, Warm!Store, Warm!Delete, Warm!Unlock, Warm!Return, Warm!Used
    <2>5. ASSUME UNCHANGED onceVars PROVE once_made' = once_made /\ Makers' \subseteq Makers
      BY <2>5 DEF onceVars
    <2> QED
      BY <2>1, <2>2, <2>3, <2>4, <2>5, Zenon DEF OnceNext, Warm!Step
  <1>4. /\ Cardinality(Makers) \in Nat /\ Cardinality(Makers') \in Nat
        /\ Cardinality(Warm!Inside) \in Nat
    BY <1>1, <1>2, Zenon
  <1>5. Cardinality(Makers) <= Cardinality(Warm!Inside)
    BY <1>1, <1>2, FS_Subset, Zenon
  <1>6. Makers' \subseteq Makers => Cardinality(Makers') <= Cardinality(Makers)
    BY <1>1, <1>2, FS_Subset, Zenon
  <1>7. \A t \in Makers : Cardinality(Makers \ {t}) = Cardinality(Makers) - 1
    BY <1>1, <1>2, FS_RemoveElement, Zenon
  <1>8. \A t : t \notin Makers => Cardinality(Makers \cup {t}) = Cardinality(Makers) + 1
    BY <1>1, <1>2, FS_AddElement, Zenon
  <1> HIDE DEF OnceNext
  <1>9. once_made \in Nat /\ once_made + Cardinality(Makers) <= max
    BY DEF OnceTypes, ObjectsAreBounded
  <1>10. once_made' + Cardinality(Makers') <= max
    <2>1. CASE once_made' = once_made /\ Makers' \subseteq Makers
      BY <1>4, <1>6, <1>9, <2>1
    <2>2. ASSUME once_made' = once_made + 1, NEW t \in Makers, Makers' = Makers \ {t}
          PROVE  once_made' + Cardinality(Makers') <= max
      <3>1. Cardinality(Makers') = Cardinality(Makers) - 1
        BY <1>7, <2>2, Zenon
      <3> QED
        BY <1>4, <1>9, <2>2, <3>1
    <2>3. ASSUME once_made' = once_made, once_made + Cardinality(Warm!Inside) < max,
                 NEW t \in Thread, t \notin Makers, Makers' = Makers \cup {t}
          PROVE  once_made' + Cardinality(Makers') <= max
      <3>1. Cardinality(Makers') = Cardinality(Makers) + 1
        BY <1>8, <2>3, Zenon
      <3> QED
        BY <1>4, <1>5, <1>9, <2>3, <3>1
    <2> QED
      BY <1>3, <2>1, <2>2, <2>3, Zenon
  <1> QED
    BY <1>10 DEF ObjectsAreBounded

(* Each step keeps the mutex: it is given up by who holds it, and who      *)
(* gives it up with the mark of sleepers wakes one.                        *)
LEMMA OnceLockStep ==
    ASSUME OnceTypes, LockInv, NEW max, OnceNext(max) \/ UNCHANGED onceVars
    PROVE  LockInv'
  <1> USE DEF OnceTypes, LockInv, Warm!SleepersAreWoken, Warm!Holding, Warm!Goto, Warm!objects,
              Warm!mutex
  <1>1. ASSUME NEW t \in Thread, Called(t, max) PROVE LockInv'
    BY <1>1 DEF Called
  <1>2. ASSUME NEW t \in Thread, Warm!Test(t) PROVE LockInv'
    BY <1>2 DEF Warm!Test
  <1>3. ASSUME NEW t \in Thread, Warm!InitLock(t) PROVE LockInv'
    BY <1>3 DEF Warm!InitLock
  <1>4. ASSUME NEW t \in Thread, Warm!Lock(t) PROVE LockInv'
    BY <1>4 DEF Warm!Lock
  <1>5. ASSUME NEW t \in Thread, Warm!LockSlow(t) PROVE LockInv'
    BY <1>5 DEF Warm!LockSlow
  <1>6. ASSUME NEW t \in Thread, Warm!Wake(t) PROVE LockInv'
    BY <1>6 DEF Warm!Wake
  <1>7. ASSUME NEW t \in Thread, Warm!TestAgain(t) PROVE LockInv'
    BY <1>7 DEF Warm!TestAgain
  <1>8. ASSUME NEW t \in Thread, Warm!New(t) PROVE LockInv'
    BY <1>8 DEF Warm!New
  <1>9. ASSUME NEW t \in Thread, Warm!Build(t) PROVE LockInv'
    BY <1>9 DEF Warm!Build
  <1>10. ASSUME NEW t \in Thread, Warm!Store(t) PROVE LockInv'
    BY <1>10 DEF Warm!Store
  <1>11. ASSUME NEW t \in Thread, Warm!Delete(t) PROVE LockInv'
    BY <1>11 DEF Warm!Delete
  <1>12. ASSUME NEW t \in Thread, Warm!Unlock(t) PROVE LockInv'
    BY <1>12 DEF Warm!Unlock
  <1>13. ASSUME NEW t \in Thread, Warm!Return(t) PROVE LockInv'
    BY <1>13 DEF Warm!Return
  <1>14. ASSUME NEW t \in Thread, Warm!Used(t) PROVE LockInv'
    BY <1>14 DEF Warm!Used
  <1>15. ASSUME UNCHANGED onceVars PROVE LockInv'
    BY <1>15 DEF onceVars
  <1> QED
    BY <1>1, <1>2, <1>3, <1>4, <1>5, <1>6, <1>7, <1>8, <1>9, <1>10, <1>11, <1>12, <1>13,
       <1>14, <1>15, Zenon DEF OnceNext, Warm!Step

(* When main makes the first call and the last, the others call only while *)
(* there is an object and main is at rest or finds it too, ...             *)
OthersFindIt ==
    \A t \in Thread \ {Main} :
        /\ ~releases[t] /\ once_pc[t] \in {"out", "test", "return", "use"}
        /\ once_pc[t] # "out" =>
              /\ m_pInstance # 0
              /\ \/ once_pc[Main] \in {"out", "use"}
                 \/ once_pc[Main] \in {"test", "return"} /\ ~releases[Main]
(* ... main alone makes it, stores it and deletes it, ...                  *)
MainMakesIt ==
    /\ once_pc[Main] # "store" => alive = IF m_pInstance = 0 THEN {} ELSE {m_pInstance}
    /\ once_pc[Main] = "store" =>
          m_pInstance = 0 /\ got[Main] \in built /\ alive = {got[Main]}
    /\ once_pc[Main] = "build" => m_pInstance # 0 /\ got[Main] = m_pInstance
    /\ once_pc[Main] # "build" /\ m_pInstance # 0 => m_pInstance \in built
    /\ once_pc[Main] \in {"unlock", "return"} /\ ~releases[Main] => m_pInstance # 0
(* ... and whoever uses one uses it.                                       *)
AllUseIt == \A t \in Thread : once_pc[t] = "use" => m_pInstance # 0 /\ got[t] = m_pInstance

WarmInv == OthersFindIt /\ MainMakesIt /\ AllUseIt

(* Nobody has called at first.                                             *)
LEMMA WarmInit == Warm!ConstantsOK /\ Warm!Init => WarmInv
  BY DEF Warm!ConstantsOK, Warm!Init, WarmInv, OthersFindIt, MainMakesIt, AllUseIt

(* Each step keeps this: main's release waits for the others, so the       *)
(* object that they have found stays.                                      *)
LEMMA WarmStep ==
    Warm!ConstantsOK /\ OnceTypes /\ WarmInv /\ (Warm!Next \/ UNCHANGED onceVars) => WarmInv'
  <1> SUFFICES ASSUME Warm!ConstantsOK, OnceTypes, WarmInv, Warm!Next \/ UNCHANGED onceVars
               PROVE  WarmInv'
    OBVIOUS
  <1>0. /\ Main \in Thread /\ once_pc \in [Thread -> Warm!InsidePC \cup {"out", "use"}]
        /\ releases \in [Thread -> BOOLEAN] /\ got \in [Thread -> 0..once_made]
        /\ once_made \in Nat
    BY DEF Warm!ConstantsOK, OnceTypes
  <1> HIDE DEF OnceTypes, Warm!ConstantsOK
  <1> USE <1>0 DEF WarmInv, OthersFindIt, MainMakesIt, AllUseIt, Warm!Goto, Warm!objects,
              Warm!mutex, Warm!InsidePC, Warm!IsWanted
  <1>1. ASSUME NEW t \in Thread, Warm!CallInstance(t) PROVE WarmInv'
    BY <1>1 DEF Warm!CallInstance, Warm!MayCall
  <1>2. ASSUME NEW t \in Thread, Warm!CallRelease(t) PROVE WarmInv'
    BY <1>2 DEF Warm!CallRelease, Warm!MayRelease
  <1>3. ASSUME NEW t \in Thread, Warm!Test(t) PROVE WarmInv'
    BY <1>3 DEF Warm!Test
  <1>4. ASSUME NEW t \in Thread, Warm!InitLock(t) PROVE WarmInv'
    BY <1>4 DEF Warm!InitLock
  <1>5. ASSUME NEW t \in Thread, Warm!Lock(t) PROVE WarmInv'
    BY <1>5 DEF Warm!Lock
  <1>6. ASSUME NEW t \in Thread, Warm!LockSlow(t) PROVE WarmInv'
    BY <1>6 DEF Warm!LockSlow
  <1>7. ASSUME NEW t \in Thread, Warm!Wake(t) PROVE WarmInv'
    BY <1>7 DEF Warm!Wake
  <1>8. ASSUME NEW t \in Thread, Warm!TestAgain(t) PROVE WarmInv'
    BY <1>8 DEF Warm!TestAgain
  <1>9. ASSUME NEW t \in Thread, Warm!New(t) PROVE WarmInv'
    BY <1>9 DEF Warm!New
  <1>10. ASSUME NEW t \in Thread, Warm!Build(t) PROVE WarmInv'
    BY <1>10 DEF Warm!Build
  <1>11. ASSUME NEW t \in Thread, Warm!Store(t) PROVE WarmInv'
    <2>1. t = Main /\ alive = {got[Main]}
      BY <1>11 DEF Warm!Store
    <2>2. got[Main] # 0
      BY <2>1 DEF OnceTypes
    <2> QED
      BY <1>11, <2>1, <2>2 DEF Warm!Store
  <1>12. ASSUME NEW t \in Thread, Warm!Delete(t) PROVE WarmInv'
    BY <1>12 DEF Warm!Delete
  <1>13. ASSUME NEW t \in Thread, Warm!Unlock(t) PROVE WarmInv'
    BY <1>13 DEF Warm!Unlock
  <1>14. ASSUME NEW t \in Thread, Warm!Return(t) PROVE WarmInv'
    BY <1>14 DEF Warm!Return
  <1>15. ASSUME NEW t \in Thread, Warm!Used(t) PROVE WarmInv'
    BY <1>15 DEF Warm!Used
  <1>16. ASSUME UNCHANGED onceVars PROVE WarmInv'
    BY <1>16 DEF onceVars
  <1> QED
    BY <1>1, <1>2, <1>3, <1>4, <1>5, <1>6, <1>7, <1>8, <1>9, <1>10, <1>11, <1>12, <1>13,
       <1>14, <1>15, <1>16, Zenon DEF Warm!Next, Warm!Step

(* What the run checks follows from these.                                 *)
LEMMA OnceTypeOK ==
    ASSUME IsFiniteSet(Thread), NEW max \in Nat, OnceInv(max)
    PROVE  /\ max = WarmObjects => Warm!TypeOK
           /\ max = ColdObjects => Cold!TypeOK
           /\ Warm!SleepersAreWoken
  <1>1. Makers \in SUBSET Thread
    BY DEF Makers
  <1>2. Cardinality(Makers) \in Nat
    BY <1>1, FS_Subset, FS_CardinalityType, Zenon
  <1>3. once_made \in Nat /\ once_made + Cardinality(Makers) <= max
    BY DEF OnceInv, OnceTypes, ObjectsAreBounded
  <1>4. once_made \in 0..max /\ 0..once_made \subseteq 0..max
    BY <1>2, <1>3
  <1>5. got \in [Thread -> 0..max]
    BY <1>4 DEF OnceInv, OnceTypes
  <1>6. sleeping \subseteq Thread
    BY DEF OnceInv, LockInv
  <1>7. Cold!InsidePC = Warm!InsidePC
    BY DEF Cold!InsidePC, Warm!InsidePC
  <1> QED
    BY <1>4, <1>5, <1>6, <1>7, Zenon DEF OnceInv, OnceTypes, Warm!TypeOK, Cold!TypeOK,
       LockInv

(* One object, and it is there for whoever uses it.                        *)
LEMMA WarmGoals ==
    Warm!ConstantsOK /\ OnceTypes /\ WarmInv => Warm!OneObject /\ Warm!UsesWhatIs
  <1> SUFFICES ASSUME Warm!ConstantsOK, OnceTypes, WarmInv
               PROVE  Warm!OneObject /\ Warm!UsesWhatIs
    OBVIOUS
  <1>1. alive = {} \/ \E o : alive = {o}
    BY DEF WarmInv, MainMakesIt
  <1>2. Cardinality(alive) \in {0, 1}
    BY <1>1, FS_EmptySet, FS_Singleton, Zenon
  <1>3. Warm!Cardinality(alive) = Cardinality(alive)
    BY DEF Warm!Cardinality, Cardinality
  <1>4. Warm!OneObject
    BY <1>2, <1>3 DEF Warm!OneObject
  <1>5. ASSUME NEW t \in Thread, once_pc[t] = "use" PROVE got[t] \in alive \cap built
    BY <1>5 DEF WarmInv, OthersFindIt, MainMakesIt, AllUseIt
  <1> QED
    BY <1>4, <1>5 DEF Warm!UsesWhatIs

-----------------------------------------------------------------------------
(* The counted pointers (RefCountPtr).                                     *)

(* The types, but for the bounds of the counters.                          *)
CountTypes ==
    /\ live \subseteq Count!Ptr /\ made \in 0..MaxObjects /\ deleted \subseteq 1..made
    /\ m_pRef \in [Count!Ptr -> 0..made] /\ m_pObj = m_pRef
    /\ count \in [Count!Object -> Nat]
    /\ pc \in [Sharer -> {"idle", "test", "sub", "delete", "take", "add"}]
    /\ DOMAIN to = Sharer /\ DOMAIN from = Sharer

(* Where a thread is in an operation, and on which pointers: it destroys   *)
(* one, or gives one the value of another that is there.                   *)
InOperation(t) ==
    /\ to[t] \in PtrsOf[t] \cup Table /\ from[t] \in PtrsOf[t] \cup Table
    /\ \/ to[t] \notin live /\ to[t] = from[t] /\ pc[t] \in {"test", "sub", "delete"}
       \/ to[t] \in live /\ from[t] \in live /\ to[t] # from[t]
    /\ pc[t] \in {"test", "sub", "delete", "take"} /\ to[t] \in live =>
          m_pRef[from[t]] # 0 \/ m_pRef[to[t]] = 0
    /\ pc[t] \in {"sub", "delete"} => m_pRef[to[t]] # 0
    /\ pc[t] = "add" => m_pRef[to[t]] = m_pRef[from[t]] /\ m_pRef[to[t]] # 0

(* Two threads are never at work on one pointer.                           *)
PtrsApart ==
    \A t, u \in Sharer : t # u /\ pc[t] # "idle" /\ pc[u] # "idle" =>
        {to[t], from[t]} \cap {to[u], from[u]} = {}

OperationInv ==
    CountTypes /\ PtrsApart /\ \A t \in Sharer : pc[t] # "idle" => InOperation(t)

(* What a thread may use, no other thread is at work on.                   *)
LEMMA UsableIsFree ==
    ASSUME Count!ConstantsOK, OperationInv, NEW t \in Sharer, NEW p, Count!Usable(t, p)
    PROVE  \A u \in Sharer \ {t} : pc[u] # "idle" => p # to[u] /\ p # from[u]
  BY DEF Count!ConstantsOK, OperationInv, InOperation, Count!Usable, Count!Busy

(* Each step keeps the threads apart, and each where its operation is.     *)
LEMMA OperationStep ==
    Count!ConstantsOK /\ OperationInv /\ (Count!Next \/ UNCHANGED countVars)
    /\ (\A t \in Sharer : pc[t] \in {"test", "sub"} /\ m_pRef[to[t]] # 0 => count[m_pRef[to[t]]] # 0)
    => OperationInv'
  <1> SUFFICES ASSUME Count!ConstantsOK, OperationInv, Count!Next \/ UNCHANGED countVars,
                      \A t \in Sharer : pc[t] \in {"test", "sub"} /\ m_pRef[to[t]] # 0
                                        => count[m_pRef[to[t]]] # 0
               PROVE  OperationInv'
    OBVIOUS
  <1>0. \A t \in Sharer : PtrsOf[t] \cup Table \subseteq Count!Ptr
    BY DEF Count!Ptr
  <1>1. MaxObjects \in Nat
    BY DEF Count!ConstantsOK
  <1>u. ASSUME NEW t \in Sharer, NEW p, pc[t] = "idle", Count!Usable(t, p)
        PROVE  \A u \in Sharer : pc[u] # "idle" => p # to[u] /\ p # from[u]
    <2>1. \A u \in Sharer \ {t} : pc[u] # "idle" => p # to[u] /\ p # from[u]
      BY <1>u, UsableIsFree, Zenon
    <2> QED
      BY <1>u, <2>1
  <1> USE <1>0, <1>1 DEF OperationInv, CountTypes, PtrsApart, InOperation, Count!Goto, Count!heap,
                    Count!ptrs, Count!Object
  <1>2. ASSUME NEW t \in Sharer, NEW p \in Count!Ptr, Count!ConstructNull(t, p)
        PROVE  OperationInv'
    <2>1. \A u \in Sharer : pc[u] # "idle" => p # to[u] /\ p # from[u]
      BY <1>2, <1>u DEF Count!ConstructNull
    <2> QED
      BY <1>2, <2>1 DEF Count!ConstructNull
  <1>3. ASSUME NEW t \in Sharer, NEW p \in Count!Ptr, Count!Construct(t, p)
        PROVE  OperationInv'
    <2>1. \A u \in Sharer : pc[u] # "idle" => p # to[u] /\ p # from[u]
      BY <1>3, <1>u DEF Count!Construct
    <2> QED
      BY <1>3, <2>1 DEF Count!Construct
  <1>4. ASSUME NEW t \in Sharer, NEW p \in Count!Ptr, Count!Destroy(t, p)
        PROVE  OperationInv'
    <2>1. \A u \in Sharer : pc[u] # "idle" => p # to[u] /\ p # from[u]
      BY <1>4, <1>u DEF Count!Destroy, Count!Begin
    <2>2. p \in PtrsOf[t] \cup Table
      BY <1>4 DEF Count!Destroy, Count!Begin, Count!Usable
    <2> QED
      BY <1>4, <2>1, <2>2 DEF Count!Destroy, Count!Begin
  <1>5. ASSUME NEW t \in Sharer, NEW p \in Count!Ptr, NEW q \in Count!Ptr, Count!Copy(t, p, q)
        PROVE  OperationInv'
    <2>1. \A u \in Sharer : pc[u] # "idle" => /\ p # to[u] /\ p # from[u]
                                              /\ q # to[u] /\ q # from[u]
      BY <1>5, <1>u DEF Count!Copy, Count!Begin
    <2>2. p \in PtrsOf[t] \cup Table /\ q \in PtrsOf[t] \cup Table
      BY <1>5 DEF Count!Copy, Count!Begin, Count!Usable
    <2> QED
      BY <1>5, <2>1, <2>2 DEF Count!Copy, Count!Begin
  <1>6. ASSUME NEW t \in Sharer, NEW p \in Count!Ptr, NEW q \in Count!Ptr, Count!Assign(t, p, q)
        PROVE  OperationInv'
    <2>1. \A u \in Sharer : pc[u] # "idle" => /\ p # to[u] /\ p # from[u]
                                              /\ q # to[u] /\ q # from[u]
      BY <1>6, <1>u DEF Count!Assign, Count!Begin
    <2>2. p \in PtrsOf[t] \cup Table /\ q \in PtrsOf[t] \cup Table
      BY <1>6 DEF Count!Assign, Count!Begin, Count!Usable
    <2> QED
      BY <1>6, <2>1, <2>2 DEF Count!Assign, Count!Begin
  <1>7. ASSUME NEW t \in Sharer, Count!TestRef(t) PROVE OperationInv'
    BY <1>7 DEF Count!TestRef, Count!Done, Count!Destroying, Count!Touch
  <1>8. ASSUME NEW t \in Sharer, Count!SubRef(t) PROVE OperationInv'
    BY <1>8 DEF Count!SubRef, Count!Done, Count!Destroying, Count!Touch
  <1>9. ASSUME NEW t \in Sharer, Count!Delete(t) PROVE OperationInv'
    <2>1. /\ to[t] \in Count!Ptr /\ m_pRef[to[t]] \in 1..made /\ pc[t] = "delete"
          /\ m_pRef' = [m_pRef EXCEPT ![to[t]] = 0]
      BY <1>9 DEF Count!Delete
    <2>2. CountTypes'
      <3>1. /\ m_pRef' \in [Count!Ptr -> 0..made] /\ m_pObj' = m_pRef'
            /\ live' = live /\ count' = count /\ made' = made /\ to' = to /\ from' = from
        BY <1>9, <2>1 DEF Count!Delete
      <3>2. deleted' \subseteq 1..made
        BY <1>9, <2>1 DEF Count!Delete
      <3>3. pc' \in [Sharer -> {"idle", "test", "sub", "delete", "take", "add"}]
        BY <1>9 DEF Count!Delete, Count!Done
      <3> QED
        BY <3>1, <3>2, <3>3
    <2>3. PtrsApart'
      BY <1>9 DEF Count!Delete
    <2>4. ASSUME NEW u \in Sharer, pc'[u] # "idle" PROVE InOperation(u)'
      <3>1. CASE u = t
        BY <1>9, <2>1, <2>4, <3>1 DEF Count!Delete, Count!Done, Count!Destroying
      <3>2. CASE u # t
        <4>1. pc[u] # "idle" /\ InOperation(u) /\ pc'[u] = pc[u]
              /\ to'[u] = to[u] /\ from'[u] = from[u] /\ live' = live
          BY <1>9, <2>4, <3>2 DEF Count!Delete
        <4>2. m_pRef'[to[u]] = m_pRef[to[u]] /\ m_pRef'[from[u]] = m_pRef[from[u]]
          BY <2>1, <3>2, <4>1
        <4> QED
          BY <4>1, <4>2
      <3> QED
        BY <3>1, <3>2
    <2> QED
      BY <2>2, <2>3, <2>4
  <1>10. ASSUME NEW t \in Sharer, Count!Take(t) PROVE OperationInv'
    BY <1>10 DEF Count!Take
  <1>11. ASSUME NEW t \in Sharer, Count!AddRef(t) PROVE OperationInv'
    BY <1>11 DEF Count!AddRef, Count!Touch
  <1>12. ASSUME UNCHANGED countVars PROVE OperationInv'
    BY <1>12 DEF countVars
  <1> QED
    BY <1>2, <1>3, <1>4, <1>5, <1>6, <1>7, <1>8, <1>9, <1>10, <1>11, <1>12, Zenon
    DEF Count!Next, Count!Step

(* A pointer that holds its object: one at rest, or one whose operation    *)
(* has not yet taken its share out of the counter.                         *)
Holds(p) ==
    \/ p \in live /\ ~Count!InStep(p, {"delete", "take", "add"})
    \/ Count!InStep(p, {"test", "sub"})

(* They are the holders of their objects.                                  *)
LEMMA HoldersHold == \A o : Count!Holders(o) = {p \in Count!Ptr : m_pRef[p] = o /\ Holds(p)}
  BY DEF Count!Holders, Holds

(* Which pointers do, told by the threads at work on them, before a step   *)
(* and after it; a step changes that of its own pointer only.              *)
LEMMA HoldsNow ==
    OperationInv =>
        /\ \A t \in Sharer : \A p : pc[t] # "idle" /\ to[t] = p =>
              (Holds(p) <=> pc[t] \in {"test", "sub"})
        /\ \A p : (\A u \in Sharer : pc[u] # "idle" => to[u] # p) => (Holds(p) <=> p \in live)
  BY DEF OperationInv, CountTypes, PtrsApart, Holds, Count!InStep

LEMMA HoldsNext ==
    OperationInv' =>
        /\ \A t \in Sharer : \A p : pc'[t] # "idle" /\ to'[t] = p =>
              (Holds(p)' <=> pc'[t] \in {"test", "sub"})
        /\ \A p : (\A u \in Sharer : pc'[u] # "idle" => to'[u] # p) => (Holds(p)' <=> p \in live')
  BY DEF OperationInv, CountTypes, PtrsApart, Holds, Count!InStep

LEMMA HoldsElsewhere ==
    ASSUME NEW t \in Sharer, \A u \in Sharer \ {t} : pc'[u] = pc[u] /\ to'[u] = to[u],
           NEW p, p \in live' <=> p \in live,
           pc[t] = "idle" \/ to[t] # p, pc'[t] = "idle" \/ to'[t] # p
    PROVE  Holds(p)' <=> Holds(p)
  BY DEF Holds, Count!InStep

-----------------------------------------------------------------------------
(* Each object's counter, who deletes it and when it is gone.              *)
Counted == \A o \in Count!Object : count[o] = Cardinality(Count!Holders(o))
GoneUnheld == misused = FALSE /\ \A o \in deleted : Count!Holders(o) = {}
OneDeletes ==
    \A t \in Sharer : pc[t] = "delete" =>
        /\ Count!Holders(m_pRef[to[t]]) = {} /\ m_pRef[to[t]] \notin deleted
        /\ \A u \in Sharer \ {t} : pc[u] = "delete" => m_pRef[to[u]] # m_pRef[to[t]]
HeldOrDeleted ==
    \A o \in (1..made) \ deleted :
        Count!Holders(o) # {} \/ \E t \in Sharer : pc[t] = "delete" /\ m_pRef[to[t]] = o

PointerInv == OperationInv /\ Counted /\ GoneUnheld /\ OneDeletes /\ HeldOrDeleted

(* Nobody holds anything at first.                                         *)
LEMMA CountInit == Count!ConstantsOK /\ Count!Init => PointerInv
  <1> SUFFICES ASSUME Count!ConstantsOK, Count!Init PROVE PointerInv
    OBVIOUS
  <1>0. MaxObjects \in Nat
    BY DEF Count!ConstantsOK
  <1>1. /\ live = {} /\ made = 0 /\ deleted = {} /\ misused = FALSE
        /\ m_pRef = [p \in Count!Ptr |-> 0] /\ m_pObj = m_pRef
        /\ count = [o \in Count!Object |-> 0] /\ pc = [t \in Sharer |-> "idle"]
        /\ DOMAIN to = Sharer /\ DOMAIN from = Sharer
    BY DEF Count!Init
  <1>2. CountTypes
    BY <1>0, <1>1 DEF CountTypes
  <1>3. OperationInv
    BY <1>1, <1>2 DEF OperationInv, PtrsApart
  <1>4. \A o \in Count!Object : Count!Holders(o) = {}
    BY <1>1 DEF Count!Holders, Count!Object
  <1>5. Counted
    BY <1>1, <1>4, FS_EmptySet, Zenon DEF Counted
  <1>6. GoneUnheld /\ OneDeletes /\ HeldOrDeleted
    BY <1>1 DEF GoneUnheld, OneDeletes, HeldOrDeleted
  <1> QED
    BY <1>3, <1>5, <1>6 DEF PointerInv

(* Who holds an object finds its counter at work: in Release it is not     *)
(* zero, and what an assignment or a copy takes over is there.             *)
LEMMA HeldIsCounted ==
    ASSUME Count!ConstantsOK, PointerInv, NEW t \in Sharer, m_pRef[to[t]] # 0
    PROVE  /\ pc[t] \in {"test", "sub"} =>
                 /\ to[t] \in Count!Holders(m_pRef[to[t]])
                 /\ count[m_pRef[to[t]]] # 0 /\ m_pRef[to[t]] \notin deleted
           /\ pc[t] = "add" => /\ from[t] \in Count!Holders(m_pRef[to[t]])
                               /\ m_pRef[to[t]] \notin deleted
  <1>0. pc[t] # "idle" => /\ to[t] \in Count!Ptr /\ from[t] \in Count!Ptr
                          /\ m_pRef[to[t]] \in Count!Object
    <2> SUFFICES ASSUME pc[t] # "idle"
                 PROVE  /\ to[t] \in Count!Ptr /\ from[t] \in Count!Ptr
                        /\ m_pRef[to[t]] \in Count!Object
      OBVIOUS
    <2>1. to[t] \in Count!Ptr /\ from[t] \in Count!Ptr
      BY DEF PointerInv, OperationInv, InOperation, Count!Ptr
    <2>2. m_pRef[to[t]] \in 0..made /\ made \in 0..MaxObjects /\ MaxObjects \in Nat
      BY <2>1 DEF PointerInv, OperationInv, CountTypes, Count!ConstantsOK
    <2> QED
      BY <2>1, <2>2 DEF Count!Object
  <1>1. ASSUME pc[t] \in {"test", "sub"} PROVE to[t] \in Count!Holders(m_pRef[to[t]])
    BY <1>0, <1>1, HoldersHold, HoldsNow DEF PointerInv
  <1>2. ASSUME pc[t] = "add" PROVE from[t] \in Count!Holders(m_pRef[to[t]])
    <2>1. from[t] \in live /\ to[t] # from[t] /\ m_pRef[from[t]] = m_pRef[to[t]]
      BY <1>2 DEF PointerInv, OperationInv, InOperation
    <2>2. \A u \in Sharer : pc[u] # "idle" => to[u] # from[t]
      BY <1>2, <2>1 DEF PointerInv, OperationInv, PtrsApart
    <2>3. Holds(from[t])
      BY <2>1, <2>2, HoldsNow DEF PointerInv
    <2> QED
      BY <1>0, <1>2, <2>1, <2>3, HoldersHold
  <1>3. \A o \in Count!Object : Count!Holders(o) # {} => count[o] # 0
    <2> SUFFICES ASSUME NEW o \in Count!Object, Count!Holders(o) # {} PROVE count[o] # 0
      OBVIOUS
    <2>1. Count!Holders(o) \in SUBSET Count!Ptr
      BY DEF Count!Holders
    <2>2. IsFiniteSet(Count!Ptr)
      BY DEF Count!ConstantsOK, Count!IsFiniteSet, IsFiniteSet
    <2>3. IsFiniteSet(Count!Holders(o))
      BY <2>1, <2>2, FS_Subset, Zenon
    <2>4. Cardinality(Count!Holders(o)) # 0
      BY <2>3, FS_EmptySet, Zenon
    <2> QED
      BY <2>4 DEF PointerInv, Counted
  <1>4. \A o : Count!Holders(o) # {} => o \notin deleted
    BY DEF PointerInv, GoneUnheld
  <1> QED
    BY <1>0, <1>1, <1>2, <1>3, <1>4

(* A step in which no pointer begins or ceases to hold an object.          *)
LEMMA QuietStep ==
    ASSUME Count!ConstantsOK, PointerInv, OperationInv', count' = count, made' = made, deleted' = deleted,
           misused' = misused,
           \A o \in Count!Object : \A q \in Count!Ptr :
               m_pRef'[q] = o /\ Holds(q)' <=> m_pRef[q] = o /\ Holds(q),
           \A t \in Sharer : pc'[t] = "delete" <=> pc[t] = "delete",
           \A t \in Sharer : pc[t] = "delete" =>
               to'[t] = to[t] /\ m_pRef'[to[t]] = m_pRef[to[t]] /\ m_pRef[to[t]] \in Count!Object
    PROVE  PointerInv'
  <1>1. \A o \in Count!Object : Count!Holders(o)' = Count!Holders(o)
    <2>1. \A o : Count!Holders(o)' = {p \in Count!Ptr : m_pRef'[p] = o /\ Holds(p)'}
      BY DEF Count!Holders, Holds
    <2> QED
      BY <2>1, HoldersHold
  <1>2. 1..made \subseteq Count!Object /\ deleted \subseteq Count!Object
    BY DEF Count!ConstantsOK, PointerInv, OperationInv, CountTypes, Count!Object
  <1>3. Counted'
    BY <1>1 DEF PointerInv, Counted
  <1>4. GoneUnheld'
    BY <1>1, <1>2 DEF PointerInv, GoneUnheld
  <1>5. OneDeletes'
    BY <1>1 DEF PointerInv, OneDeletes
  <1>6. HeldOrDeleted'
    BY <1>1, <1>2 DEF PointerInv, HeldOrDeleted
  <1> QED
    BY <1>3, <1>4, <1>5, <1>6 DEF PointerInv

(* Where a step leaves a pointer alone, it holds what it held.             *)
LEMMA OthersHold ==
    ASSUME NEW t \in Sharer, \A u \in Sharer \ {t} : pc'[u] = pc[u] /\ to'[u] = to[u],
           NEW p, \A q \in Count!Ptr \ {p} : m_pRef'[q] = m_pRef[q] /\ (q \in live' <=> q \in live),
           pc[t] = "idle" \/ to[t] = p, pc'[t] = "idle" \/ to'[t] = p
    PROVE  \A q \in Count!Ptr \ {p} : m_pRef'[q] = m_pRef[q] /\ (Holds(q)' <=> Holds(q))
  BY HoldsElsewhere

(* The steps that change no counter.                                       *)
LEMMA QuietSteps ==
    ASSUME Count!ConstantsOK, PointerInv, OperationInv', NEW t \in Sharer,
           \/ \E p \in Count!Ptr : Count!ConstructNull(t, p) \/ Count!Destroy(t, p)
           \/ \E p, q \in Count!Ptr : Count!Copy(t, p, q) \/ Count!Assign(t, p, q)
           \/ Count!TestRef(t) \/ Count!Take(t)
    PROVE  PointerInv'
  <1>0. OperationInv /\ 0 \notin Count!Object /\ 0 \notin deleted
    BY DEF PointerInv, OperationInv, CountTypes, Count!Object
  <1>t. \A u \in Sharer : pc[u] = "delete" => m_pRef[to[u]] \in Count!Object /\ to[u] \in Count!Ptr
    <2> SUFFICES ASSUME NEW u \in Sharer, pc[u] = "delete"
                 PROVE  m_pRef[to[u]] \in Count!Object /\ to[u] \in Count!Ptr
      OBVIOUS
    <2>1. to[u] \in Count!Ptr /\ m_pRef[to[u]] # 0
      BY <1>0 DEF OperationInv, InOperation, Count!Ptr
    <2>2. m_pRef[to[u]] \in 0..made /\ made \in 0..MaxObjects /\ MaxObjects \in Nat
      BY <1>0, <2>1 DEF OperationInv, CountTypes, Count!ConstantsOK
    <2> QED
      BY <2>1, <2>2 DEF Count!Object
  <1>u. ASSUME NEW p, pc[t] = "idle", Count!Usable(t, p)
        PROVE  \A u \in Sharer : pc[u] # "idle" => p # to[u]
    <2>1. \A u \in Sharer \ {t} : pc[u] # "idle" => p # to[u] /\ p # from[u]
      BY <1>0, <1>u, UsableIsFree, Zenon
    <2> QED
      BY <1>u, <2>1
  <1> USE DEF Count!Goto, Count!heap, Count!ptrs
  <1> DEFINE Quiet(p) ==
        /\ count' = count /\ made' = made /\ deleted' = deleted /\ misused' = misused
        /\ \A o \in Count!Object : m_pRef'[p] = o /\ Holds(p)' <=> m_pRef[p] = o /\ Holds(p)
        /\ \A q \in Count!Ptr \ {p} : m_pRef'[q] = m_pRef[q] /\ (Holds(q)' <=> Holds(q))
        /\ \A u \in Sharer : pc'[u] = "delete" <=> pc[u] = "delete"
        /\ \A u \in Sharer : pc[u] = "delete" => to'[u] = to[u] /\ to[u] # p
  <1>1. ASSUME NEW p \in Count!Ptr, Quiet(p) PROVE PointerInv'
    <2>1. \A o \in Count!Object : \A q \in Count!Ptr :
             m_pRef'[q] = o /\ Holds(q)' <=> m_pRef[q] = o /\ Holds(q)
      BY <1>1
    <2>2. \A u \in Sharer : pc[u] = "delete" =>
             to'[u] = to[u] /\ m_pRef'[to[u]] = m_pRef[to[u]] /\ m_pRef[to[u]] \in Count!Object
      BY <1>1, <1>t
    <2> QED
      BY <1>1, <2>1, <2>2, QuietStep
  <1> HIDE DEF Quiet
  <1>2. ASSUME NEW p \in Count!Ptr, Count!ConstructNull(t, p) PROVE Quiet(p)
    <2>1. \A u \in Sharer : pc[u] # "idle" => p # to[u]
      BY <1>2, <1>u DEF Count!ConstructNull
    <2>2. ~Holds(p)
      BY <1>0, <1>2, <2>1, HoldsNow DEF Count!ConstructNull
    <2>3. m_pRef' = [m_pRef EXCEPT ![p] = 0] /\ m_pRef'[p] = 0
      BY <1>0, <1>2 DEF Count!ConstructNull, OperationInv, CountTypes
    <2>4. \A q \in Count!Ptr \ {p} : m_pRef'[q] = m_pRef[q] /\ (Holds(q)' <=> Holds(q))
      BY <1>2, <2>3, OthersHold DEF Count!ConstructNull
    <2> QED
      BY <1>0, <1>2, <2>1, <2>2, <2>3, <2>4 DEF Count!ConstructNull, Quiet
  <1>3. ASSUME NEW p \in Count!Ptr, Count!Destroy(t, p) PROVE Quiet(p)
    <2>1. /\ pc[t] = "idle" /\ pc' = [pc EXCEPT ![t] = "test"] /\ to' = [to EXCEPT ![t] = p]
          /\ p \in live /\ live' = live \ {p} /\ m_pRef' = m_pRef /\ Count!Usable(t, p)
          /\ count' = count /\ made' = made /\ deleted' = deleted /\ misused' = misused
      BY <1>3 DEF Count!Destroy, Count!Begin
    <2>2. \A u \in Sharer : pc[u] # "idle" => p # to[u]
      BY <1>u, <2>1
    <2>3. Holds(p)
      BY <1>0, <2>1, <2>2, HoldsNow
    <2>4. pc'[t] = "test" /\ to'[t] = p /\ \A u \in Sharer \ {t} : pc'[u] = pc[u] /\ to'[u] = to[u]
      BY <1>0, <2>1 DEF OperationInv, CountTypes
    <2>5. Holds(p)'
      BY <2>4, HoldsNext
    <2>6. \A q \in Count!Ptr \ {p} : m_pRef'[q] = m_pRef[q] /\ (Holds(q)' <=> Holds(q))
      BY <2>1, <2>4, OthersHold
    <2> QED
      BY <2>1, <2>2, <2>3, <2>4, <2>5, <2>6 DEF Quiet
  <1>4. ASSUME NEW p \in Count!Ptr, NEW q \in Count!Ptr, Count!Copy(t, p, q) PROVE Quiet(p)
    <2>1. /\ pc[t] = "idle" /\ pc' = [pc EXCEPT ![t] = IF m_pRef[q] = 0 THEN "idle" ELSE "add"]
          /\ to' = [to EXCEPT ![t] = p] /\ p \notin live /\ live' = live \cup {p}
          /\ m_pRef' = [m_pRef EXCEPT ![p] = m_pRef[q]] /\ Count!Usable(t, p)
          /\ count' = count /\ made' = made /\ deleted' = deleted /\ misused' = misused
      BY <1>4 DEF Count!Copy, Count!Begin
    <2>2. \A u \in Sharer : pc[u] # "idle" => p # to[u]
      BY <1>u, <2>1
    <2>3. ~Holds(p)
      BY <1>0, <2>1, <2>2, HoldsNow
    <2>4. /\ pc'[t] = IF m_pRef[q] = 0 THEN "idle" ELSE "add"
          /\ to'[t] = p /\ m_pRef'[p] = m_pRef[q]
          /\ \A u \in Sharer \ {t} : pc'[u] = pc[u] /\ to'[u] = to[u]
      BY <1>0, <2>1 DEF OperationInv, CountTypes
    <2>5. m_pRef'[p] = 0 \/ ~Holds(p)'
      BY <2>4, HoldsNext
    <2>6. \A r \in Count!Ptr \ {p} : m_pRef'[r] = m_pRef[r] /\ (Holds(r)' <=> Holds(r))
      BY <1>0, <2>1, <2>4, OthersHold DEF OperationInv, CountTypes
    <2> QED
      BY <1>0, <2>1, <2>2, <2>3, <2>4, <2>5, <2>6 DEF Quiet
  <1>5. ASSUME NEW p \in Count!Ptr, NEW q \in Count!Ptr, Count!Assign(t, p, q) PROVE Quiet(p)
    <2>1. /\ pc[t] = "idle" /\ pc' = [pc EXCEPT ![t] = "test"] /\ to' = [to EXCEPT ![t] = p]
          /\ p \in live /\ live' = live /\ m_pRef' = m_pRef /\ Count!Usable(t, p)
          /\ count' = count /\ made' = made /\ deleted' = deleted /\ misused' = misused
      BY <1>5 DEF Count!Assign, Count!Begin
    <2>2. \A u \in Sharer : pc[u] # "idle" => p # to[u]
      BY <1>u, <2>1
    <2>3. Holds(p)
      BY <1>0, <2>1, <2>2, HoldsNow
    <2>4. pc'[t] = "test" /\ to'[t] = p /\ \A u \in Sharer \ {t} : pc'[u] = pc[u] /\ to'[u] = to[u]
      BY <1>0, <2>1 DEF OperationInv, CountTypes
    <2>5. Holds(p)'
      BY <2>4, HoldsNext
    <2>6. \A r \in Count!Ptr \ {p} : m_pRef'[r] = m_pRef[r] /\ (Holds(r)' <=> Holds(r))
      BY <2>1, <2>4, OthersHold
    <2> QED
      BY <2>1, <2>2, <2>3, <2>4, <2>5, <2>6 DEF Quiet
  <1>6. ASSUME Count!TestRef(t) PROVE \E p \in Count!Ptr : Quiet(p)
    <2>p. PICK p : p = to[t]
      OBVIOUS
    <2> USE <2>p
    <2>0. p \in Count!Ptr
      BY <1>0, <1>6 DEF Count!TestRef, OperationInv, InOperation, Count!Ptr
    <2>1. m_pRef[p] # 0 => count[m_pRef[p]] # 0 /\ m_pRef[p] \notin deleted
      BY <1>6, HeldIsCounted DEF Count!TestRef
    <2>2. /\ pc[t] = "test" /\ live' = live /\ m_pRef' = m_pRef /\ to' = to
          /\ pc' = [pc EXCEPT ![t] = IF m_pRef[p] # 0 THEN "sub" ELSE Count!Done(t)]
          /\ count' = count /\ made' = made /\ deleted' = deleted
      BY <1>6, <2>1 DEF Count!TestRef
    <2>3. misused' = misused
      BY <1>0, <1>6, <2>1 DEF Count!TestRef, Count!Touch, PointerInv, GoneUnheld
    <2>4. /\ pc'[t] = IF m_pRef[p] # 0 THEN "sub" ELSE Count!Done(t)
          /\ \A u \in Sharer \ {t} : pc'[u] = pc[u] /\ to'[u] = to[u]
      BY <1>0, <2>2 DEF OperationInv, CountTypes
    <2>5. m_pRef[p] = 0 \/ (Holds(p) /\ Holds(p)')
      BY <1>0, <2>2, <2>4, HoldsNow, HoldsNext
    <2>6. \A r \in Count!Ptr \ {p} : m_pRef'[r] = m_pRef[r] /\ (Holds(r)' <=> Holds(r))
      BY <2>2, <2>4, OthersHold
    <2>7. \A u \in Sharer \ {t} : pc[u] = "delete" => to[u] # p
      BY <1>0, <2>2 DEF OperationInv, PtrsApart
    <2>8. pc'[t] # "delete"
      BY <2>4 DEF Count!Done
    <2> QED
      BY <1>0, <2>0, <2>2, <2>3, <2>4, <2>5, <2>6, <2>7, <2>8 DEF Quiet
  <1>7. ASSUME Count!Take(t) PROVE \E p \in Count!Ptr : Quiet(p)
    <2>p. PICK p : p = to[t]
      OBVIOUS
    <2> USE <2>p
    <2>0. p \in Count!Ptr /\ from[t] \in Count!Ptr
      BY <1>0, <1>7 DEF Count!Take, OperationInv, InOperation, Count!Ptr
    <2>1. m_pRef[from[t]] # 0 \/ m_pRef[p] = 0
      BY <1>0, <1>7 DEF Count!Take, OperationInv, InOperation
    <2>2. /\ pc[t] = "take" /\ live' = live /\ to' = to
          /\ pc' = [pc EXCEPT ![t] = IF m_pRef[from[t]] = 0 THEN "idle" ELSE "add"]
          /\ m_pRef' = [m_pRef EXCEPT ![p] = m_pRef[from[t]]]
          /\ count' = count /\ made' = made /\ deleted' = deleted /\ misused' = misused
      BY <1>0, <1>7, <2>0, <2>1 DEF Count!Take, OperationInv, CountTypes
    <2>3. /\ pc'[t] = IF m_pRef[from[t]] = 0 THEN "idle" ELSE "add"
          /\ m_pRef'[p] = m_pRef[from[t]]
          /\ \A u \in Sharer \ {t} : pc'[u] = pc[u] /\ to'[u] = to[u]
      BY <1>0, <2>0, <2>2 DEF OperationInv, CountTypes
    <2>4. ~Holds(p)
      BY <1>0, <2>2, HoldsNow
    <2>5. m_pRef'[p] = 0 \/ ~Holds(p)'
      BY <2>2, <2>3, HoldsNext
    <2>6. \A r \in Count!Ptr \ {p} : m_pRef'[r] = m_pRef[r] /\ (Holds(r)' <=> Holds(r))
      BY <1>0, <2>2, <2>3, OthersHold DEF OperationInv, CountTypes
    <2>7. \A u \in Sharer \ {t} : pc[u] = "delete" => to[u] # p
      BY <1>0, <2>2 DEF OperationInv, PtrsApart
    <2> QED
      BY <1>0, <2>0, <2>2, <2>3, <2>4, <2>5, <2>6, <2>7 DEF Quiet
  <1> QED
    BY <1>1, <1>2, <1>3, <1>4, <1>5, <1>6, <1>7, Zenon

(* Counting holders.                                                       *)
LEMMA HoldersCount ==
    Count!ConstantsOK =>
        \A o : /\ IsFiniteSet(Count!Holders(o)) /\ Cardinality(Count!Holders(o)) \in Nat
               /\ Cardinality(Count!Holders(o)) <= Cardinality(Count!Ptr)
               /\ Cardinality(Count!Holders(o)) = 0 <=> Count!Holders(o) = {}
               /\ \A p \in Count!Holders(o) :
                     Cardinality(Count!Holders(o) \ {p}) = Cardinality(Count!Holders(o)) - 1
               /\ \A p : p \notin Count!Holders(o) =>
                     Cardinality(Count!Holders(o) \cup {p}) = Cardinality(Count!Holders(o)) + 1
  <1> SUFFICES ASSUME Count!ConstantsOK, NEW o
               PROVE  /\ IsFiniteSet(Count!Holders(o)) /\ Cardinality(Count!Holders(o)) \in Nat
                      /\ Cardinality(Count!Holders(o)) <= Cardinality(Count!Ptr)
                      /\ Cardinality(Count!Holders(o)) = 0 <=> Count!Holders(o) = {}
                      /\ \A p \in Count!Holders(o) : Cardinality(Count!Holders(o) \ {p})
                                                     = Cardinality(Count!Holders(o)) - 1
                      /\ \A p : p \notin Count!Holders(o) =>
                            Cardinality(Count!Holders(o) \cup {p})
                            = Cardinality(Count!Holders(o)) + 1
    OBVIOUS
  <1>1. IsFiniteSet(Count!Ptr)
    BY DEF Count!ConstantsOK, Count!IsFiniteSet, IsFiniteSet
  <1>2. Count!Holders(o) \in SUBSET Count!Ptr
    BY DEF Count!Holders
  <1>3. IsFiniteSet(Count!Holders(o))
        /\ Cardinality(Count!Holders(o)) <= Cardinality(Count!Ptr)
    BY <1>1, <1>2, FS_Subset, Zenon
  <1> QED
    BY <1>3, FS_CardinalityType, FS_EmptySet, FS_RemoveElement, FS_AddElement, Zenon

(* The steps that change a counter, or delete an object with its counter.  *)
LEMMA CountingSteps ==
    ASSUME Count!ConstantsOK, PointerInv, OperationInv', NEW t \in Sharer,
           \/ \E p \in Count!Ptr : Count!Construct(t, p)
           \/ Count!SubRef(t) \/ Count!Delete(t) \/ Count!AddRef(t)
    PROVE  PointerInv'
  <1>0. /\ OperationInv /\ MaxObjects \in Nat /\ made \in 0..MaxObjects /\ deleted \subseteq 1..made
        /\ \A p \in Count!Ptr : m_pRef[p] \in 0..made
        /\ 1..made \subseteq Count!Object /\ misused = FALSE
        /\ \A o \in Count!Object : count[o] = Cardinality(Count!Holders(o))
        /\ \A o \in deleted : Count!Holders(o) = {}
    BY DEF Count!ConstantsOK, PointerInv, OperationInv, CountTypes, GoneUnheld, Counted,
       Count!Object
  <1>a. \A o : Count!Holders(o) = {q \in Count!Ptr : m_pRef[q] = o /\ Holds(q)}
    BY HoldersHold
  <1>b. \A o : Count!Holders(o)' = {q \in Count!Ptr : m_pRef'[q] = o /\ Holds(q)'}
    BY DEF Count!Holders, Holds
  <1>d. \A u \in Sharer : pc[u] # "idle" =>
            to[u] \in Count!Ptr /\ (pc[u] # "take" /\ pc[u] # "test" => m_pRef[to[u]] \in 1..made)
    <2> SUFFICES ASSUME NEW u \in Sharer, pc[u] # "idle"
                 PROVE  to[u] \in Count!Ptr
                        /\ (pc[u] # "take" /\ pc[u] # "test" => m_pRef[to[u]] \in 1..made)
      OBVIOUS
    <2>1. /\ to[u] \in Count!Ptr
          /\ pc[u] # "take" /\ pc[u] # "test" => m_pRef[to[u]] # 0
      BY <1>0 DEF OperationInv, CountTypes, InOperation, Count!Ptr
    <2> QED
      BY <1>0, <2>1
  <1>e. \A u \in Sharer \ {t} : pc[t] # "idle" /\ pc[u] # "idle" => to[u] # to[t]
    BY <1>0 DEF OperationInv, PtrsApart
  <1>1. ASSUME NEW p \in Count!Ptr, Count!Construct(t, p) PROVE PointerInv'
    <2>o. PICK o : o = made + 1
      OBVIOUS
    <2> USE <2>o
    <2>1. /\ pc[t] = "idle" /\ pc' = pc /\ to' = to /\ Count!Usable(t, p)
          /\ p \notin live /\ live' = live \cup {p} /\ made < MaxObjects /\ made' = o
          /\ m_pRef' = [m_pRef EXCEPT ![p] = o] /\ count' = [count EXCEPT ![o] = 1]
          /\ deleted' = deleted /\ misused' = misused
      BY <1>1 DEF Count!Construct
    <2>2. \A u \in Sharer : pc[u] # "idle" => p # to[u]
      <3>1. \A u \in Sharer \ {t} : pc[u] # "idle" => p # to[u] /\ p # from[u]
        BY <1>0, <2>1, UsableIsFree, Zenon
      <3> QED
        BY <2>1, <3>1
    <2>3. ~Holds(p) /\ Holds(p)'
      BY <1>0, <2>1, <2>2, HoldsNow, HoldsNext
    <2>4. /\ m_pRef'[p] = o
          /\ \A q \in Count!Ptr \ {p} : m_pRef'[q] = m_pRef[q] /\ (Holds(q)' <=> Holds(q))
      BY <1>0, <2>1, OthersHold DEF OperationInv, CountTypes
    <2>5. \A x \in Count!Object \ {o} : Count!Holders(x)' = Count!Holders(x)
      BY <1>a, <1>b, <2>3, <2>4
    <2>6. Count!Holders(o)' = {p}
      <3>1. \A q \in Count!Ptr \ {p} : m_pRef[q] # o
        BY <1>0
      <3> QED
        BY <1>b, <2>3, <2>4, <3>1
    <2>7. o \in Count!Object /\ o \notin 1..made /\ 1..made' = 1..made \cup {o}
      BY <1>0, <2>1 DEF Count!Object
    <2>8. Counted'
      <3>1. Cardinality({p}) = 1
        BY FS_Singleton, Zenon
      <3>2. count'[o] = 1 /\ \A x \in Count!Object \ {o} : count'[x] = count[x]
        BY <1>0, <2>1, <2>7 DEF OperationInv, CountTypes
      <3> QED
        BY <1>0, <2>5, <2>6, <3>1, <3>2 DEF Counted
    <2>9. GoneUnheld'
      BY <1>0, <2>1, <2>5, <2>7 DEF GoneUnheld
    <2>10. \A u \in Sharer : pc[u] = "delete" =>
              m_pRef'[to[u]] = m_pRef[to[u]] /\ m_pRef[to[u]] \in Count!Object \ {o}
      BY <1>0, <1>d, <2>2, <2>4, <2>7
    <2>11. OneDeletes'
      BY <2>1, <2>5, <2>10 DEF PointerInv, OneDeletes
    <2>12. HeldOrDeleted'
      BY <1>0, <2>1, <2>5, <2>6, <2>7, <2>10 DEF PointerInv, HeldOrDeleted
    <2> QED
      BY <2>8, <2>9, <2>11, <2>12 DEF PointerInv
  <1>p. PICK p, o : p = to[t] /\ o = m_pRef[p]
    OBVIOUS
  <1> USE <1>p DEF Count!Goto
  <1>2. ASSUME Count!SubRef(t) PROVE PointerInv'
    <2>1. o \in 1..made /\ o \in Count!Object /\ p \in Count!Ptr /\ pc[t] = "sub"
      BY <1>0, <1>2, <1>d DEF Count!SubRef
    <2>2. p \in Count!Holders(o) /\ o \notin deleted
      BY <1>2, <2>1, HeldIsCounted DEF Count!SubRef
    <2>3. /\ pc' = [pc EXCEPT ![t] = IF count[o] = 1 THEN "delete" ELSE Count!Done(t)]
          /\ count' = [count EXCEPT ![o] = @ - 1] /\ misused' = FALSE
          /\ live' = live /\ m_pRef' = m_pRef /\ made' = made /\ deleted' = deleted
          /\ to' = to
      BY <1>0, <1>2, <2>2 DEF Count!SubRef, Count!Touch, Count!ptrs
    <2>4. /\ pc'[t] = IF count[o] = 1 THEN "delete" ELSE Count!Done(t)
          /\ \A u \in Sharer \ {t} : pc'[u] = pc[u] /\ to'[u] = to[u]
      BY <1>0, <2>3 DEF OperationInv, CountTypes
    <2>5. Count!Done(t) \in {"idle", "take"} /\ (Count!Done(t) = "idle" => p \notin live)
      BY DEF Count!Done, Count!Destroying
    <2>6. ~Holds(p)'
      <3>1. CASE pc'[t] # "idle"
        BY <2>3, <2>4, <2>5, <3>1, HoldsNext
      <3>2. CASE pc'[t] = "idle"
        <4>1. \A u \in Sharer : pc'[u] # "idle" => to'[u] # p
          BY <1>e, <2>1, <2>4, <3>2
        <4>2. p \notin live'
          BY <2>3, <2>4, <2>5, <3>2
        <4> QED
          BY <4>1, <4>2, HoldsNext
      <3> QED
        BY <3>1, <3>2
    <2>7. \A q \in Count!Ptr \ {p} : m_pRef'[q] = m_pRef[q] /\ (Holds(q)' <=> Holds(q))
      BY <2>3, <2>4, OthersHold
    <2>8. \A x \in Count!Object \ {o} : Count!Holders(x)' = Count!Holders(x)
      BY <1>a, <1>b, <2>3, <2>7
    <2>9. Count!Holders(o)' = Count!Holders(o) \ {p}
      BY <1>a, <1>b, <2>3, <2>6, <2>7
    <2>10. /\ Cardinality(Count!Holders(o) \ {p}) = count[o] - 1 /\ count[o] \in Nat
           /\ count[o] - 1 = 0 <=> Count!Holders(o)' = {}
      <3>1. Cardinality(Count!Holders(o) \ {p}) = Cardinality(Count!Holders(o)) - 1
        BY <2>2, HoldersCount, Zenon
      <3>2. Cardinality(Count!Holders(o)) \in Nat /\ IsFiniteSet(Count!Holders(o))
        BY HoldersCount, Zenon
      <3>3. IsFiniteSet(Count!Holders(o) \ {p})
        BY <3>2, FS_Difference, Zenon
      <3>4. Cardinality(Count!Holders(o) \ {p}) = 0 <=> Count!Holders(o) \ {p} = {}
        BY <3>3, FS_EmptySet, Zenon
      <3> QED
        BY <1>0, <2>1, <2>9, <3>1, <3>2, <3>4
    <2>11. count'[o] = count[o] - 1 /\ \A x \in Count!Object \ {o} : count'[x] = count[x]
      BY <1>0, <2>1, <2>3 DEF OperationInv, CountTypes
    <2>12. Counted'
      BY <1>0, <2>8, <2>9, <2>10, <2>11 DEF Counted
    <2>13. GoneUnheld'
      BY <1>0, <2>2, <2>3, <2>8 DEF GoneUnheld
    <2>14. \A u \in Sharer \ {t} : pc[u] = "delete" =>
              m_pRef[to[u]] \in Count!Object \ {o} /\ Count!Holders(m_pRef[to[u]]) = {}
              /\ m_pRef[to[u]] \notin deleted
      BY <1>0, <1>d, <2>2 DEF PointerInv, OneDeletes
    <2>15. OneDeletes'
      <3>1. \A x \in Count!Object \ {o} : Count!Holders(x) = {} => Count!Holders(x)' = {}
        BY <2>8
      <3>2. count[o] = 1 => Count!Holders(o)' = {}
        BY <2>10
      <3> SUFFICES ASSUME NEW u \in Sharer, pc'[u] = "delete", NEW x, x = m_pRef[to[u]]
                   PROVE  /\ Count!Holders(x)' = {} /\ x \notin deleted
                          /\ \A w \in Sharer \ {u} : pc'[w] = "delete" => m_pRef[to[w]] # x
        BY <2>3 DEF OneDeletes
      <3>3. CASE u = t
        BY <2>2, <2>4, <2>5, <2>14, <3>2, <3>3
      <3>4. CASE u # t
        <4>1. x \in Count!Object \ {o} /\ Count!Holders(x) = {} /\ x \notin deleted
          BY <2>4, <2>14, <3>4
        <4>2. \A w \in Sharer \ {u, t} : pc[w] = "delete" => m_pRef[to[w]] # x
          BY <2>4, <3>4 DEF PointerInv, OneDeletes
        <4> QED
          BY <2>4, <3>1, <4>1, <4>2
      <3> QED
        BY <3>3, <3>4
    <2>16. HeldOrDeleted'
      <3>1. Count!Holders(o)' # {} \/ pc'[t] = "delete"
        BY <2>4, <2>10
      <3>2. \A x \in (1..made) \ (deleted \cup {o}) :
               Count!Holders(x)' # {} \/ \E u \in Sharer : pc'[u] = "delete" /\ m_pRef[to[u]] = x
        BY <1>0, <2>1, <2>4, <2>8 DEF PointerInv, HeldOrDeleted
      <3> QED
        BY <2>3, <3>1, <3>2 DEF HeldOrDeleted
    <2> QED
      BY <2>12, <2>13, <2>15, <2>16 DEF PointerInv
  <1>3. ASSUME Count!Delete(t) PROVE PointerInv'
    <2>1. o \in 1..made /\ o \in Count!Object /\ p \in Count!Ptr /\ pc[t] = "delete"
      BY <1>0, <1>3, <1>d DEF Count!Delete
    <2>2. /\ Count!Holders(o) = {} /\ o \notin deleted
          /\ \A u \in Sharer \ {t} : pc[u] = "delete" => m_pRef[to[u]] # o
      BY <2>1 DEF PointerInv, OneDeletes
    <2>3. /\ pc' = [pc EXCEPT ![t] = Count!Done(t)] /\ misused' = FALSE
          /\ deleted' = deleted \cup {o} /\ m_pRef' = [m_pRef EXCEPT ![p] = 0]
          /\ live' = live /\ count' = count /\ made' = made /\ to' = to
      BY <1>0, <1>3, <2>2 DEF Count!Delete, Count!Touch
    <2>4. /\ pc'[t] # "delete" /\ m_pRef'[p] = 0
          /\ \A u \in Sharer \ {t} : pc'[u] = pc[u] /\ to'[u] = to[u]
      BY <1>0, <2>1, <2>3 DEF OperationInv, CountTypes, Count!Done
    <2>5. \A q \in Count!Ptr \ {p} : m_pRef'[q] = m_pRef[q] /\ (Holds(q)' <=> Holds(q))
      BY <1>0, <2>3, <2>4, OthersHold DEF OperationInv, CountTypes
    <2>6. ~Holds(p)
      BY <1>0, <2>1, HoldsNow
    <2>7. \A x \in Count!Object : Count!Holders(x)' = Count!Holders(x)
      <3>1. 0 \notin Count!Object
        BY DEF Count!Object
      <3> QED
        BY <1>a, <1>b, <2>4, <2>5, <2>6, <3>1
    <2>8. Counted'
      BY <1>0, <2>3, <2>7 DEF Counted
    <2>9. GoneUnheld'
      BY <1>0, <2>1, <2>2, <2>3, <2>7 DEF GoneUnheld
    <2>10. \A u \in Sharer : pc'[u] = "delete" =>
              /\ u # t /\ pc[u] = "delete" /\ m_pRef'[to'[u]] = m_pRef[to[u]]
              /\ m_pRef[to[u]] \in Count!Object
      BY <1>0, <1>d, <1>e, <2>1, <2>4, <2>5
    <2>11. OneDeletes'
      BY <2>2, <2>3, <2>7, <2>10 DEF PointerInv, OneDeletes
    <2>12. HeldOrDeleted'
      <3>1. \A x \in (1..made) \ deleted' : x # o /\ x \notin deleted /\ x \in Count!Object
        BY <1>0, <2>3
      <3>2. \A u \in Sharer : pc[u] = "delete" /\ m_pRef[to[u]] # o =>
               pc'[u] = "delete" /\ m_pRef'[to'[u]] = m_pRef[to[u]]
        BY <1>d, <1>e, <2>1, <2>4, <2>5
      <3> QED
        BY <2>3, <2>7, <3>1, <3>2 DEF PointerInv, HeldOrDeleted
    <2> QED
      BY <2>8, <2>9, <2>11, <2>12 DEF PointerInv
  <1>4. ASSUME Count!AddRef(t) PROVE PointerInv'
    <2>1. o \in 1..made /\ o \in Count!Object /\ p \in Count!Ptr /\ pc[t] = "add"
      BY <1>0, <1>4, <1>d DEF Count!AddRef
    <2>2. from[t] \in Count!Holders(o) /\ o \notin deleted
      BY <2>1, HeldIsCounted
    <2>3. /\ pc' = [pc EXCEPT ![t] = "idle"] /\ count' = [count EXCEPT ![o] = @ + 1]
          /\ misused' = FALSE /\ live' = live /\ m_pRef' = m_pRef /\ made' = made
          /\ deleted' = deleted /\ to' = to
      BY <1>0, <1>4, <2>2 DEF Count!AddRef, Count!Touch, Count!ptrs
    <2>4. pc'[t] = "idle" /\ \A u \in Sharer \ {t} : pc'[u] = pc[u] /\ to'[u] = to[u]
      BY <1>0, <2>3 DEF OperationInv, CountTypes
    <2>5. ~Holds(p)
      BY <1>0, <2>1, HoldsNow
    <2>6. Holds(p)'
      <3>1. \A u \in Sharer : pc'[u] # "idle" => to'[u] # p
        BY <1>e, <2>1, <2>4
      <3>2. p \in live'
        BY <1>0, <2>1, <2>3 DEF OperationInv, InOperation
      <3> QED
        BY <3>1, <3>2, HoldsNext
    <2>7. \A q \in Count!Ptr \ {p} : m_pRef'[q] = m_pRef[q] /\ (Holds(q)' <=> Holds(q))
      BY <2>3, <2>4, OthersHold
    <2>8. \A x \in Count!Object \ {o} : Count!Holders(x)' = Count!Holders(x)
      BY <1>a, <1>b, <2>3, <2>7
    <2>9. /\ Count!Holders(o)' = Count!Holders(o) \cup {p}
          /\ p \notin Count!Holders(o)
      BY <1>a, <1>b, <2>1, <2>3, <2>5, <2>6, <2>7
    <2>10. Cardinality(Count!Holders(o)') = Cardinality(Count!Holders(o)) + 1
      BY <2>9, HoldersCount, Zenon
    <2>11. count'[o] = count[o] + 1 /\ \A x \in Count!Object \ {o} : count'[x] = count[x]
      BY <1>0, <2>1, <2>3 DEF OperationInv, CountTypes
    <2>12. Counted'
      BY <1>0, <2>1, <2>8, <2>10, <2>11 DEF Counted
    <2>13. GoneUnheld'
      BY <1>0, <2>2, <2>3, <2>8 DEF GoneUnheld
    <2>14. \A u \in Sharer : pc[u] = "delete" => m_pRef[to[u]] \in Count!Object \ {o}
      BY <1>0, <1>d, <2>2 DEF PointerInv, OneDeletes
    <2>15. \A u \in Sharer : pc'[u] = "delete" <=> pc[u] = "delete"
      BY <2>1, <2>4
    <2>16. OneDeletes'
      BY <2>3, <2>8, <2>14, <2>15 DEF PointerInv, OneDeletes
    <2>17. HeldOrDeleted'
      BY <1>0, <2>3, <2>8, <2>9, <2>15 DEF PointerInv, HeldOrDeleted
    <2> QED
      BY <2>12, <2>13, <2>16, <2>17 DEF PointerInv
  <1> QED
    BY <1>1, <1>2, <1>3, <1>4

(* Each step keeps the counters.                                           *)
LEMMA CountStep ==
    Count!ConstantsOK /\ PointerInv /\ (Count!Next \/ UNCHANGED countVars) => PointerInv'
  <1> SUFFICES ASSUME Count!ConstantsOK, PointerInv, Count!Next \/ UNCHANGED countVars
               PROVE  PointerInv'
    OBVIOUS
  <1>1. \A t \in Sharer : pc[t] \in {"test", "sub"} /\ m_pRef[to[t]] # 0
                          => count[m_pRef[to[t]]] # 0
    BY HeldIsCounted, Zenon
  <1>2. OperationInv'
    BY <1>1, OperationStep, Zenon DEF PointerInv
  <1>3. CASE UNCHANGED countVars
    BY <1>3 DEF countVars, PointerInv, OperationInv, CountTypes, PtrsApart, InOperation,
       Counted,
                GoneUnheld, OneDeletes, HeldOrDeleted, Count!Holders, Count!InStep
  <1> QED
    BY <1>2, <1>3, QuietSteps, CountingSteps, Zenon DEF Count!Next, Count!Step

(* What the run checks follows.                                            *)
LEMMA CountGoals ==
    Count!ConstantsOK /\ PointerInv
    => Count!TypeOK /\ Count!CountIsTrue /\ Count!HeldIsThere /\ Count!UnheldIsGone
  <1> SUFFICES ASSUME Count!ConstantsOK, PointerInv
               PROVE  Count!TypeOK /\ Count!CountIsTrue /\ Count!HeldIsThere /\ Count!UnheldIsGone
    OBVIOUS
  <1>0. \A S : Count!Cardinality(S) = Cardinality(S)
    BY DEF Count!Cardinality, Cardinality
  <1>1. Count!TypeOK
    <2>1. Cardinality(Count!Ptr) \in Nat
      BY FS_CardinalityType, Zenon DEF Count!ConstantsOK, Count!IsFiniteSet, IsFiniteSet
    <2>2. \A o \in Count!Object : /\ count[o] = Cardinality(Count!Holders(o))
                                  /\ Cardinality(Count!Holders(o)) \in Nat
                                  /\ Cardinality(Count!Holders(o)) <= Cardinality(Count!Ptr)
      BY HoldersCount, Zenon DEF PointerInv, Counted
    <2>3. \A o \in Count!Object : count[o] \in 0..(Cardinality(Count!Ptr) + 1)
      BY <2>1, <2>2
    <2>4. \A o \in Count!Object : count[o] \in 0..(Count!Cardinality(Count!Ptr) + 1)
      BY <1>0, <2>3, Zenon
    <2>5. \A t \in Sharer : pc[t] # "idle" => to[t] \in Count!Ptr /\ from[t] \in Count!Ptr
      BY DEF PointerInv, OperationInv, InOperation, Count!Ptr
    <2>6. CountTypes /\ misused \in BOOLEAN
      BY DEF PointerInv, OperationInv, GoneUnheld
    <2> QED
      BY <2>4, <2>5, <2>6 DEF CountTypes, Count!TypeOK
  <1>2. Count!CountIsTrue
    BY <1>0 DEF PointerInv, OperationInv, CountTypes, Counted, Count!CountIsTrue,
       Count!Object,
                Count!ConstantsOK
  <1>3. Count!HeldIsThere
    <2> SUFFICES ASSUME NEW p \in live, ~Count!Busy(p), m_pObj[p] # 0
                 PROVE  m_pObj[p] \notin deleted
      BY DEF PointerInv, GoneUnheld, Count!HeldIsThere
    <2>1. p \in Count!Ptr /\ m_pObj[p] = m_pRef[p]
      BY DEF PointerInv, OperationInv, CountTypes
    <2>2. Holds(p)
      BY HoldsNow DEF PointerInv, Count!Busy
    <2>3. p \in Count!Holders(m_pRef[p])
      BY <2>1, <2>2, HoldersHold
    <2> QED
      BY <2>1, <2>3 DEF PointerInv, GoneUnheld
  <1>4. Count!UnheldIsGone
    <2> SUFFICES ASSUME NEW o \in 1..made, o \notin deleted
                 PROVE  \E p \in Count!Ptr : m_pRef[p] = o /\ (p \in live \/ Count!Busy(p))
      BY DEF Count!UnheldIsGone
    <2>1. CASE Count!Holders(o) # {}
      BY <2>1 DEF Count!Holders, Count!InStep, Count!Busy
    <2>2. ASSUME NEW t \in Sharer, pc[t] = "delete", m_pRef[to[t]] = o
          PROVE  \E p \in Count!Ptr : m_pRef[p] = o /\ (p \in live \/ Count!Busy(p))
      <3>1. to[t] \in Count!Ptr
        BY <2>2 DEF PointerInv, OperationInv, InOperation, Count!Ptr
      <3>2. Count!Busy(to[t])
        BY <2>2 DEF Count!Busy
      <3> QED
        BY <2>2, <3>1, <3>2
    <2> QED
      BY <2>1, <2>2 DEF PointerInv, HeldOrDeleted
  <1> QED
    BY <1>1, <1>2, <1>3, <1>4

-----------------------------------------------------------------------------
(* The theorems: each part of the sum, whether it runs or waits.           *)

(* Of Singleton, what holds depends on who may make the first calls.       *)
OnceSafe ==
    IF part = "cold" THEN OnceInv(ColdObjects) ELSE OnceInv(WarmObjects) /\ WarmInv

(* The components that have their variables for themselves.                *)
PartInv == RecvInv /\ AliveInv /\ DescrInv /\ LifeInv /\ WorkerInv /\ HandInv /\ PointerInv

LEMMA PartsInv == Spec => []PartInv
  <1>0. /\ Recv!ConstantsOK /\ Alive!ConstantsOK /\ Descr!ConstantsOK /\ TcpLife!ConstantsOK
        /\ Hand!ConstantsOK /\ Count!ConstantsOK
    BY PartsAssumption
  <1>1. Init => PartInv
    <2> SUFFICES ASSUME Init PROVE PartInv
      OBVIOUS
    <2>1. /\ Recv!Init /\ Alive!Init /\ Descr!Init /\ TcpLife!Init /\ Hand!Init /\ Count!Init
      BY DEF Init
    <2> QED
      BY <1>0, <2>1, RecvInit, AliveInit, DescrInit, LifeInit, HandInit, CountInit, Zenon
      DEF PartInv
  <1>2. PartInv /\ [Next]_vars => PartInv'
    <2> SUFFICES ASSUME PartInv, [Next]_vars PROVE PartInv'
      OBVIOUS
    <2>1. /\ Recv!Next \/ UNCHANGED recvVars
          /\ Alive!Next \/ UNCHANGED aliveVars
          /\ Descr!Next \/ UNCHANGED descrVars
          /\ TcpLife!Next \/ UdpLife!Next \/ UNCHANGED lifeVars
          /\ Hand!Next \/ UNCHANGED handVars
          /\ Count!Next \/ UNCHANGED countVars
      BY DEF Next, RecvNext, AliveNext, DescrNext, TcpLifeNext, UdpLifeNext, HandNext,
         WarmNext,
             ColdNext, CountNext, vars
    <2>2. RecvInv' /\ HandInv' /\ LifeInv' /\ WorkerInv'
      BY <1>0, <2>1, RecvStep, HandStep, LifeStep, Zenon DEF PartInv
    <2>3. AliveInv' /\ DescrInv' /\ PointerInv'
      BY <1>0, <2>1, AliveStep, DescrStep, CountStep, Zenon DEF PartInv
    <2> QED
      BY <2>2, <2>3 DEF PartInv
  <1> QED
    BY <1>1, <1>2, PTL DEF Spec

LEMMA OnceIsSafe == Spec => []OnceSafe
  <1>0. /\ Warm!ConstantsOK /\ IsFiniteSet(Thread)
        /\ WarmObjects \in Nat /\ ColdObjects \in Nat
    <2>1. IsFiniteSet(Thread)
      BY PartsAssumption DEF Warm!ConstantsOK, Warm!IsFiniteSet, IsFiniteSet
    <2> QED
      BY <2>1, PartsAssumption DEF Warm!ConstantsOK, Cold!ConstantsOK
  <1>1. Init => OnceSafe
    BY <1>0, OnceInit, WarmInit, Zenon DEF Init, OnceSafe
  <1>2. ASSUME NEW max \in Nat, OnceInv(max), OnceNext(max) \/ UNCHANGED onceVars
        PROVE  OnceInv(max)'
    <2>1. OnceTypes' /\ StoresOwn'
      BY <1>2, OnceTypeStep, Zenon DEF OnceInv
    <2>2. ObjectsAreBounded(max)' /\ LockInv'
      BY <1>0, <1>2, OnceBoundStep, OnceLockStep, Zenon DEF OnceInv
    <2> QED
      BY <2>1, <2>2 DEF OnceInv
  <1>3. OnceSafe /\ [Next]_vars => OnceSafe'
    <2> SUFFICES ASSUME OnceSafe, [Next]_vars PROVE OnceSafe'
      OBVIOUS
    <2>1. /\ part' = part
          /\ IF part = "cold" THEN Cold!Next \/ UNCHANGED onceVars
             ELSE Warm!Next \/ UNCHANGED onceVars
      BY DEF Next, RecvNext, AliveNext, DescrNext, TcpLifeNext, UdpLifeNext, HandNext,
         WarmNext,
             ColdNext, CountNext, vars
    <2>2. CASE part = "cold"
      BY <1>0, <1>2, <2>1, <2>2, OnceSteps DEF OnceSafe
    <2>3. CASE part # "cold"
      <3>1. OnceInv(WarmObjects)'
        BY <1>0, <1>2, <2>1, <2>3, OnceSteps DEF OnceSafe
      <3>2. WarmInv'
        BY <1>0, <2>1, <2>3, WarmStep DEF OnceSafe, OnceInv
      <3> QED
        BY <2>1, <2>3, <3>1, <3>2 DEF OnceSafe
    <2> QED
      BY <2>2, <2>3
  <1> QED
    BY <1>1, <1>3, PTL DEF Spec

(* What the callback hears is a prefix of what the peer sent; what is lost *)
(* and why the link ended is explained by a hang-up, a reset or a full     *)
(* buffer, and a block has the size it is said to have, but for a reset in *)
(* mid-read: for a stream of any length and any buffer whose bytes         *)
(* i_recv_size can count (tcp-link.cpp, on_event_read).                    *)
THEOREM StreamCorrect == Spec => []StreamIsHeard
  <1>1. PartInv => StreamIsHeard
    BY RecvGoals DEF PartInv
  <1> QED
    BY <1>1, PartsInv, PTL

(* Unless the clock was set on, a link that is found expired was silent    *)
(* for the whole limit, counted from the beginning of the accept loop that *)
(* took it (tcp-link.cpp, check_link_timeout, on_event_accept).            *)
THEOREM ExpiryCorrect == Spec => []ExpiredWasSilent
  <1>1. PartInv => ExpiredWasSilent
    BY AliveGoals DEF PartInv
  <1> QED
    BY <1>1, PartsInv, PTL

(* The threads that run are those that end will join, and wait for a       *)
(* descriptor that is open, unless a failing init has left one stranded;   *)
(* none runs when the table is freed (ms-epoll.cpp, udp-ms-epoll.cpp).     *)
THEOREM ThreadsCorrect == Spec => []ThreadsAreKnown
  <1>1. PartInv => ThreadsAreKnown
    BY LifeGoals DEF PartInv
  <1> QED
    BY <1>1, PartsInv, PTL

(* A handle finds the link it was given for unless the counter has gone    *)
(* all the way round since, and INVALID_HTCPLINK is given out once in a    *)
(* round at most: for a counter of any width (tcp-link.h, tcp-link.cpp).   *)
THEOREM HandlesCorrect == Spec => []HandlesFind
  <1>1. PartInv => HandlesFind
    BY PartsAssumption, HandGoals DEF PartInv
  <1> QED
    BY <1>1, PartsInv, PTL

(* A descriptor that is open is its link's, or that of a link that has     *)
(* left the table; each link in the table has its own; and a call made for *)
(* a link reaches another's only in the gap that a failing connect leaves, *)
(* and never an accepted link's: for any links and descriptors (tcp-       *)
(* link.cpp, ms-epoll.cpp).                                                *)
THEOREM DescriptorsCorrect == Spec => DescriptorsAreOwn
  <1>1. Spec => [](Descr!TypeOK /\ Descr!LeaksAreEnds /\ Descr!OwnDescriptor)
    <2>1. PartInv => Descr!TypeOK /\ Descr!LeaksAreEnds /\ Descr!OwnDescriptor
      BY DescrStates DEF PartInv
    <2> QED
      BY <2>1, PartsInv, PTL
  <1>2. Spec => [][\A pair \in struck' \ struck : Descr!GapIsOpen(pair[1])]_(Descr!vars)
    <2>1. PartInv /\ [Next]_vars
          => [\A pair \in struck' \ struck : Descr!GapIsOpen(pair[1])]_(Descr!vars)
      <3> SUFFICES ASSUME PartInv, [Next]_vars
                   PROVE  \A pair \in struck' \ struck : Descr!GapIsOpen(pair[1])
        OBVIOUS
      <3>1. Descr!Next \/ UNCHANGED descrVars
        BY DEF Next, RecvNext, AliveNext, DescrNext, TcpLifeNext, UdpLifeNext, HandNext,
               WarmNext, ColdNext, CountNext, vars
      <3> QED
        BY <3>1, PartsAssumption, DescrStrikes, Zenon DEF PartInv
    <2> QED
      BY <2>1, PartsInv, PTL DEF Spec
  <1> QED
    BY <1>1, <1>2 DEF DescriptorsAreOwn, Descr!StrikesAreRaced

(* There is one object at most, whole for whoever uses it, when main makes *)
(* the first call; no thread sleeps on a free mutex, unless a first call   *)
(* initialised it under a sleeper; a counter is the number of pointers     *)
(* that hold the object, which is there while there are any and gone when  *)
(* there are none: for any threads and pointers (singletonHandler.h,       *)
(* Guard.h).                                                               *)
THEOREM ObjectsCorrect == Spec => []ObjectsAreThere
  <1>0. IsFiniteSet(Thread) /\ WarmObjects \in Nat /\ ColdObjects \in Nat
        /\ Warm!ConstantsOK /\ Count!ConstantsOK
    <2>1. IsFiniteSet(Thread)
      BY PartsAssumption DEF Warm!ConstantsOK, Warm!IsFiniteSet, IsFiniteSet
    <2> QED
      BY <2>1, PartsAssumption DEF Warm!ConstantsOK, Cold!ConstantsOK
  <1>1. OnceSafe => /\ Warm!SleepersAreWoken
                    /\ IF part = "cold" THEN Cold!TypeOK
                       ELSE Warm!TypeOK /\ Warm!OneObject /\ Warm!UsesWhatIs
    <2>1. ASSUME part = "cold", OnceSafe PROVE Cold!TypeOK /\ Warm!SleepersAreWoken
      BY <1>0, <2>1, OnceTypeOK DEF OnceSafe
    <2>2. ASSUME part # "cold", OnceSafe
          PROVE  Warm!TypeOK /\ Warm!SleepersAreWoken /\ Warm!OneObject /\ Warm!UsesWhatIs
      <3>1. Warm!TypeOK /\ Warm!SleepersAreWoken
        BY <1>0, <2>2, OnceTypeOK DEF OnceSafe
      <3>2. Warm!OneObject /\ Warm!UsesWhatIs
        BY <1>0, <2>2, WarmGoals DEF OnceSafe, OnceInv
      <3> QED
        BY <3>1, <3>2
    <2> QED
      BY <2>1, <2>2
  <1>2. PartInv => Count!TypeOK /\ Count!CountIsTrue /\ Count!HeldIsThere /\ Count!UnheldIsGone
    BY <1>0, CountGoals DEF PartInv
  <1>3. OnceSafe /\ PartInv => ObjectsAreThere
    BY <1>1, <1>2 DEF ObjectsAreThere
  <1> QED
    BY <1>3, PartsInv, OnceIsSafe, PTL

=============================================================================
