--------------------------- MODULE FramingProofs ----------------------------
(***************************************************************************)
(* Proofs about Framing, for any connections, any number of packets of any *)
(* length and any cut of their bytes into chunks.  As long as the links do *)
(* not mix, what is in the buffer is a piece of one link's stream; so a    *)
(* magic number is followed by its own packet, and a packet's head is in   *)
(* the buffer, ahead of the loop, until the packet is dispatched or its    *)
(* magic number is torn.                                                   *)
(***************************************************************************)
EXTENDS Framing, SequenceTheorems, TLAPS

(* A unit that was sent.                                                   *)
IsUnit(u) == u.packet \in DOMAIN lens[u.link] /\ u.pos <= lens[u.link][u.packet]

(* v comes d units after u, or, if it is of a later packet, so far that u  *)
(* is followed by the rest of its own.                                     *)
After(u, v, d) ==
    \/ v.packet = u.packet /\ v.pos = u.pos + d
    \/ u.packet < v.packet /\ d > lens[u.link][u.packet] - u.pos

UnitsInv ==
    /\ \A l \in Conns :
        /\ coming[l].link = l
        /\ coming[l].pos = 1 \/ IsUnit(coming[l])
    /\ \A i \in DOMAIN mv_recv_buf : IsUnit(mv_recv_buf[i])

StageInv ==
    /\ stage # "idle" => h_link \in Conns
    /\ IF stage = "copy" THEN ui_size > 0 ELSE ui_size = 0
    /\ stage # "scan" => ui_data_offset = 0
    /\ stage = "scan" => ~short

(* The buffer is a piece of one link's stream, up to what comes next.      *)
StreamInv ==
    /\ \A i \in DOMAIN mv_recv_buf :
        /\ mv_recv_buf[i].link = mv_recv_buf[1].link
        /\ stage # "idle" => mv_recv_buf[i].link = h_link
        /\ After(mv_recv_buf[i], coming[mv_recv_buf[i].link], Size + 1 - i)
    /\ \A i, j \in DOMAIN mv_recv_buf :
        i < j => After(mv_recv_buf[i], mv_recv_buf[j], j - i)

(* What is dispatched is whole, and lies before what is to come.           *)
OutInv ==
    /\ \A i \in DOMAIN out :
        /\ OnePacket(out[i].units) /\ out[i].units[1].link = out[i].to
        /\ out[i].units[1].packet < coming[out[i].to].packet
        /\ \A j \in DOMAIN mv_recv_buf :
            j > ui_data_offset /\ mv_recv_buf[j].link = out[i].to =>
                out[i].units[1].packet < mv_recv_buf[j].packet
    /\ \A i, j \in DOMAIN out :
        i < j /\ out[i].to = out[j].to => out[i].units[1].packet < out[j].units[1].packet

(* A packet that has begun to arrive is dispatched or torn, or its head is *)
(* ahead of the loop.                                                      *)
Begun(l, k) ==
    k \in DOMAIN lens[l] /\ (k < coming[l].packet \/ (k = coming[l].packet /\ coming[l].pos > 1))
HeadInv ==
    \A l \in Conns : \A k \in DOMAIN lens[l] :
        Begun(l, k) => \/ Dispatched(l, k) \/ <<l, k>> \in torn \/ <<l, k>> \in passed
                       \/ \E j \in DOMAIN mv_recv_buf :
                              j > ui_data_offset /\ mv_recv_buf[j] = UnitOf(l, k, 1)

TornInv ==
    stage = "scan" /\ mv_recv_buf # <<>> /\ mv_recv_buf[Size].pos = 1
        => <<mv_recv_buf[Size].link, mv_recv_buf[Size].packet>> \in torn

(* What the loop leaves is the beginning of one packet, or nothing.        *)
RestInv ==
    stage = "idle" /\ ~short /\ mv_recv_buf # <<>> =>
        /\ mv_recv_buf[1].pos = 1
        /\ Size < lens[mv_recv_buf[1].link][mv_recv_buf[1].packet]

CleanInv == StreamInv /\ OutInv /\ HeadInv /\ TornInv /\ RestInv

IInv == TypeOK /\ UnitsInv /\ StageInv /\ (Straight => CleanInv)

-----------------------------------------------------------------------------
(* The lengths, and the fields of what is in the buffer.                   *)

LEMMA LensType ==
    ASSUME ConstantsOK, lens \in Traffic
    PROVE  /\ lens \in [Conns -> Seq(Lengths)]
           /\ \A l \in Conns : \A k \in DOMAIN lens[l] :
                k \in Nat \ {0} /\ lens[l][k] \in Nat /\ lens[l][k] >= HeaderLen
  <1>1. lens \in [Conns -> Seq(Lengths)]
    BY DEF ConstantsOK
  <1>2. ASSUME NEW l \in Conns, NEW k \in DOMAIN lens[l]
        PROVE  k \in Nat \ {0} /\ lens[l][k] \in Lengths
    <2>1. lens[l] \in Seq(Lengths)
      BY <1>1
    <2> QED
      BY <2>1, <1>2
  <1> QED
    BY <1>1, <1>2 DEF Lengths

LEMMA UnitType ==
    ASSUME ConstantsOK, TypeOK, NEW u \in Unit
    PROVE  /\ u.link \in Conns /\ u.packet \in Nat \ {0} /\ u.pos \in Nat \ {0}
           /\ u = UnitOf(u.link, u.packet, u.pos)
           /\ IsUnit(u) => /\ lens[u.link][u.packet] \in Nat
                           /\ lens[u.link][u.packet] >= HeaderLen
  <1>1. u.link \in Conns /\ u.packet \in Nat \ {0} /\ u.pos \in Nat \ {0}
    BY DEF Unit
  <1>2. u = UnitOf(u.link, u.packet, u.pos)
    BY DEF Unit, UnitOf
  <1>3. lens \in Traffic
    BY DEF TypeOK
  <1> QED
    BY <1>1, <1>2, <1>3, LensType DEF IsUnit

LEMMA OutType ==
    ASSUME ConstantsOK, TypeOK, NEW i \in DOMAIN out
    PROVE  /\ i \in Nat /\ out[i].to \in Conns /\ out[i].units \in Seq(Unit)
           /\ Len(out[i].units) >= HeaderLen
           /\ out[i].units[1] \in Unit /\ out[i].units[1].packet \in Nat
  <1>1. out[i] \in [to : Conns, units : Seq(Unit)] /\ i \in Nat
    <2> DEFINE S == [to : Conns, units : Seq(Unit)]
    <2>1. out \in Seq(S)
      BY DEF TypeOK
    <2> HIDE DEF S
    <2>2. i \in 1 .. Len(out) /\ i \in Nat
      BY <2>1
    <2>3. out[i] \in S
      BY <2>1, <2>2
    <2> QED
      BY <2>2, <2>3 DEF S
  <1>2. out[i].units \in Seq(Unit) /\ Len(out[i].units) >= 3
    BY <1>1 DEF TypeOK, HeaderLen
  <1>3. out[i].units[1] \in Unit
    BY <1>2
  <1> QED
    BY <1>1, <1>2, <1>3, UnitType DEF HeaderLen

LEMMA BufferType ==
    ASSUME TypeOK
    PROVE  /\ Size \in Nat /\ DOMAIN mv_recv_buf = 1 .. Size
           /\ \A i \in DOMAIN mv_recv_buf : mv_recv_buf[i] \in Unit
           /\ mv_recv_buf = <<>> <=> Size = 0
  BY DEF TypeOK, Size

(* One unit after the other.                                               *)
LEMMA NextType ==
    ASSUME ConstantsOK, TypeOK, NEW u \in Unit, IsUnit(u)
    PROVE  /\ NextUnit(u) \in Unit /\ NextUnit(u).link = u.link
           /\ NextUnit(u).pos = 1 \/ IsUnit(NextUnit(u))
           /\ u.packet <= NextUnit(u).packet
           /\ NextUnit(u).packet <= u.packet + 1
           /\ NextUnit(u).packet = u.packet + 1 => NextUnit(u).pos = 1
  <1>1. /\ u.link \in Conns /\ u.packet \in Nat \ {0} /\ u.pos \in Nat \ {0}
        /\ lens[u.link][u.packet] \in Nat /\ u.pos <= lens[u.link][u.packet]
        /\ u.packet \in DOMAIN lens[u.link]
    BY UnitType DEF IsUnit
  <1>2. CASE u.pos < lens[u.link][u.packet]
    <2>1. NextUnit(u) = [u EXCEPT !.pos = @ + 1]
      BY <1>2 DEF NextUnit
    <2>2. /\ NextUnit(u) \in Unit /\ NextUnit(u).link = u.link
          /\ NextUnit(u).packet = u.packet /\ NextUnit(u).pos = u.pos + 1
      BY <1>1, <2>1 DEF Unit
    <2> QED
      BY <1>1, <1>2, <2>2 DEF IsUnit
  <1>3. CASE ~(u.pos < lens[u.link][u.packet])
    <2>1. NextUnit(u) = UnitOf(u.link, u.packet + 1, 1)
      BY <1>3 DEF NextUnit
    <2>2. /\ NextUnit(u) \in Unit /\ NextUnit(u).link = u.link
          /\ NextUnit(u).packet = u.packet + 1 /\ NextUnit(u).pos = 1
      BY <1>1, <2>1 DEF Unit, UnitOf
    <2> QED
      BY <1>1, <2>2
  <1> QED
    BY <1>2, <1>3

LEMMA NextIsAfter ==
    ASSUME ConstantsOK, TypeOK, NEW u \in Unit, NEW v \in Unit, NEW d \in Nat,
           IsUnit(u), IsUnit(v), u.link = v.link, After(u, v, d)
    PROVE  After(u, NextUnit(v), d + 1)
  <1>1. /\ u.packet \in Nat \ {0} /\ u.pos \in Nat \ {0}
        /\ lens[u.link][u.packet] \in Nat /\ u.pos <= lens[u.link][u.packet]
        /\ v.packet \in Nat \ {0} /\ v.pos \in Nat \ {0}
        /\ lens[v.link][v.packet] \in Nat /\ v.pos <= lens[v.link][v.packet]
    BY UnitType DEF IsUnit
  <1>2. CASE v.pos < lens[v.link][v.packet]
    <2>1. NextUnit(v).packet = v.packet /\ NextUnit(v).pos = v.pos + 1
      BY <1>2 DEF NextUnit, Unit
    <2> QED
      BY <1>1, <2>1 DEF After
  <1>3. CASE ~(v.pos < lens[v.link][v.packet])
    <2>1. NextUnit(v).packet = v.packet + 1 /\ NextUnit(v).pos = 1
      BY <1>3 DEF NextUnit, UnitOf
    <2> QED
      BY <1>1, <1>3, <2>1 DEF After
  <1> QED
    BY <1>2, <1>3

-----------------------------------------------------------------------------
(* What the buffer holds from a head on.                                   *)

(* The rest of its packet, as far as the buffer goes.                      *)
LEMMA HeadLeads ==
    ASSUME ConstantsOK, TypeOK, UnitsInv, StreamInv,
           NEW m \in DOMAIN mv_recv_buf, mv_recv_buf[m].pos = 1,
           NEW j \in DOMAIN mv_recv_buf, m <= j,
           j - m < lens[mv_recv_buf[m].link][mv_recv_buf[m].packet]
    PROVE  mv_recv_buf[j] = UnitOf(mv_recv_buf[m].link, mv_recv_buf[m].packet, j - m + 1)
  <1> DEFINE u == mv_recv_buf[m]  v == mv_recv_buf[j]
  <1>1. u \in Unit /\ v \in Unit /\ IsUnit(u) /\ IsUnit(v) /\ m \in Nat /\ j \in Nat
    BY BufferType DEF UnitsInv
  <1>2. /\ u.packet \in Nat /\ lens[u.link][u.packet] \in Nat
        /\ v.packet \in Nat /\ v = UnitOf(v.link, v.packet, v.pos)
    BY <1>1, UnitType
  <1>3. v.link = u.link
    BY DEF StreamInv
  <1>4. CASE m = j
    BY <1>2, <1>4, <1>1
  <1>5. CASE m < j
    <2>1. After(u, v, j - m)
      BY <1>5 DEF StreamInv
    <2>2. v.packet = u.packet /\ v.pos = u.pos + (j - m)
      BY <1>1, <1>2, <2>1 DEF After
    <2> QED
      BY <1>1, <1>2, <1>3, <2>2
  <1> QED
    BY <1>1, <1>4, <1>5

(* Behind a whole packet comes a later one, and so does what is to come.   *)
LEMMA WholeIsPast ==
    ASSUME ConstantsOK, TypeOK, UnitsInv, StreamInv,
           NEW m \in DOMAIN mv_recv_buf, mv_recv_buf[m].pos = 1,
           m + lens[mv_recv_buf[m].link][mv_recv_buf[m].packet] <= Size + 1
    PROVE  /\ mv_recv_buf[m].packet < coming[mv_recv_buf[m].link].packet
           /\ \A j \in DOMAIN mv_recv_buf :
                j >= m + lens[mv_recv_buf[m].link][mv_recv_buf[m].packet] =>
                    mv_recv_buf[m].packet < mv_recv_buf[j].packet
  <1> DEFINE u == mv_recv_buf[m]  l == u.link  c == coming[l]  L == lens[l][u.packet]
  <1>1. u \in Unit /\ IsUnit(u) /\ m \in Nat \ {0} /\ Size \in Nat /\ m <= Size
    BY BufferType DEF UnitsInv
  <1>2. u.packet \in Nat /\ L \in Nat /\ L >= HeaderLen /\ l \in Conns
    BY <1>1, UnitType
  <1>3. u.packet < c.packet
    <2>1. c \in Unit /\ c.link = l /\ (c.pos = 1 \/ IsUnit(c))
      BY <1>2 DEF UnitsInv, TypeOK
    <2>2. c.packet \in Nat /\ c.pos \in Nat
      BY <2>1, UnitType
    <2>3. After(u, c, Size + 1 - m)
      BY DEF StreamInv
    <2>4. c.packet = u.packet => c.pos <= L \/ c.pos = 1
      BY <2>1 DEF IsUnit
    <2>5. Size + 1 - m >= L /\ L >= 3
      BY <1>1, <1>2 DEF HeaderLen
    <2> QED
      BY <1>1, <1>2, <2>2, <2>3, <2>4, <2>5 DEF After
  <1>4. ASSUME NEW j \in DOMAIN mv_recv_buf, j >= m + L PROVE u.packet < mv_recv_buf[j].packet
    <2> DEFINE v == mv_recv_buf[j]
    <2>1. v \in Unit /\ IsUnit(v) /\ j \in Nat /\ v.link = l
      BY BufferType DEF UnitsInv, StreamInv
    <2>2. v.packet \in Nat /\ v.pos \in Nat
      BY <2>1, UnitType
    <2>3. m < j
      BY <1>1, <1>2, <1>4, <2>1 DEF HeaderLen
    <2>4. After(u, v, j - m)
      BY <2>3 DEF StreamInv
    <2>5. v.packet = u.packet => v.pos <= L
      BY <2>1 DEF IsUnit
    <2> QED
      BY <1>1, <1>2, <1>4, <2>1, <2>2, <2>4, <2>5 DEF After
  <1> QED
    BY <1>3, <1>4

(* What is cut out of a sequence: n elements from the m-th on.             *)
LEMMA Piece ==
    ASSUME NEW S, NEW q \in Seq(S), NEW m \in Nat \ {0}, NEW n \in Nat, m + n <= Len(q) + 1
    PROVE  /\ SubSeq(q, m, m + n - 1) \in Seq(S) /\ Len(SubSeq(q, m, m + n - 1)) = n
           /\ DOMAIN SubSeq(q, m, m + n - 1) = 1 .. n
           /\ \A i \in 1 .. n : SubSeq(q, m, m + n - 1)[i] = q[m + i - 1]
           /\ \A i \in 1 .. n : m + i - 1 \in DOMAIN q
  OBVIOUS

(* The packet itself, once all of it is there.                             *)
LEMMA WholePacket ==
    ASSUME ConstantsOK, TypeOK, UnitsInv, StreamInv,
           NEW m \in Nat \ {0}, m \in DOMAIN mv_recv_buf, mv_recv_buf[m].pos = 1,
           NEW L \in Nat, lens[mv_recv_buf[m].link][mv_recv_buf[m].packet] = L,
           m + L <= Size + 1
    PROVE  /\ SubSeq(mv_recv_buf, m, m + L - 1)
                = PacketOf(mv_recv_buf[m].link, mv_recv_buf[m].packet)
           /\ OnePacket(SubSeq(mv_recv_buf, m, m + L - 1))
           /\ SubSeq(mv_recv_buf, m, m + L - 1)[1] = mv_recv_buf[m]
           /\ Len(SubSeq(mv_recv_buf, m, m + L - 1)) = L
  <1> DEFINE u == mv_recv_buf[m]  l == u.link  k == u.packet  units == SubSeq(mv_recv_buf, m, m + L - 1)
  <1>1. u \in Unit /\ IsUnit(u)
    BY BufferType DEF UnitsInv
  <1>2. L >= 3
    BY <1>1, UnitType DEF HeaderLen
  <1>3. /\ units \in Seq(Unit) /\ Len(units) = L /\ DOMAIN units = 1 .. L
        /\ \A i \in 1 .. L : units[i] = mv_recv_buf[m + i - 1] /\ m + i - 1 \in DOMAIN mv_recv_buf
    BY Piece DEF TypeOK, Size
  <1>4. \A i \in 1 .. L : units[i] = UnitOf(l, k, i)
    <2> SUFFICES ASSUME NEW i \in 1 .. L PROVE units[i] = UnitOf(l, k, i)
      OBVIOUS
    <2>1. m <= m + i - 1 /\ (m + i - 1) - m < L /\ (m + i - 1) - m + 1 = i
      OBVIOUS
    <2>2. mv_recv_buf[m + i - 1] = UnitOf(l, k, (m + i - 1) - m + 1)
      BY <1>3, <2>1, HeadLeads
    <2> QED
      BY <1>3, <2>1, <2>2
  <1>5. units = PacketOf(l, k)
    <2> DEFINE p == [i \in 1 .. L |-> UnitOf(l, k, i)]
    <2>1. PacketOf(l, k) = p
      BY DEF PacketOf
    <2>2. units = [i \in 1 .. L |-> units[i]]
      BY <1>3
    <2>3. \A i \in 1 .. L : p[i] = units[i]
      BY <1>4
    <2> QED
      BY <2>1, <2>2, <2>3
  <1>6. units[1] = u
    <2>1. 1 \in 1 .. L /\ m + 1 - 1 = m
      BY <1>2
    <2> QED
      BY <1>3, <2>1
  <1>7. OnePacket(units)
    <2> HIDE DEF units
    <2>1. Len(units) > 0
      BY <1>2, <1>3
    <2> QED
      BY <1>1, <1>5, <1>6, <2>1 DEF OnePacket, IsUnit
  <1> QED
    BY <1>3, <1>5, <1>6, <1>7

-----------------------------------------------------------------------------
(* The first state.                                                        *)
LEMMA InitIsFine == ConstantsOK /\ Init => IInv
  <1> SUFFICES ASSUME ConstantsOK, Init PROVE IInv
    OBVIOUS
  <1>1. \A l \in Conns : UnitOf(l, 1, 1) \in Unit
    BY DEF UnitOf, Unit
  <1>2. TypeOK
    <2>1. coming \in [Conns -> Unit]
      BY <1>1 DEF Init
    <2>2. Size = 0 /\ mv_recv_buf \in Seq(Unit) /\ ui_size = 0 /\ ui_data_offset = 0
      BY DEF Init, Size
    <2>3. out \in Seq([to : Conns, units : Seq(Unit)]) /\ DOMAIN out = {}
      BY DEF Init
    <2>4. \A i \in DOMAIN out : Len(out[i].units) >= HeaderLen
      BY <2>3
    <2>5. /\ lens \in Traffic /\ stage = "idle" /\ h_link = NoLink
          /\ short \in BOOLEAN /\ torn = {} /\ passed = {} /\ mixed \in BOOLEAN /\ astray \in BOOLEAN
      BY DEF Init
    <2> QED
      BY <2>1, <2>2, <2>3, <2>4, <2>5 DEF TypeOK
  <1>3. UnitsInv
    BY DEF Init, UnitsInv, UnitOf
  <1>4. StageInv
    BY DEF Init, StageInv
  <1>5. StreamInv /\ OutInv /\ TornInv /\ RestInv
    BY DEF Init, StreamInv, OutInv, TornInv, RestInv
  <1>6. HeadInv
    <2>1. \A l \in Conns : \A k \in DOMAIN lens[l] : k \in Nat \ {0}
      BY LensType DEF Init
    <2>2. \A l \in Conns : coming[l].packet = 1 /\ coming[l].pos = 1
      BY DEF Init, UnitOf
    <2> QED
      BY <2>1, <2>2 DEF HeadInv, Begun
  <1> QED
    BY <1>2, <1>3, <1>4, <1>5, <1>6 DEF IInv, CleanInv

-----------------------------------------------------------------------------
(* One more unit is copied: the buffer and what is to come move on by one. *)

LEMMA Copied ==
    ASSUME ConstantsOK, IInv, NEW l \in Conns, Copy(l)
    PROVE  /\ coming[l] \in Unit /\ IsUnit(coming[l]) /\ coming[l].link = l
           /\ mv_recv_buf' \in Seq(Unit) /\ Size' = Size + 1 /\ Size \in Nat
           /\ DOMAIN mv_recv_buf' = 1 .. Size + 1 /\ DOMAIN mv_recv_buf = 1 .. Size
           /\ \A i \in 1 .. Size : mv_recv_buf'[i] = mv_recv_buf[i]
           /\ mv_recv_buf'[Size + 1] = coming[l]
           /\ \A k \in Conns : coming'[k] = IF k = l THEN NextUnit(coming[l]) ELSE coming[k]
           /\ coming' \in [Conns -> Unit]
  <1>1. coming[l] \in Unit /\ coming[l].link = l /\ coming \in [Conns -> Unit]
    BY DEF IInv, TypeOK, UnitsInv
  <1>2. IsUnit(coming[l])
    <2>1. coming[l].packet \in DOMAIN lens[l]
      BY DEF Copy
    <2>2. lens[l][coming[l].packet] \in Nat /\ lens[l][coming[l].packet] >= HeaderLen
      BY <2>1, LensType DEF IInv, TypeOK
    <2>3. coming[l].pos = 1 => coming[l].pos <= lens[l][coming[l].packet]
      BY <2>2 DEF HeaderLen
    <2> QED
      BY <1>1, <2>1, <2>3 DEF IsUnit, IInv, UnitsInv
  <1>3. NextUnit(coming[l]) \in Unit
    BY <1>1, <1>2, NextType DEF IInv
  <1>4. /\ mv_recv_buf \in Seq(Unit) /\ mv_recv_buf' = Append(mv_recv_buf, coming[l])
        /\ coming' = [coming EXCEPT ![l] = NextUnit(coming[l])]
    BY DEF Copy, IInv, TypeOK
  <1>5. /\ coming' \in [Conns -> Unit]
        /\ \A k \in Conns : coming'[k] = IF k = l THEN NextUnit(coming[l]) ELSE coming[k]
    BY <1>1, <1>3, <1>4
  <1> QED
    BY <1>1, <1>2, <1>4, <1>5 DEF Size

LEMMA CopyKeepsTypes ==
    ASSUME ConstantsOK, IInv, NEW l \in Conns, Copy(l)
    PROVE  (TypeOK /\ UnitsInv /\ StageInv)'
  <1> USE Copied
  <1>1. ui_size \in 0 .. Size /\ ui_size' = ui_size + 1 /\ ui_data_offset = 0 /\ ui_data_offset' = 0
    BY DEF Copy, IInv, TypeOK, StageInv
  <1>2. TypeOK'
    <2>1. ui_size' \in 0 .. Size' /\ ui_data_offset' \in 0 .. Size'
      BY <1>1
    <2> QED
      BY <2>1 DEF Copy, IInv, TypeOK
  <1>3. UnitsInv'
    <2>1. lens' = lens /\ (\A u : IsUnit(u)' <=> IsUnit(u))
      BY DEF Copy, IsUnit
    <2>2. \A i \in 1 .. Size : IsUnit(mv_recv_buf[i])
      BY DEF IInv, UnitsInv
    <2>3. \A i \in 1 .. Size + 1 : i \in 1 .. Size \/ i = Size + 1
      OBVIOUS
    <2>4. \A i \in 1 .. Size + 1 : IsUnit(mv_recv_buf'[i])
      BY <2>2, <2>3
    <2>5. ASSUME NEW k \in Conns
          PROVE  coming'[k].link = k /\ (coming'[k].pos = 1 \/ IsUnit(coming'[k]))
      BY NextType DEF IInv, UnitsInv
    <2> QED
      BY <2>1, <2>4, <2>5 DEF UnitsInv
  <1>4. StageInv'
    BY <1>1 DEF Copy, StageInv
  <1> QED
    BY <1>2, <1>3, <1>4

(* If the chunk does not mix with what is left, all of it is l's.          *)
LEMMA CopyIsPure ==
    ASSUME ConstantsOK, IInv, NEW l \in Conns, Copy(l), Straight'
    PROVE  Straight /\ CleanInv /\ \A i \in DOMAIN mv_recv_buf : mv_recv_buf[i].link = l
  <1>1. ~mixed /\ ~\E i \in DOMAIN mv_recv_buf : mv_recv_buf[i].link # l
    BY DEF Copy, IInv, TypeOK, Straight
  <1>2. Straight
    BY <1>1 DEF Copy, Straight
  <1> QED
    BY <1>1, <1>2 DEF IInv

LEMMA CopyKeepsStream ==
    ASSUME ConstantsOK, IInv, NEW l \in Conns, Copy(l), Straight'
    PROVE  StreamInv'
  <1> DEFINE c == coming[l]  n == Size
  <1>1. /\ CleanInv /\ \A i \in 1 .. n : mv_recv_buf[i].link = l
        /\ TypeOK /\ \A i \in 1 .. n : mv_recv_buf[i] \in Unit /\ IsUnit(mv_recv_buf[i])
    BY CopyIsPure, BufferType DEF IInv, UnitsInv
  <1>2. /\ c \in Unit /\ IsUnit(c) /\ c.link = l
        /\ n \in Nat /\ Size' = n + 1 /\ DOMAIN mv_recv_buf' = 1 .. n + 1
        /\ \A i \in 1 .. n : mv_recv_buf'[i] = mv_recv_buf[i]
        /\ mv_recv_buf'[n + 1] = c /\ coming'[l] = NextUnit(c)
    BY Copied
  <1>3. lens' = lens /\ h_link' = l /\ stage' = "copy"
    BY DEF Copy
  <1>4. \A u, v, d : After(u, v, d)' <=> After(u, v, d)
    BY <1>3 DEF After
  <1>5. \A i \in 1 .. n + 1 : i \in Nat /\ (i \in 1 .. n \/ i = n + 1)
    BY <1>2
  <1>6. \A i \in 1 .. n + 1 : mv_recv_buf'[i].link = l
    BY <1>1, <1>2, <1>5
  <1>7. \A i \in 1 .. n + 1 : After(mv_recv_buf'[i], NextUnit(c), n + 1 + 1 - i)
    <2>1. ASSUME NEW i \in 1 .. n PROVE After(mv_recv_buf[i], NextUnit(c), n + 1 + 1 - i)
      <3>1. After(mv_recv_buf[i], c, n + 1 - i)
        BY <1>1, <1>2, BufferType DEF CleanInv, StreamInv
      <3>2. n + 1 - i \in Nat /\ (n + 1 - i) + 1 = n + 1 + 1 - i
        BY <1>2
      <3>3. After(mv_recv_buf[i], NextUnit(c), (n + 1 - i) + 1)
        BY <1>1, <1>2, <3>1, <3>2, NextIsAfter
      <3> QED
        BY <3>2, <3>3
    <2>2. After(c, NextUnit(c), 0 + 1) /\ n + 1 + 1 - (n + 1) = 0 + 1
      <3>1. After(c, c, 0)
        BY <1>2, UnitType DEF After, IInv
      <3> QED
        BY <1>1, <1>2, <3>1, NextIsAfter
    <2> QED
      BY <1>2, <1>5, <2>1, <2>2
  <1>8. \A i, j \in 1 .. n + 1 : i < j => After(mv_recv_buf'[i], mv_recv_buf'[j], j - i)
    <2> SUFFICES ASSUME NEW i \in 1 .. n + 1, NEW j \in 1 .. n + 1, i < j
                 PROVE  After(mv_recv_buf'[i], mv_recv_buf'[j], j - i)
      OBVIOUS
    <2>1. i \in 1 .. n
      BY <1>2
    <2>2. CASE j \in 1 .. n
      BY <1>1, <1>2, <2>1, <2>2, BufferType DEF CleanInv, StreamInv
    <2>3. CASE j = n + 1
      BY <1>1, <1>2, <2>1, <2>3, BufferType DEF CleanInv, StreamInv
    <2> QED
      BY <1>5, <2>2, <2>3
  <1>9. 1 \in 1 .. n + 1
    BY <1>2
  <1> QED
    BY <1>2, <1>3, <1>4, <1>6, <1>7, <1>8, <1>9 DEF StreamInv

LEMMA CopyKeepsRest ==
    ASSUME ConstantsOK, IInv, NEW l \in Conns, Copy(l), Straight'
    PROVE  (OutInv /\ HeadInv /\ TornInv /\ RestInv)'
  <1> DEFINE c == coming[l]  n == Size
  <1>1. CleanInv /\ (\A i \in 1 .. n : mv_recv_buf[i].link = l) /\ TypeOK
    BY CopyIsPure, BufferType DEF IInv, UnitsInv
  <1>2. /\ c \in Unit /\ IsUnit(c) /\ c.link = l
        /\ n \in Nat /\ Size' = n + 1 /\ DOMAIN mv_recv_buf' = 1 .. n + 1
        /\ DOMAIN mv_recv_buf = 1 .. n
        /\ \A i \in 1 .. n : mv_recv_buf'[i] = mv_recv_buf[i]
        /\ mv_recv_buf'[n + 1] = c
        /\ \A k \in Conns : coming'[k] = IF k = l THEN NextUnit(c) ELSE coming[k]
    BY Copied
  <1>3. /\ stage' = "copy" /\ UNCHANGED <<lens, ui_data_offset, out, torn, passed>>
        /\ ui_data_offset = 0
    BY DEF Copy, IInv, StageInv
  <1>4. /\ c.packet <= NextUnit(c).packet /\ NextUnit(c).packet <= c.packet + 1
        /\ NextUnit(c).packet = c.packet + 1 => NextUnit(c).pos = 1
        /\ NextUnit(c).packet \in Nat /\ c.packet \in Nat /\ c.pos \in Nat \ {0}
    BY <1>1, <1>2, NextType, UnitType
  <1>5. \A i \in 1 .. n + 1 : i \in 1 .. n \/ i = n + 1
    BY <1>2
  <1>6. OutInv'
    <2>1. \A i \in DOMAIN out : OnePacket(out[i].units)' <=> OnePacket(out[i].units)
      BY <1>3 DEF OnePacket, PacketOf
    <2>2. ASSUME NEW i \in DOMAIN out
          PROVE  /\ OnePacket(out[i].units) /\ out[i].units[1].link = out[i].to
                 /\ out[i].units[1].packet < coming'[out[i].to].packet
                 /\ \A j \in 1 .. n + 1 :
                        mv_recv_buf'[j].link = out[i].to =>
                            out[i].units[1].packet < mv_recv_buf'[j].packet
      <3>1. out[i].to \in Conns /\ out[i].units[1].packet \in Nat
        BY <1>1, OutType
      <3>2. coming[out[i].to] \in Unit
        BY <1>1, <3>1 DEF TypeOK
      <3>3. coming[out[i].to].packet \in Nat
        BY <1>1, <3>2, UnitType
      <3>4. out[i].units[1].packet < coming[out[i].to].packet
        BY <1>1 DEF CleanInv, OutInv
      <3>5. out[i].units[1].packet < coming'[out[i].to].packet
        BY <1>2, <1>4, <3>1, <3>3, <3>4
      <3>6. \A j \in 1 .. n : mv_recv_buf[j].link = out[i].to =>
                out[i].units[1].packet < mv_recv_buf[j].packet
        BY <1>1, <1>2, <1>3 DEF CleanInv, OutInv
      <3>7. \A j \in 1 .. n + 1 : mv_recv_buf'[j].link = out[i].to =>
                out[i].units[1].packet < mv_recv_buf'[j].packet
        BY <1>2, <1>5, <3>4, <3>6
      <3> QED
        BY <1>1, <3>5, <3>7 DEF CleanInv, OutInv
    <2> QED
      BY <1>1, <1>2, <1>3, <2>1, <2>2 DEF CleanInv, OutInv
  <1>7. HeadInv'
    <2> SUFFICES ASSUME NEW k \in Conns, NEW p \in DOMAIN lens[k], Begun(k, p)'
                 PROVE  \/ Dispatched(k, p)' \/ <<k, p>> \in torn \/ <<k, p>> \in passed
                        \/ \E j \in 1 .. n + 1 : mv_recv_buf'[j] = UnitOf(k, p, 1) /\ j > 0
      <3>1. \A j \in 1 .. n + 1 : j > 0 => j > ui_data_offset'
        BY <1>3
      <3>2. torn' = torn /\ passed' = passed /\ lens' = lens /\ DOMAIN mv_recv_buf' = 1 .. n + 1
        BY <1>2, <1>3
      <3> QED
        BY <3>1, <3>2 DEF HeadInv, UnitOf
    <2>1. Dispatched(k, p)' <=> Dispatched(k, p)
      BY <1>3 DEF Dispatched, PacketOf
    <2>2. p \in Nat
      BY LensType DEF IInv, TypeOK
    <2>3. CASE Begun(k, p)
      <3>1. \/ Dispatched(k, p) \/ <<k, p>> \in torn \/ <<k, p>> \in passed
            \/ \E j \in 1 .. n : mv_recv_buf[j] = UnitOf(k, p, 1) /\ j > 0
        BY <1>1, <1>2, <1>3, <2>3 DEF CleanInv, HeadInv
      <3>2. \A j \in 1 .. n : j \in 1 .. n + 1
        BY <1>2
      <3> QED
        BY <1>2, <2>1, <3>1, <3>2
    <2>4. CASE ~Begun(k, p)
      <3>1. k = l
        BY <1>2, <1>3, <2>4 DEF Begun
      <3>2. p < NextUnit(c).packet \/ (p = NextUnit(c).packet /\ NextUnit(c).pos > 1)
        BY <1>2, <1>3, <3>1 DEF Begun
      <3>3. ~(p < c.packet) /\ ~(p = c.packet /\ c.pos > 1)
        BY <2>4, <3>1 DEF Begun
      <3>4. p = c.packet /\ c.pos = 1
        BY <1>4, <2>2, <3>2, <3>3
      <3>5. c = UnitOf(l, p, 1)
        BY <1>1, <1>2, <3>4, UnitType
      <3> QED
        BY <1>2, <3>1, <3>5
    <2> QED
      BY <2>3, <2>4
  <1>8. TornInv' /\ RestInv'
    BY <1>3 DEF TornInv, RestInv
  <1> QED
    BY <1>6, <1>7, <1>8

LEMMA CopyKeeps ==
    ASSUME ConstantsOK, IInv, NEW l \in Conns, Copy(l)
    PROVE  IInv'
  <1>1. Straight' => CleanInv'
    BY CopyKeepsStream, CopyKeepsRest DEF CleanInv
  <1> QED
    BY <1>1, CopyKeepsTypes DEF IInv

-----------------------------------------------------------------------------
(* The end of the chunk.                                                   *)
LEMMA EndCopyKeeps ==
    ASSUME ConstantsOK, IInv, EndCopy
    PROVE  IInv'
  <1> DEFINE last == mv_recv_buf[Size]
  <1>1. /\ UNCHANGED <<lens, coming, mv_recv_buf, ui_data_offset, out, passed, mixed, astray>>
        /\ stage = "copy" /\ ui_size' = 0 /\ short' = (ui_size < HeaderLen)
        /\ ui_data_offset = 0 /\ h_link \in Conns
        /\ torn' = IF last.pos < MagicLen THEN torn \cup {<<last.link, last.packet>>} ELSE torn
        /\ IF Waits THEN stage' = "idle" /\ h_link' = NoLink
           ELSE stage' = "scan" /\ h_link' = h_link
    BY DEF EndCopy, IInv, StageInv
  <1>2. /\ ui_size \in Nat /\ 0 < ui_size /\ ui_size <= Size /\ Size \in Nat
        /\ DOMAIN mv_recv_buf = 1 .. Size
    BY <1>1, BufferType DEF IInv, StageInv, TypeOK
  <1>3. last \in Unit /\ last.link \in Conns /\ last.packet \in Nat \ {0}
    <2>1. last \in Unit
      BY <1>2, BufferType DEF IInv
    <2> QED
      BY <2>1, UnitType DEF IInv
  <1>4. Size' = Size
    BY <1>1 DEF Size
  <1>5. torn \subseteq torn' /\ torn' \subseteq Conns \X (Nat \ {0})
    BY <1>1, <1>3 DEF IInv, TypeOK
  <1>6. TypeOK'
    <2>1. Unit' = Unit
      BY DEF Unit
    <2>2. stage' \in {"idle", "copy", "scan"} /\ h_link' \in Conns \cup {NoLink}
      BY <1>1
    <2>3. ui_size' \in 0 .. Size' /\ short' \in BOOLEAN
      BY <1>1, <1>2, <1>4
    <2> QED
      BY <1>1, <1>4, <1>5, <2>1, <2>2, <2>3 DEF IInv, TypeOK
  <1>7. UnitsInv'
    BY <1>1 DEF IInv, UnitsInv, IsUnit
  <1>8. StageInv'
    BY <1>1 DEF StageInv, Waits
  <1>9. Straight' => CleanInv'
    <2> SUFFICES ASSUME CleanInv PROVE CleanInv'
      BY <1>1 DEF IInv, Straight
    <2>1. StreamInv'
      BY <1>1, <1>4 DEF CleanInv, StreamInv, After
    <2>2. OutInv'
      BY <1>1 DEF CleanInv, OutInv, OnePacket, PacketOf
    <2>3. HeadInv'
      BY <1>1, <1>5 DEF CleanInv, HeadInv, Begun, Dispatched, PacketOf
    <2>4. TornInv'
      BY <1>1, <1>4 DEF TornInv, MagicLen
    <2>5. RestInv'
      <3>1. Waits => ui_size < HeaderLen
        BY <1>2 DEF Waits, HeaderLen
      <3>2. stage' = "idle" => short'
        BY <1>1, <3>1
      <3> QED
        BY <3>2 DEF RestInv
    <2> QED
      BY <2>1, <2>2, <2>3, <2>4, <2>5 DEF CleanInv
  <1> QED
    BY <1>6, <1>7, <1>8, <1>9 DEF IInv

-----------------------------------------------------------------------------
(* The loop.  What a round does, by what it finds.                         *)
Rest == UNCHANGED <<lens, coming, ui_size, short, torn, mixed>>
Cut(junk) == SubSeq(mv_recv_buf, ui_data_offset + 1, ui_data_offset + TotalLen(junk))
Round(past, fake, accepted, junk) ==
    \/ ~IsMagic(past, fake) /\ Skip /\ UNCHANGED passed
    \/ IsMagic(past, fake) /\ Incomplete(junk) /\ Keep /\ UNCHANGED passed
    \/ /\ IsMagic(past, fake) /\ ~Incomplete(junk)
       /\ Parses(Cut(junk), accepted) /\ Dispatch(Cut(junk)) /\ UNCHANGED passed
    \/ IsMagic(past, fake) /\ ~Incomplete(junk) /\ Pass(Cut(junk))

LEMMA ScanRounds ==
    ASSUME Scan
    PROVE  /\ stage = "scan" /\ Rest
           /\ \/ ui_data_offset = Size /\ Keep /\ UNCHANGED <<passed, astray>>
              \/ \E past, fake, accepted \in BOOLEAN, junk \in {1, HeaderLen, Huge} :
                    /\ ui_data_offset # Size /\ Round(past, fake, accepted, junk)
                    /\ astray' = (astray \/ (IsMagic(past, fake) /\ Ahead(1).pos > 1))
  <1>1. CASE ui_data_offset = Size
    BY <1>1 DEF Scan, Rest
  <1>2. CASE ui_data_offset # Size
    BY <1>2 DEF Scan, Rest, Round, Cut
  <1> QED
    BY <1>1, <1>2

LEMMA OffsetType ==
    ASSUME IInv
    PROVE  ui_data_offset \in Nat /\ Size \in Nat /\ ui_data_offset <= Size
  BY BufferType DEF IInv, TypeOK

(* A length that is read of the buffer is a number.                        *)
LEMMA TotalLenType ==
    ASSUME ConstantsOK, IInv, NEW junk \in {1, HeaderLen, Huge}, ui_data_offset + HeaderLen <= Size
    PROVE  TotalLen(junk) \in Nat
  <1> DEFINE u == Ahead(HeaderLen)
  <1>1. u \in Unit /\ IsUnit(u)
    BY OffsetType, BufferType DEF Ahead, HeaderLen, IInv, UnitsInv
  <1>2. lens[u.link][u.packet] \in Nat
    BY <1>1, UnitType DEF IInv
  <1> QED
    BY <1>2 DEF TotalLen, Huge, HeaderLen

(* What is kept.                                                           *)
LEMMA KeptPiece ==
    ASSUME ConstantsOK, IInv, Keep
    PROVE  /\ mv_recv_buf' \in Seq(Unit) /\ Size' = Size - ui_data_offset
           /\ DOMAIN mv_recv_buf' = 1 .. Size - ui_data_offset
           /\ \A i \in 1 .. Size - ui_data_offset :
                /\ mv_recv_buf'[i] = mv_recv_buf[ui_data_offset + i]
                /\ ui_data_offset + i \in 1 .. Size
  <1> DEFINE o == ui_data_offset  n == Size - ui_data_offset
  <1>1. o + 1 \in Nat \ {0} /\ n \in Nat /\ (o + 1) + n <= Size + 1 /\ (o + 1) + n - 1 = Size
    BY OffsetType
  <1>2. mv_recv_buf \in Seq(Unit) /\ mv_recv_buf' = SubSeq(mv_recv_buf, o + 1, (o + 1) + n - 1)
    BY <1>1 DEF IInv, TypeOK, Keep, Kept
  <1>3. /\ mv_recv_buf' \in Seq(Unit) /\ Len(mv_recv_buf') = n
        /\ DOMAIN mv_recv_buf' = 1 .. n
        /\ \A i \in 1 .. n : mv_recv_buf'[i] = mv_recv_buf[(o + 1) + i - 1]
    <2>1. (o + 1) + n <= Len(mv_recv_buf) + 1 /\ mv_recv_buf \in Seq(Unit)
      BY <1>1, <1>2 DEF Size
    <2> HIDE DEF n
    <2> QED
      BY <1>1, <1>2, <2>1, Piece
  <1>4. \A i \in 1 .. n : (o + 1) + i - 1 = o + i /\ o + i \in 1 .. Size
    BY OffsetType
  <1> QED
    BY <1>3, <1>4 DEF Size

LEMMA KeepKeepsTypes ==
    ASSUME ConstantsOK, IInv, stage = "scan", Keep, Rest, passed' = passed, astray' \in BOOLEAN
    PROVE  (TypeOK /\ UnitsInv /\ StageInv)'
  <1> DEFINE n == Size - ui_data_offset
  <1>1. /\ ui_data_offset' = 0 /\ stage' = "idle" /\ h_link' = NoLink /\ out' = out
        /\ UNCHANGED <<lens, coming, ui_size, short, torn, mixed>> /\ ui_size = 0
    BY DEF Keep, Rest, IInv, StageInv
  <1>2. /\ mv_recv_buf' \in Seq(Unit) /\ Size' = n /\ n \in Nat
        /\ DOMAIN mv_recv_buf' = 1 .. n
        /\ \A i \in 1 .. n : mv_recv_buf'[i] = mv_recv_buf[ui_data_offset + i]
                             /\ ui_data_offset + i \in DOMAIN mv_recv_buf
    BY KeptPiece, OffsetType, BufferType DEF IInv
  <1>3. TypeOK'
    <2>1. Unit' = Unit
      BY DEF Unit
    <2>2. ui_size' \in 0 .. Size' /\ ui_data_offset' \in 0 .. Size'
      BY <1>1, <1>2
    <2> QED
      BY <1>1, <1>2, <2>1, <2>2 DEF IInv, TypeOK
  <1>4. UnitsInv'
    BY <1>1, <1>2 DEF IInv, UnitsInv, IsUnit
  <1>5. StageInv'
    BY <1>1 DEF StageInv
  <1> QED
    BY <1>3, <1>4, <1>5

(* The loop may end where nothing is left, or at the head of a packet that *)
(* is not all there.                                                       *)
LEMMA KeepKeepsClean ==
    ASSUME ConstantsOK, IInv, Straight, stage = "scan", Keep, Rest, passed' = passed,
           ui_data_offset # Size =>
               /\ Ahead(1).pos = 1
               /\ Size - ui_data_offset < lens[Ahead(1).link][Ahead(1).packet]
    PROVE  CleanInv'
  <1> DEFINE o == ui_data_offset  n == Size - ui_data_offset
  <1>1. /\ ui_data_offset' = 0 /\ stage' = "idle" /\ out' = out
        /\ UNCHANGED <<lens, coming, short, torn, passed>> /\ CleanInv
    BY DEF Keep, Rest, IInv
  <1>2. /\ Size' = n /\ n \in Nat /\ o \in Nat /\ Size \in Nat
        /\ DOMAIN mv_recv_buf' = 1 .. n /\ DOMAIN mv_recv_buf = 1 .. Size
        /\ \A i \in 1 .. n : mv_recv_buf'[i] = mv_recv_buf[o + i] /\ o + i \in DOMAIN mv_recv_buf
    BY KeptPiece, OffsetType, BufferType DEF IInv
  <1>3. StreamInv'
    <2>1. \A u, v, d : After(u, v, d)' <=> After(u, v, d)
      BY <1>1 DEF After
    <2>2. ASSUME NEW i \in 1 .. n
          PROVE  /\ mv_recv_buf'[i].link = mv_recv_buf'[1].link
                 /\ After(mv_recv_buf'[i], coming[mv_recv_buf'[i].link], n + 1 - i)
      <3>1. 1 \in 1 .. n /\ o + i \in DOMAIN mv_recv_buf /\ o + 1 \in DOMAIN mv_recv_buf
            /\ n + 1 - i = Size + 1 - (o + i)
        BY <1>2
      <3>2. mv_recv_buf[o + i].link = mv_recv_buf[1].link /\ mv_recv_buf[o + 1].link = mv_recv_buf[1].link
        BY <1>1, <3>1 DEF CleanInv, StreamInv
      <3>3. After(mv_recv_buf[o + i], coming[mv_recv_buf[o + i].link], Size + 1 - (o + i))
        BY <1>1, <3>1 DEF CleanInv, StreamInv
      <3> QED
        BY <1>2, <3>1, <3>2, <3>3
    <2>3. ASSUME NEW i \in 1 .. n, NEW j \in 1 .. n, i < j
          PROVE  After(mv_recv_buf'[i], mv_recv_buf'[j], j - i)
      <3>1. o + i \in DOMAIN mv_recv_buf /\ o + j \in DOMAIN mv_recv_buf
            /\ o + i < o + j /\ (o + j) - (o + i) = j - i
        BY <1>2, <2>3
      <3>2. After(mv_recv_buf[o + i], mv_recv_buf[o + j], (o + j) - (o + i))
        BY <1>1, <3>1 DEF CleanInv, StreamInv
      <3> QED
        BY <1>2, <3>1, <3>2
    <2> QED
      BY <1>1, <1>2, <2>1, <2>2, <2>3 DEF StreamInv
  <1>4. OutInv'
    <2>1. \A i \in DOMAIN out : OnePacket(out[i].units)' <=> OnePacket(out[i].units)
      BY <1>1 DEF OnePacket, PacketOf
    <2>2. ASSUME NEW i \in DOMAIN out, NEW j \in 1 .. n, mv_recv_buf'[j].link = out[i].to
          PROVE  out[i].units[1].packet < mv_recv_buf'[j].packet
      <3>1. o + j \in DOMAIN mv_recv_buf /\ o + j > o /\ mv_recv_buf'[j] = mv_recv_buf[o + j]
        BY <1>2
      <3> QED
        BY <1>1, <2>2, <3>1 DEF CleanInv, OutInv
    <2> QED
      BY <1>1, <1>2, <2>1, <2>2 DEF CleanInv, OutInv
  <1>5. HeadInv'
    <2> SUFFICES ASSUME NEW k \in Conns, NEW p \in DOMAIN lens[k], Begun(k, p),
                        ~Dispatched(k, p), <<k, p>> \notin torn \cup passed
                 PROVE  \E j \in 1 .. n : j > 0 /\ mv_recv_buf'[j] = UnitOf(k, p, 1)
      BY <1>1, <1>2 DEF HeadInv, UnitOf, Begun, Dispatched, PacketOf
    <2>1. PICK j \in DOMAIN mv_recv_buf : j > o /\ mv_recv_buf[j] = UnitOf(k, p, 1)
      BY <1>1 DEF CleanInv, HeadInv
    <2>2. j - o \in 1 .. n /\ j - o > 0 /\ o + (j - o) = j
      BY <1>2, <2>1
    <2> QED
      BY <1>2, <2>1, <2>2
  <1>6. TornInv'
    BY <1>1 DEF TornInv
  <1>7. RestInv'
    <2>1. mv_recv_buf' # <<>> => n > 0
      BY <1>2
    <2>2. n > 0 => mv_recv_buf'[1] = Ahead(1) /\ o # Size
      BY <1>2 DEF Ahead
    <2> QED
      BY <1>1, <1>2, <2>1, <2>2 DEF RestInv
  <1> QED
    BY <1>3, <1>4, <1>5, <1>6, <1>7 DEF CleanInv

-----------------------------------------------------------------------------
(* A unit is skipped.                                                      *)
LEMMA SkipKeepsTypes ==
    ASSUME ConstantsOK, IInv, stage = "scan", ui_data_offset # Size, Skip, Rest,
           passed' \subseteq Conns \X (Nat \ {0}), astray' \in BOOLEAN
    PROVE  (TypeOK /\ UnitsInv /\ StageInv)'
  <1>1. /\ UNCHANGED <<lens, coming, stage, h_link, ui_size, mv_recv_buf, out, short, torn, mixed>>
        /\ ui_data_offset' = ui_data_offset + 1
    BY DEF Skip, Rest
  <1>2. TypeOK'
    <2>1. Unit' = Unit /\ Size' = Size
      BY <1>1 DEF Unit, Size
    <2>2. ui_data_offset' \in 0 .. Size'
      BY <1>1, <2>1, OffsetType
    <2> QED
      BY <1>1, <2>1, <2>2 DEF IInv, TypeOK
  <1>3. UnitsInv'
    BY <1>1 DEF IInv, UnitsInv, IsUnit
  <1>4. StageInv'
    BY <1>1 DEF IInv, StageInv
  <1> QED
    BY <1>2, <1>3, <1>4

(* No head is skipped but one that is torn or passed over.                 *)
LEMMA SkipKeepsClean ==
    ASSUME ConstantsOK, IInv, Straight, stage = "scan", ui_data_offset # Size, Skip, Rest,
           passed \subseteq passed',
           Ahead(1).pos = 1 => <<Ahead(1).link, Ahead(1).packet>> \in torn \cup passed'
    PROVE  CleanInv'
  <1>1. /\ UNCHANGED <<lens, coming, stage, h_link, mv_recv_buf, out, short, torn, mixed>>
        /\ ui_data_offset' = ui_data_offset + 1 /\ CleanInv /\ ui_data_offset \in Nat
    BY OffsetType DEF Skip, Rest, IInv
  <1>2. Size' = Size
    BY <1>1 DEF Size
  <1>3. StreamInv'
    BY <1>1, <1>2 DEF CleanInv, StreamInv, After
  <1>4. DOMAIN mv_recv_buf \subseteq Nat
    BY BufferType DEF IInv
  <1>5. OutInv'
    <2>1. \A i \in DOMAIN out : OnePacket(out[i].units)' <=> OnePacket(out[i].units)
      BY <1>1 DEF OnePacket, PacketOf
    <2>2. \A j \in DOMAIN mv_recv_buf : j > ui_data_offset + 1 => j > ui_data_offset
      BY <1>1, <1>4
    <2> QED
      BY <1>1, <2>1, <2>2 DEF CleanInv, OutInv
  <1>6. HeadInv'
    <2> SUFFICES ASSUME NEW k \in Conns, NEW p \in DOMAIN lens[k], Begun(k, p),
                        ~Dispatched(k, p), <<k, p>> \notin torn \cup passed'
                 PROVE  \E j \in DOMAIN mv_recv_buf :
                            j > ui_data_offset + 1 /\ mv_recv_buf[j] = UnitOf(k, p, 1)
      BY <1>1 DEF HeadInv, UnitOf, Begun, Dispatched, PacketOf
    <2>1. PICK j \in DOMAIN mv_recv_buf : j > ui_data_offset /\ mv_recv_buf[j] = UnitOf(k, p, 1)
      BY <1>1 DEF CleanInv, HeadInv
    <2>2. j # ui_data_offset + 1
      BY <2>1 DEF Ahead, UnitOf
    <2>3. j > ui_data_offset + 1
      BY <1>1, <1>4, <2>1, <2>2
    <2> QED
      BY <2>1, <2>3
  <1>7. TornInv' /\ RestInv'
    BY <1>1, <1>2 DEF CleanInv, TornInv, RestInv
  <1> QED
    BY <1>3, <1>5, <1>6, <1>7 DEF CleanInv

-----------------------------------------------------------------------------
(* A packet is dispatched.                                                 *)
LEMMA DispatchKeepsTypes ==
    ASSUME ConstantsOK, IInv, stage = "scan", NEW n \in Nat, HeaderLen <= n,
           ui_data_offset + n <= Size, Rest, passed' = passed, astray' \in BOOLEAN,
           NEW units, units = SubSeq(mv_recv_buf, ui_data_offset + 1, ui_data_offset + n),
           Dispatch(units)
    PROVE  /\ (TypeOK /\ UnitsInv /\ StageInv)'
           /\ ui_data_offset' = ui_data_offset + n
           /\ Len(out') = Len(out) + 1 /\ Len(out) \in Nat
           /\ DOMAIN out = 1 .. Len(out) /\ DOMAIN out' = 1 .. Len(out) + 1
           /\ \A i \in DOMAIN out : out'[i] = out[i]
           /\ out'[Len(out) + 1].units = units /\ out'[Len(out) + 1].to = h_link
  <1> DEFINE S == [to : Conns, units : Seq(Unit)]  e == [to |-> h_link, units |-> units]
             o == ui_data_offset
  <1>1. /\ UNCHANGED <<lens, coming, stage, h_link, ui_size, mv_recv_buf, short, torn, mixed>>
        /\ ui_data_offset' = o + Len(units)
        /\ out' = Append(out, e) /\ h_link \in Conns /\ out \in Seq(S)
    BY DEF Dispatch, Rest, IInv, StageInv, TypeOK
  <1>2. units \in Seq(Unit) /\ Len(units) = n
    <2>1. /\ mv_recv_buf \in Seq(Unit) /\ o + 1 \in Nat \ {0} /\ (o + 1) + n <= Len(mv_recv_buf) + 1
          /\ (o + 1) + n - 1 = o + n
      BY OffsetType DEF IInv, TypeOK, Size
    <2>2. SubSeq(mv_recv_buf, o + 1, (o + 1) + n - 1) \in Seq(Unit)
          /\ Len(SubSeq(mv_recv_buf, o + 1, (o + 1) + n - 1)) = n
      <3> HIDE DEF S, e
      <3> QED
        BY ONLY n \in Nat, <2>1, Piece
    <2> QED
      BY <2>1, <2>2
  <1>3. e \in S
    BY <1>1, <1>2
  <1>4. /\ out' \in Seq(S) /\ Len(out') = Len(out) + 1 /\ Len(out) \in Nat
        /\ DOMAIN out = 1 .. Len(out) /\ DOMAIN out' = 1 .. Len(out) + 1
        /\ \A i \in DOMAIN out : out'[i] = out[i]
        /\ out'[Len(out) + 1] = e
    <2> HIDE DEF S, e
    <2> QED
      BY <1>1, <1>3
  <1>5. TypeOK'
    <2>1. Unit' = Unit /\ Size' = Size
      BY <1>1 DEF Unit, Size
    <2>2. ui_data_offset' \in 0 .. Size'
      <3>1. ui_data_offset' = ui_data_offset + n
        BY <1>1, <1>2
      <3>2. ui_data_offset + n \in 0 .. Size
        BY OffsetType
      <3> QED
        BY <2>1, <3>1, <3>2
    <2>3. ASSUME NEW i \in DOMAIN out' PROVE Len(out'[i].units) >= HeaderLen
      <3>1. CASE i \in DOMAIN out
        BY <1>4, <3>1 DEF IInv, TypeOK
      <3>2. CASE i = Len(out) + 1
        BY <1>2, <1>4, <3>2 DEF HeaderLen
      <3> QED
        BY <1>4, <3>1, <3>2
    <2>4. out' \in Seq([to : Conns, units : Seq(Unit)])
      BY <1>4
    <2> HIDE DEF S, e
    <2> QED
      BY <1>1, <2>1, <2>2, <2>3, <2>4 DEF IInv, TypeOK
  <1>6. UnitsInv'
    BY <1>1 DEF IInv, UnitsInv, IsUnit
  <1>7. StageInv'
    BY <1>1 DEF IInv, StageInv
  <1>8. e.units = units /\ e.to = h_link
    OBVIOUS
  <1>9. ui_data_offset' = ui_data_offset + n
    BY <1>1, <1>2
  <1> HIDE DEF e, S, o
  <1> QED
    BY <1>4, <1>5, <1>6, <1>7, <1>8, <1>9

(* What is dispatched is the packet whose head the loop has come to.       *)
LEMMA DispatchKeepsClean ==
    ASSUME ConstantsOK, IInv, Straight, stage = "scan", NEW n \in Nat,
           ui_data_offset + n <= Size, ui_data_offset # Size, Rest,
           passed' = passed, astray' \in BOOLEAN,
           Ahead(1).pos = 1, lens[Ahead(1).link][Ahead(1).packet] = n,
           NEW units, units = SubSeq(mv_recv_buf, ui_data_offset + 1, ui_data_offset + n),
           Dispatch(units)
    PROVE  CleanInv'
  <1> DEFINE o == ui_data_offset  u == mv_recv_buf[o + 1]  m == Len(out) + 1
  <1>1. /\ UNCHANGED <<lens, coming, stage, h_link, mv_recv_buf, short, torn, passed, mixed>>
        /\ CleanInv /\ TypeOK /\ UnitsInv
    BY DEF Dispatch, Rest, IInv
  <1>2. /\ o \in Nat /\ Size \in Nat /\ o + 1 \in DOMAIN mv_recv_buf /\ o < Size
        /\ DOMAIN mv_recv_buf = 1 .. Size /\ Size' = Size /\ Ahead(1) = u
    BY <1>1, OffsetType, BufferType DEF Ahead, Size
  <1>3. u \in Unit /\ IsUnit(u) /\ u.packet \in Nat /\ u.link \in Conns /\ n >= HeaderLen
        /\ u = UnitOf(u.link, u.packet, 1)
    <2>1. u \in Unit /\ IsUnit(u)
      BY <1>1, <1>2, BufferType DEF UnitsInv
    <2> QED
      BY <1>1, <1>2, <2>1, UnitType
  <1>4. /\ units = PacketOf(u.link, u.packet) /\ OnePacket(units)
        /\ units[1] = u /\ Len(units) = n
    <2>1. o + 1 \in Nat \ {0} /\ (o + 1) + n <= Size + 1 /\ (o + 1) + n - 1 = o + n
      BY <1>2
    <2>2. StreamInv /\ u.pos = 1 /\ lens[u.link][u.packet] = n
      BY <1>1, <1>2 DEF CleanInv
    <2>3. LET s == SubSeq(mv_recv_buf, o + 1, (o + 1) + n - 1)
          IN  s = PacketOf(u.link, u.packet) /\ OnePacket(s) /\ s[1] = u /\ Len(s) = n
      BY <1>1, <1>2, <2>1, <2>2, WholePacket
    <2> QED
      BY <2>1, <2>3
  <1>5. /\ u.packet < coming[u.link].packet
        /\ \A j \in DOMAIN mv_recv_buf : j >= o + 1 + n => u.packet < mv_recv_buf[j].packet
    BY <1>1, <1>2, <1>3, WholeIsPast DEF CleanInv
  <1>6. /\ ui_data_offset' = o + n
        /\ m \in Nat /\ DOMAIN out = 1 .. m - 1 /\ DOMAIN out' = 1 .. m
        /\ \A i \in DOMAIN out : out'[i] = out[i]
        /\ out'[m].units = units /\ out'[m].to = h_link
    <2>1. HeaderLen <= n
      BY <1>3 DEF HeaderLen
    <2>2. /\ ui_data_offset' = ui_data_offset + n
          /\ Len(out') = Len(out) + 1 /\ Len(out) \in Nat
          /\ DOMAIN out = 1 .. Len(out) /\ DOMAIN out' = 1 .. Len(out) + 1
          /\ \A i \in DOMAIN out : out'[i] = out[i]
          /\ out'[Len(out) + 1].units = units /\ out'[Len(out) + 1].to = h_link
      BY <2>1, DispatchKeepsTypes
    <2> QED
      BY <2>2
  <1>7. u.link = h_link
    BY <1>1, <1>2 DEF CleanInv, StreamInv
  <1>8. \A i \in DOMAIN out' : i \in DOMAIN out \/ i = m
    BY <1>6
  <1>9. StreamInv'
    BY <1>1, <1>2 DEF CleanInv, StreamInv, After
  <1>10. OutInv'
    <2>1. \A s : OnePacket(s)' <=> OnePacket(s)
      BY <1>1 DEF OnePacket, PacketOf
    <2>2. ASSUME NEW i \in DOMAIN out'
          PROVE  /\ OnePacket(out'[i].units) /\ out'[i].units[1].link = out'[i].to
                 /\ out'[i].units[1].packet < coming[out'[i].to].packet
                 /\ \A j \in DOMAIN mv_recv_buf :
                        j > o + n /\ mv_recv_buf[j].link = out'[i].to =>
                            out'[i].units[1].packet < mv_recv_buf[j].packet
      <3>1. \A j \in DOMAIN mv_recv_buf : j > o + n => j > o /\ j >= o + 1 + n
        BY <1>2
      <3>2. CASE i \in DOMAIN out
        BY <1>1, <1>6, <3>1, <3>2 DEF CleanInv, OutInv
      <3>3. CASE i = m
        BY <1>4, <1>5, <1>6, <1>7, <3>1, <3>3
      <3> QED
        BY <1>8, <3>2, <3>3
    <2>3. ASSUME NEW i \in DOMAIN out', NEW j \in DOMAIN out', i < j, out'[i].to = out'[j].to
          PROVE  out'[i].units[1].packet < out'[j].units[1].packet
      <3>1. i \in DOMAIN out
        BY <1>6, <2>3
      <3>2. CASE j \in DOMAIN out
        BY <1>1, <1>6, <2>3, <3>1, <3>2 DEF CleanInv, OutInv
      <3>3. CASE j = m
        <4>1. out[i].to = u.link /\ out'[j].units[1] = u
          BY <1>4, <1>6, <1>7, <2>3, <3>1, <3>3
        <4>2. o + 1 > o
          BY <1>2
        <4>3. out[i].units[1].packet < u.packet
          BY <1>1, <1>2, <3>1, <4>1, <4>2 DEF CleanInv, OutInv
        <4> QED
          BY <1>6, <3>1, <4>1, <4>3
      <3> QED
        BY <1>8, <3>2, <3>3
    <2> QED
      BY <1>1, <1>6, <2>1, <2>2, <2>3 DEF OutInv
  <1>11. HeadInv'
    <2> SUFFICES ASSUME NEW k \in Conns, NEW p \in DOMAIN lens[k], Begun(k, p)
                 PROVE  \/ \E i \in DOMAIN out' : out'[i].units = PacketOf(k, p)
                        \/ <<k, p>> \in torn \cup passed
                        \/ \E j \in DOMAIN mv_recv_buf :
                            j > o + n /\ mv_recv_buf[j] = UnitOf(k, p, 1)
      BY <1>1, <1>6 DEF HeadInv, UnitOf, Begun, Dispatched, PacketOf
    <2>1. CASE Dispatched(k, p)
      BY <1>6, <2>1 DEF Dispatched
    <2>2. ASSUME NEW j \in DOMAIN mv_recv_buf, j > o, mv_recv_buf[j] = UnitOf(k, p, 1)
          PROVE  j > o + n \/ PacketOf(k, p) = units
      <3> SUFFICES ASSUME j <= o + n PROVE PacketOf(k, p) = units
        BY <1>2
      <3>1. o + 1 <= j /\ j - (o + 1) < n /\ o + 1 \in DOMAIN mv_recv_buf
        BY <1>2, <2>2
      <3>2. mv_recv_buf[j] = UnitOf(u.link, u.packet, j - (o + 1) + 1)
        BY <1>1, <1>2, <3>1, HeadLeads DEF CleanInv
      <3>3. k = u.link /\ p = u.packet
        BY <2>2, <3>2 DEF UnitOf
      <3> QED
        BY <1>4, <3>3
    <2>3. m \in DOMAIN out'
      BY <1>6
    <2>4. CASE \E j \in DOMAIN mv_recv_buf : j > o /\ mv_recv_buf[j] = UnitOf(k, p, 1)
      BY <1>6, <2>2, <2>3, <2>4
    <2>5. CASE <<k, p>> \in torn \cup passed
      BY <2>5
    <2> QED
      BY <1>1, <2>1, <2>4, <2>5 DEF CleanInv, HeadInv
  <1>12. TornInv' /\ RestInv'
    BY <1>1, <1>2 DEF CleanInv, TornInv, RestInv
  <1> QED
    BY <1>9, <1>10, <1>11, <1>12 DEF CleanInv

-----------------------------------------------------------------------------
(* What a round finds where the buffer is a piece of one stream: a head is *)
(* followed by the second unit of its magic number and by its length, so a *)
(* head that is no magic number is torn, and one that is has its packet.   *)
LEMMA AheadType ==
    ASSUME ConstantsOK, IInv, ui_data_offset # Size, NEW n \in Nat \ {0},
           ui_data_offset + n <= Size
    PROVE  /\ ui_data_offset + n \in DOMAIN mv_recv_buf
           /\ Ahead(n) = mv_recv_buf[ui_data_offset + n]
           /\ Ahead(n) \in Unit /\ IsUnit(Ahead(n))
           /\ Ahead(n).link \in Conns
           /\ lens[Ahead(n).link][Ahead(n).packet] \in Nat
           /\ lens[Ahead(n).link][Ahead(n).packet] >= HeaderLen
  <1>1. ui_data_offset + n \in DOMAIN mv_recv_buf
    BY OffsetType, BufferType DEF IInv
  <1>2. Ahead(n) \in Unit /\ IsUnit(Ahead(n))
    BY <1>1, BufferType DEF Ahead, IInv, UnitsInv
  <1> QED
    BY <1>1, <1>2, UnitType DEF Ahead, IInv

LEMMA AheadOfHead ==
    ASSUME ConstantsOK, IInv, Straight, ui_data_offset # Size, Ahead(1).pos = 1,
           NEW n \in {2, 3}, ui_data_offset + n <= Size
    PROVE  Ahead(n) = UnitOf(Ahead(1).link, Ahead(1).packet, n)
  <1> DEFINE o == ui_data_offset
  <1>1. o \in Nat /\ o + 1 <= Size /\ Size \in Nat
    BY OffsetType
  <1>2. /\ o + 1 \in DOMAIN mv_recv_buf /\ Ahead(1) = mv_recv_buf[o + 1]
        /\ lens[Ahead(1).link][Ahead(1).packet] \in Nat
        /\ lens[Ahead(1).link][Ahead(1).packet] >= 3
    BY <1>1, AheadType DEF HeaderLen
  <1>3. o + n \in DOMAIN mv_recv_buf /\ Ahead(n) = mv_recv_buf[o + n]
    BY <1>1, AheadType
  <1>4. o + 1 <= o + n /\ (o + n) - (o + 1) < 3 /\ (o + n) - (o + 1) + 1 = n
    BY <1>1
  <1>5. (o + n) - (o + 1) < lens[Ahead(1).link][Ahead(1).packet]
    BY <1>1, <1>2, <1>4
  <1>6. mv_recv_buf[o + n] = UnitOf(Ahead(1).link, Ahead(1).packet, (o + n) - (o + 1) + 1)
    BY <1>2, <1>3, <1>4, <1>5, HeadLeads DEF IInv, CleanInv
  <1> QED
    BY <1>3, <1>4, <1>6

LEMMA NoMagicIsTorn ==
    ASSUME ConstantsOK, IInv, Straight, stage = "scan", ui_data_offset # Size,
           NEW past, NEW fake, ~IsMagic(past, fake), Ahead(1).pos = 1
    PROVE  <<Ahead(1).link, Ahead(1).packet>> \in torn
  <1>1. ui_data_offset < Size /\ Size \in Nat /\ ui_data_offset \in Nat
    BY OffsetType
  <1>2. CASE ui_data_offset + 2 <= Size
    <2>1. Ahead(2).pos = 2
      BY <1>2, AheadOfHead DEF UnitOf
    <2> QED
      BY <1>1, <1>2, <2>1 DEF IsMagic, MagicLen, HeaderLen
  <1>3. CASE ~(ui_data_offset + 2 <= Size)
    <2>1. Size = ui_data_offset + 1
      BY <1>1, <1>3
    <2>2. mv_recv_buf # <<>> /\ Ahead(1) = mv_recv_buf[Size]
      BY <1>1, <2>1, BufferType DEF Ahead, IInv
    <2> QED
      BY <2>2 DEF IInv, CleanInv, TornInv
  <1> QED
    BY <1>2, <1>3

LEMMA MagicHasLength ==
    ASSUME ConstantsOK, IInv, Straight, stage = "scan", ui_data_offset # Size,
           Ahead(1).pos = 1, NEW junk \in {1, HeaderLen, Huge}
    PROVE  /\ ui_data_offset + HeaderLen <= Size =>
                TotalLen(junk) = lens[Ahead(1).link][Ahead(1).packet]
           /\ Incomplete(junk) => Size - ui_data_offset < lens[Ahead(1).link][Ahead(1).packet]
  <1>1. ui_data_offset < Size /\ Size \in Nat /\ ui_data_offset \in Nat
    BY OffsetType
  <1>3. ASSUME ui_data_offset + HeaderLen <= Size
        PROVE  TotalLen(junk) = lens[Ahead(1).link][Ahead(1).packet]
    <2>1. Ahead(3) = UnitOf(Ahead(1).link, Ahead(1).packet, 3)
      BY <1>3, AheadOfHead DEF HeaderLen
    <2> QED
      BY <2>1 DEF TotalLen, HeaderLen, UnitOf
  <1>4. /\ lens[Ahead(1).link][Ahead(1).packet] \in Nat
        /\ lens[Ahead(1).link][Ahead(1).packet] >= 3
    BY <1>1, AheadType DEF HeaderLen
  <1>5. ASSUME Incomplete(junk)
        PROVE  Size - ui_data_offset < lens[Ahead(1).link][Ahead(1).packet]
    <2>1. CASE ui_data_offset + 3 <= Size
      BY <1>1, <1>3, <1>4, <1>5, <2>1 DEF Incomplete, HeaderLen
    <2>2. CASE ~(ui_data_offset + 3 <= Size)
      BY <1>1, <1>4, <2>2
    <2> QED
      BY <2>1, <2>2
  <1> QED
    BY <1>3, <1>5

(* What a head with a length that fits is in front of: its packet.         *)
LEMMA HeadOfPacket ==
    ASSUME ConstantsOK, IInv, Straight, stage = "scan", ui_data_offset # Size,
           Ahead(1).pos = 1, NEW junk \in {1, HeaderLen, Huge}, ~Incomplete(junk)
    PROVE  OnePacket(Cut(junk)) /\ Cut(junk)[1] = Ahead(1)
  <1> DEFINE o == ui_data_offset
  <1>1. /\ o < Size /\ Size \in Nat /\ o \in Nat /\ o + HeaderLen <= Size
        /\ TotalLen(junk) \in Nat /\ o + TotalLen(junk) <= Size
    <2>1. o < Size /\ Size \in Nat /\ o \in Nat
      BY OffsetType
    <2>2. o + HeaderLen <= Size
      BY <2>1 DEF Incomplete, HeaderLen
    <2>3. TotalLen(junk) \in Nat
      BY <2>2, TotalLenType
    <2> QED
      BY <2>1, <2>2, <2>3 DEF Incomplete
  <1>2. TotalLen(junk) = lens[Ahead(1).link][Ahead(1).packet]
    BY <1>1, MagicHasLength
  <1>3. PICK n \in Nat : n = TotalLen(junk)
    BY <1>1
  <1>4. /\ o + 1 \in Nat \ {0} /\ o + 1 \in DOMAIN mv_recv_buf /\ Ahead(1) = mv_recv_buf[o + 1]
        /\ (o + 1) + n <= Size + 1 /\ (o + 1) + n - 1 = o + n
    BY <1>1, <1>3, AheadType
  <1>5. LET s == SubSeq(mv_recv_buf, o + 1, (o + 1) + n - 1)
        IN  OnePacket(s) /\ s[1] = mv_recv_buf[o + 1]
    <2>1. TypeOK /\ UnitsInv /\ StreamInv
      BY DEF IInv, CleanInv
    <2>2. mv_recv_buf[o + 1].pos = 1 /\ lens[mv_recv_buf[o + 1].link][mv_recv_buf[o + 1].packet] = n
      BY <1>2, <1>3, <1>4
    <2> QED
      BY <1>4, <2>1, <2>2, WholePacket
  <1> QED
    BY <1>3, <1>4, <1>5 DEF Cut

(* What is passed over was sent.                                           *)
LEMMA PassedType ==
    ASSUME ConstantsOK, IInv, stage = "scan", ui_data_offset # Size,
           NEW junk \in {1, HeaderLen, Huge}, ~Incomplete(junk), Pass(Cut(junk))
    PROVE  passed' \subseteq Conns \X (Nat \ {0}) /\ passed \subseteq passed'
  <1>1. passed \subseteq Conns \X (Nat \ {0})
    BY DEF IInv, TypeOK
  <1>2. CASE ~OnePacket(Cut(junk))
    BY <1>1, <1>2 DEF Pass
  <1>3. CASE OnePacket(Cut(junk))
    <2>1. /\ ui_data_offset \in Nat /\ Size \in Nat /\ ui_data_offset + HeaderLen <= Size
          /\ ui_data_offset + TotalLen(junk) <= Size
      <3>1. ui_data_offset \in Nat /\ Size \in Nat
        BY OffsetType
      <3>2. ui_data_offset + HeaderLen <= Size
        BY <3>1 DEF Incomplete, HeaderLen
      <3> QED
        BY <3>1, <3>2, TotalLenType DEF Incomplete
    <2>2. PICK n \in Nat : n = TotalLen(junk)
      BY <2>1, TotalLenType
    <2>3. /\ mv_recv_buf \in Seq(Unit) /\ ui_data_offset + 1 \in Nat \ {0}
          /\ (ui_data_offset + 1) + n <= Len(mv_recv_buf) + 1
          /\ (ui_data_offset + 1) + n - 1 = ui_data_offset + n
      BY <2>1, <2>2 DEF IInv, TypeOK, Size
    <2>4. SubSeq(mv_recv_buf, ui_data_offset + 1, (ui_data_offset + 1) + n - 1) \in Seq(Unit)
      BY <2>3, Piece
    <2>5. Cut(junk) \in Seq(Unit) /\ Len(Cut(junk)) > 0
      BY <1>3, <2>2, <2>3, <2>4 DEF Cut, OnePacket
    <2>6. Cut(junk)[1] \in Unit
      BY <2>5
    <2>7. Cut(junk)[1].link \in Conns /\ Cut(junk)[1].packet \in Nat \ {0}
      BY <2>6, UnitType DEF IInv
    <2> QED
      BY <1>1, <1>3, <2>7 DEF Pass
  <1> QED
    BY <1>2, <1>3

LEMMA ScanKeeps ==
    ASSUME ConstantsOK, IInv, Scan
    PROVE  IInv'
  <1>1. stage = "scan" /\ Rest /\ mixed' = mixed /\ astray \in BOOLEAN
    BY ScanRounds DEF Rest, IInv, TypeOK
  <1>2. ASSUME ui_data_offset = Size, Keep, UNCHANGED <<passed, astray>> PROVE IInv'
    <2>1. Straight' => CleanInv'
      BY <1>1, <1>2, KeepKeepsClean DEF Straight
    <2> QED
      BY <1>1, <1>2, <2>1, KeepKeepsTypes DEF IInv
  <1>3. ASSUME NEW past \in BOOLEAN, NEW fake \in BOOLEAN, NEW accepted \in BOOLEAN,
               NEW junk \in {1, HeaderLen, Huge},
               ui_data_offset # Size, Round(past, fake, accepted, junk),
               astray' = (astray \/ (IsMagic(past, fake) /\ Ahead(1).pos > 1))
        PROVE  IInv'
    <2>1. astray' \in BOOLEAN
      BY <1>1, <1>3
    <2>2. ASSUME Straight', IsMagic(past, fake) PROVE Straight /\ Ahead(1).pos = 1
      <3>1. ~astray /\ ~mixed /\ ~(Ahead(1).pos > 1)
        BY <1>1, <1>3, <2>2 DEF Straight
      <3>2. Ahead(1).pos \in Nat
        <4>1. ui_data_offset + 1 <= Size
          BY <1>3, OffsetType
        <4>2. Ahead(1) \in Unit
          BY <1>3, <4>1, AheadType
        <4> QED
          BY <4>2, UnitType DEF IInv
      <3> QED
        BY <2>2, <3>1, <3>2 DEF IsMagic, Straight, HeaderLen
    <2>3. Straight' => Straight
      BY <1>1, <1>3 DEF Straight
    <2>4. ASSUME ~IsMagic(past, fake), Skip, UNCHANGED passed PROVE IInv'
      <3>1. Straight' => CleanInv'
        BY <1>1, <1>3, <2>3, <2>4, SkipKeepsClean, NoMagicIsTorn
      <3>2. passed' \subseteq Conns \X (Nat \ {0})
        BY <2>4 DEF IInv, TypeOK
      <3> QED
        BY <1>1, <1>3, <2>1, <2>4, <3>1, <3>2, SkipKeepsTypes DEF IInv
    <2>5. ASSUME IsMagic(past, fake), Incomplete(junk), Keep, UNCHANGED passed PROVE IInv'
      <3>1. Straight' => CleanInv'
        BY <1>1, <1>3, <2>2, <2>5, KeepKeepsClean, MagicHasLength
      <3> QED
        BY <1>1, <2>1, <2>5, <3>1, KeepKeepsTypes DEF IInv
    <2>6. ASSUME IsMagic(past, fake), ~Incomplete(junk), Parses(Cut(junk), accepted),
                 Dispatch(Cut(junk)), UNCHANGED passed
          PROVE  IInv'
      <3> DEFINE o == ui_data_offset
      <3>1. /\ o \in Nat /\ Size \in Nat /\ o + HeaderLen <= Size
            /\ TotalLen(junk) \in Nat /\ o + TotalLen(junk) <= Size
        <4>1. o \in Nat /\ Size \in Nat
          BY OffsetType
        <4>2. o + HeaderLen <= Size
          BY <2>6, <4>1 DEF Incomplete, HeaderLen
        <4>3. TotalLen(junk) \in Nat
          BY <4>2, TotalLenType
        <4> QED
          BY <2>6, <4>1, <4>2, <4>3 DEF Incomplete
      <3>2. PICK n \in Nat : n = TotalLen(junk)
        BY <3>1
      <3>3. Cut(junk) = SubSeq(mv_recv_buf, o + 1, o + n) /\ o + n <= Size
        BY <3>1, <3>2 DEF Cut
      <3>4. HeaderLen <= n
        <4>1. /\ mv_recv_buf \in Seq(Unit) /\ o + 1 \in Nat \ {0}
              /\ (o + 1) + n <= Len(mv_recv_buf) + 1 /\ (o + 1) + n - 1 = o + n
          BY <3>1, <3>3 DEF IInv, TypeOK, Size
        <4>2. Len(SubSeq(mv_recv_buf, o + 1, (o + 1) + n - 1)) = n
          BY <4>1, Piece
        <4> QED
          BY <2>6, <3>3, <4>1, <4>2 DEF Parses, HeaderLen
      <3>5. (TypeOK /\ UnitsInv /\ StageInv)'
        BY <1>1, <2>1, <2>6, <3>3, <3>4, DispatchKeepsTypes
      <3>6. ASSUME Straight' PROVE CleanInv'
        <4>1. Straight /\ Ahead(1).pos = 1
          BY <2>2, <2>6, <3>6
        <4>2. lens[Ahead(1).link][Ahead(1).packet] = n
          BY <1>1, <1>3, <3>1, <3>2, <4>1, MagicHasLength
        <4> QED
          BY <1>1, <1>3, <2>1, <2>6, <3>3, <4>1, <4>2, DispatchKeepsClean
      <3> QED
        BY <3>5, <3>6 DEF IInv
    <2>7. ASSUME IsMagic(past, fake), ~Incomplete(junk), Pass(Cut(junk)) PROVE IInv'
      <3>1. passed' \subseteq Conns \X (Nat \ {0}) /\ passed \subseteq passed' /\ Skip
        BY <1>1, <1>3, <2>7, PassedType DEF Pass
      <3>2. ASSUME Straight' PROVE CleanInv'
        <4>1. Straight /\ Ahead(1).pos = 1
          BY <2>2, <2>7, <3>2
        <4>2. OnePacket(Cut(junk)) /\ Cut(junk)[1] = Ahead(1)
          BY <1>1, <1>3, <2>7, <4>1, HeadOfPacket
        <4>3. <<Ahead(1).link, Ahead(1).packet>> \in passed'
          BY <2>7, <4>2 DEF Pass
        <4> QED
          BY <1>1, <1>3, <3>1, <4>1, <4>3, SkipKeepsClean
      <3> QED
        BY <1>1, <1>3, <2>1, <3>1, <3>2, SkipKeepsTypes DEF IInv
    <2> QED
      BY <1>3, <2>4, <2>5, <2>6, <2>7 DEF Round
  <1> QED
    BY <1>2, <1>3, ScanRounds

-----------------------------------------------------------------------------
LEMMA StepKeeps == ConstantsOK /\ IInv /\ [Next]_vars => IInv'
  <1> SUFFICES ASSUME ConstantsOK, IInv, [Next]_vars PROVE IInv'
    OBVIOUS
  <1>1. ASSUME NEW l \in Conns, Copy(l) PROVE IInv'
    BY <1>1, CopyKeeps
  <1>2. CASE EndCopy
    BY <1>2, EndCopyKeeps
  <1>3. CASE Scan
    BY <1>3, ScanKeeps
  <1>4. CASE UNCHANGED vars
    <2> USE <1>4 DEF vars
    <2>1. Size' = Size /\ Unit' = Unit
      BY DEF Size, Unit
    <2>2. TypeOK'
      BY <2>1 DEF IInv, TypeOK
    <2>3. UnitsInv' /\ StageInv'
      BY DEF IInv, UnitsInv, IsUnit, StageInv
    <2>4. StreamInv' <=> StreamInv
      BY <2>1 DEF StreamInv, After
    <2>5. OutInv' <=> OutInv
      BY DEF OutInv, OnePacket, PacketOf
    <2>6. HeadInv' <=> HeadInv
      BY DEF HeadInv, Begun, Dispatched, PacketOf
    <2>7. (TornInv /\ RestInv)' <=> TornInv /\ RestInv
      BY <2>1 DEF TornInv, RestInv
    <2> QED
      BY <2>2, <2>3, <2>4, <2>5, <2>6, <2>7 DEF IInv, CleanInv, Straight
  <1> QED
    BY <1>1, <1>2, <1>3, <1>4 DEF Next

-----------------------------------------------------------------------------
(* What the invariant says of the packets.                                 *)

LEMMA InvIsIntact == IInv => IntactAndInOrder
  BY DEF IInv, CleanInv, OutInv, IntactAndInOrder

(* A packet that has arrived and whose head is still there is there whole. *)
LEMMA InvLosesNone == ConstantsOK /\ IInv => LostForCause
  <1> SUFFICES ASSUME ConstantsOK, IInv, Straight, stage = "idle",
                      NEW l \in Conns, NEW k \in DOMAIN lens[l], Arrived(l, k),
                      ~Dispatched(l, k), <<l, k>> \notin torn \cup passed
               PROVE  Buffered(l, k) /\ short
    BY DEF LostForCause
  <1> USE DEF CleanInv
  <1>1. /\ TypeOK /\ UnitsInv /\ StreamInv /\ HeadInv /\ RestInv /\ ui_data_offset = 0
    BY DEF IInv, StageInv
  <1>2. PICK m \in DOMAIN mv_recv_buf : mv_recv_buf[m] = UnitOf(l, k, 1)
    BY <1>1 DEF HeadInv, Begun, Arrived
  <1>3. PICK L \in Nat : L = lens[l][k] /\ L >= HeaderLen
    BY <1>1, LensType DEF TypeOK
  <1>4. /\ m \in Nat \ {0} /\ m <= Size /\ Size \in Nat /\ DOMAIN mv_recv_buf = 1 .. Size
        /\ mv_recv_buf[m].link = l /\ mv_recv_buf[m].packet = k /\ mv_recv_buf[m].pos = 1
    BY <1>1, <1>2, BufferType DEF UnitOf
  <1>5. k \in Nat /\ k < coming[l].packet
    BY <1>1, LensType DEF Arrived, TypeOK
  <1>6. coming[l].packet \in Nat
    <2>1. coming[l] \in Unit
      BY <1>1 DEF TypeOK
    <2> QED
      BY <1>1, <2>1, UnitType
  <1>7. m + L <= Size + 1
    <2>1. After(mv_recv_buf[m], coming[l], Size + 1 - m)
      BY <1>1, <1>4 DEF StreamInv
    <2> QED
      BY <1>3, <1>4, <1>5, <1>6, <2>1 DEF After
  <1>8. Buffered(l, k)
    <2>1. SubSeq(mv_recv_buf, m, m + L - 1) = PacketOf(l, k)
      BY <1>1, <1>3, <1>4, <1>7, WholePacket
    <2>2. m - 1 \in 0 .. Size /\ (m - 1) + L <= Size /\ (m - 1) + 1 = m /\ (m - 1) + L = m + L - 1
      BY <1>3, <1>4, <1>7
    <2> QED
      BY <1>3, <2>1, <2>2 DEF Buffered
  <1>9. short
    <2> SUFFICES ASSUME ~short PROVE FALSE
      BY DEF IInv, TypeOK
    <2>1. mv_recv_buf # <<>>
      BY <1>1, <1>4, BufferType
    <2>2. 1 \in DOMAIN mv_recv_buf /\ mv_recv_buf[1].link = l
      BY <1>1, <1>4 DEF StreamInv
    <2>3. mv_recv_buf[1].pos = 1 /\ Size < lens[l][mv_recv_buf[1].packet]
      BY <1>1, <2>1, <2>2 DEF RestInv
    <2>4. lens[l][mv_recv_buf[1].packet] \in Nat
      BY <1>1, <2>2, BufferType, UnitType DEF UnitsInv
    <2>5. m - 1 < lens[mv_recv_buf[1].link][mv_recv_buf[1].packet] /\ 1 <= m
      BY <1>4, <2>2, <2>3, <2>4
    <2>6. mv_recv_buf[m] = UnitOf(mv_recv_buf[1].link, mv_recv_buf[1].packet, m - 1 + 1)
      BY <1>1, <1>4, <2>2, <2>3, <2>5, HeadLeads
    <2>7. m = 1 /\ mv_recv_buf[1].packet = k
      BY <1>2, <1>4, <2>6 DEF UnitOf
    <2> QED
      BY <1>3, <1>4, <1>7, <2>3, <2>7
  <1> QED
    BY <1>8, <1>9

LEMMA InvIsShort == ConstantsOK /\ IInv => BufferIsShort
  <1> SUFFICES ASSUME ConstantsOK, IInv, Straight, stage = "idle", ~short,
                      NEW m \in DOMAIN mv_recv_buf
               PROVE  /\ mv_recv_buf[m].packet = mv_recv_buf[1].packet
                      /\ ~Dispatched(mv_recv_buf[m].link, mv_recv_buf[m].packet)
    BY DEF BufferIsShort
  <1>1. /\ TypeOK /\ UnitsInv /\ StreamInv /\ OutInv /\ RestInv /\ ui_data_offset = 0
    BY DEF IInv, StageInv, CleanInv
  <1>2. /\ Size \in Nat /\ DOMAIN mv_recv_buf = 1 .. Size /\ m \in 1 .. Size
        /\ 1 \in DOMAIN mv_recv_buf /\ mv_recv_buf # <<>>
    BY <1>1, BufferType
  <1>3. mv_recv_buf[m].packet = mv_recv_buf[1].packet
    <2>1. mv_recv_buf[1].pos = 1 /\ Size < lens[mv_recv_buf[1].link][mv_recv_buf[1].packet]
      BY <1>1, <1>2 DEF RestInv
    <2>2. lens[mv_recv_buf[1].link][mv_recv_buf[1].packet] \in Nat
      BY <1>1, <1>2, BufferType, UnitType DEF UnitsInv
    <2>3. m - 1 < lens[mv_recv_buf[1].link][mv_recv_buf[1].packet] /\ 1 <= m
      BY <1>2, <2>1, <2>2
    <2>4. mv_recv_buf[m] = UnitOf(mv_recv_buf[1].link, mv_recv_buf[1].packet, m - 1 + 1)
      BY <1>1, <1>2, <2>1, <2>3, HeadLeads
    <2> QED
      BY <2>4 DEF UnitOf
  <1>4. ASSUME Dispatched(mv_recv_buf[m].link, mv_recv_buf[m].packet) PROVE FALSE
    <2> DEFINE l == mv_recv_buf[m].link  k == mv_recv_buf[m].packet
    <2>1. PICK i \in DOMAIN out : out[i].units = PacketOf(l, k)
      BY <1>4 DEF Dispatched
    <2>2. k \in Nat /\ lens[l][k] \in Nat /\ lens[l][k] >= 3
      BY <1>1, BufferType, UnitType DEF UnitsInv, HeaderLen
    <2>3. PacketOf(l, k)[1] = UnitOf(l, k, 1)
      BY <2>2 DEF PacketOf
    <2>4. out[i].units[1].link = l /\ out[i].units[1].packet = k
      BY <2>1, <2>3 DEF UnitOf
    <2>5. out[i].to = l /\ m > 0
      BY <1>1, <1>2, <2>4 DEF OutInv
    <2> QED
      BY <1>1, <2>2, <2>4, <2>5 DEF OutInv
  <1> QED
    BY <1>3, <1>4

(* However many packets of whatever length the links send, and however TCP *)
(* cuts them into chunks: as long as the links do not mix, each packet is  *)
(* dispatched whole, for its sender, in order and once, none is lost but   *)
(* one whose magic number is torn, and what waits is the beginning of one. *)
THEOREM FramingCorrect ==
    ConstantsOK /\ Spec => [](TypeOK /\ IntactAndInOrder /\ LostForCause /\ BufferIsShort)
  <1>1. ConstantsOK /\ Init => IInv
    BY InitIsFine
  <1>2. ConstantsOK /\ IInv /\ [Next]_vars => IInv'
    BY StepKeeps
  <1>3. ConstantsOK /\ IInv => TypeOK /\ IntactAndInOrder /\ LostForCause /\ BufferIsShort
    BY InvIsIntact, InvLosesNone, InvIsShort DEF IInv
  <1>4. ConstantsOK => []ConstantsOK
    <2>1. ConstantsOK => ConstantsOK'
      BY DEF ConstantsOK
    <2> QED
      BY <2>1, PTL
  <1> QED
    BY <1>1, <1>2, <1>3, <1>4, PTL DEF Spec
=============================================================================
