------------------------------ MODULE Framing ------------------------------
(***************************************************************************)
(* How the samples cut the bytes of TCP into packets: on_tcp_recv_data of  *)
(* TcpNetProtocolEvent with parse_data and parse_packet.  A packet is a    *)
(* sequence of units instead of bytes: two of magic number, one with the   *)
(* total length, and the body; a unit knows whose it is, so that the       *)
(* properties can tell what became of it.  The callback runs on the        *)
(* worker: its loops are taken round by round, with nothing in between.    *)
(* A definition named ...Faulty is the one after it with a bug seeded.     *)
(***************************************************************************)
EXTENDS Naturals, Sequences

CONSTANTS
    Conns,          \* the connections whose bytes arrive
    Traffic,        \* what they may send: the lengths of the packets of each
    NoLink

MagicLen == 2       \* sizeof( ui_msg_head )
HeaderLen == 3      \* sizeof( PACKET )
Huge == 99          \* what a length reads as that is none: more than the buffer has

Lengths == {n \in Nat : n >= HeaderLen}
ConstantsOK == Traffic \subseteq [Conns -> Seq(Lengths)] /\ NoLink \notin Conns

VARIABLES
    lens,           \* lens[l][k]: the length of the k-th packet of l, fixed
    coming,         \* coming[l]: the next unit of l
    stage,          \* of the callback: "idle", "copy" or "scan"
    h_link,         \* whose data it has been given, or NoLink
    ui_size,        \* how many units of them have been copied
    mv_recv_buf,    \* what is left of the units: one buffer for all links
    ui_data_offset, \* how much of it has been looked at
    out,            \* history: the packets dispatched: for which link, what units
    short,          \* history: the last chunk was shorter than a header
    torn,           \* history: <<l, k>> whose magic number a chunk ended in
    passed,         \* history: <<l, k>> that parse_packet had no type for, or refused
    mixed,          \* history: a chunk met what another link had left
    astray          \* history: what passed for a magic number was none

vars == <<lens, coming, stage, h_link, ui_size, mv_recv_buf, ui_data_offset,
          out, short, torn, passed, mixed, astray>>

Unit == [link : Conns, packet : Nat \ {0}, pos : Nat \ {0}]
Size == Len(mv_recv_buf)

TypeOK ==
    /\ lens \in Traffic
    /\ coming \in [Conns -> Unit]
    /\ stage \in {"idle", "copy", "scan"} /\ h_link \in Conns \cup {NoLink}
    /\ mv_recv_buf \in Seq(Unit) /\ ui_size \in 0 .. Size /\ ui_data_offset \in 0 .. Size
    /\ out \in Seq([to : Conns, units : Seq(Unit)])
    /\ \A i \in DOMAIN out : Len(out[i].units) >= HeaderLen
    /\ torn \subseteq Conns \X (Nat \ {0}) /\ passed \subseteq Conns \X (Nat \ {0})
    /\ short \in BOOLEAN /\ mixed \in BOOLEAN /\ astray \in BOOLEAN

(* The units of a connection, one after the other.                         *)
UnitOf(l, k, i) == [link |-> l, packet |-> k, pos |-> i]
NextUnit(u) ==
    IF u.pos < lens[u.link][u.packet] THEN [u EXCEPT !.pos = @ + 1]
    ELSE UnitOf(u.link, u.packet + 1, 1)
PacketOf(l, k) == [i \in 1 .. lens[l][k] |-> UnitOf(l, k, i)]

Init ==
    /\ lens \in Traffic
    /\ coming = [l \in Conns |-> UnitOf(l, 1, 1)]
    /\ stage = "idle" /\ h_link = NoLink /\ ui_size = 0
    /\ mv_recv_buf = <<>> /\ ui_data_offset = 0 /\ out = <<>>
    /\ short = FALSE /\ torn = {} /\ passed = {} /\ mixed = FALSE /\ astray = FALSE

-----------------------------------------------------------------------------
(* on_tcp_recv_data( h_link, p_data, ui_size )                             *)

(* The chunk is copied behind what is left; of how many units it is, TCP   *)
(* decides.                                                                *)
Copy(l) ==
    /\ stage = "idle" \/ (stage = "copy" /\ h_link = l)
    /\ coming[l].packet \in DOMAIN lens[l]
    /\ stage' = "copy" /\ h_link' = l /\ ui_size' = ui_size + 1
    /\ mv_recv_buf' = Append(mv_recv_buf, coming[l])
    /\ coming' = [coming EXCEPT ![l] = NextUnit(@)]
    /\ mixed' = (mixed \/ \E i \in DOMAIN mv_recv_buf : mv_recv_buf[i].link # l)
    /\ UNCHANGED <<lens, ui_data_offset, out, short, torn, passed, astray>>

(* The two early returns: the chunk stays in the buffer, unlooked at.      *)
Waits == Size < HeaderLen \/ ui_size < HeaderLen
EndCopy ==
    LET last == mv_recv_buf[Size]
    IN  /\ stage = "copy" /\ ui_size' = 0
        /\ IF Waits THEN stage' = "idle" /\ h_link' = NoLink
           ELSE stage' = "scan" /\ UNCHANGED h_link
        /\ short' = (ui_size < HeaderLen)
        /\ torn' = IF last.pos < MagicLen THEN torn \cup {<<last.link, last.packet>>} ELSE torn
        /\ UNCHANGED <<lens, coming, mv_recv_buf, ui_data_offset, out, passed, mixed, astray>>

-----------------------------------------------------------------------------
(* The while loop.  Four outcomes depend on bytes that are not in the      *)
(* model: past is whether the memory behind the buffer goes on like a      *)
(* magic number, fake whether bytes behind one are like another (no part   *)
(* of A2A22A2A begins a second), junk what a unit that is no length reads  *)
(* as, accepted whether parse_packet has the type and takes the body.      *)

Ahead(n) == mv_recv_buf[ui_data_offset + n]

(* memcmp with the magic number, for which it may read past the end        *)
IsMagic(past, fake) ==
    /\ ui_data_offset < Size
    /\ IF Ahead(1).pos >= HeaderLen THEN fake
       ELSE /\ Ahead(1).pos = 1
            /\ IF ui_data_offset + MagicLen <= Size THEN Ahead(2).pos = 2 ELSE past

TotalLen(junk) ==
    LET u == Ahead(HeaderLen) IN IF u.pos = HeaderLen THEN lens[u.link][u.packet] ELSE junk

OnePacket(units) ==
    /\ Len(units) > 0 /\ units[1].packet \in DOMAIN lens[units[1].link]
    /\ units = PacketOf(units[1].link, units[1].packet)

(* parse_data: more than 0; read_packet takes no less than a header.       *)
Parses(units, accepted) == Len(units) >= HeaderLen /\ accepted

IncompleteFaulty(junk) ==
    ui_data_offset + HeaderLen > Size \/ ui_data_offset + TotalLen(junk) >= Size
(* The header or the body is not there yet.                                *)
Incomplete(junk) ==
    ui_data_offset + HeaderLen > Size \/ ui_data_offset + TotalLen(junk) > Size

KeptFaulty == mv_recv_buf
(* What is left moves to the front.                                        *)
Kept == SubSeq(mv_recv_buf, ui_data_offset + 1, Size)

Keep ==
    /\ mv_recv_buf' = Kept /\ ui_data_offset' = 0
    /\ stage' = "idle" /\ h_link' = NoLink
    /\ UNCHANGED out
Skip ==
    /\ ui_data_offset' = ui_data_offset + 1
    /\ UNCHANGED <<stage, h_link, mv_recv_buf, out>>
Dispatch(units) ==
    /\ ui_data_offset' = ui_data_offset + Len(units)
    /\ out' = Append(out, [to |-> h_link, units |-> units])
    /\ UNCHANGED <<stage, h_link, mv_recv_buf>>

PassFaulty(units) ==
    /\ ui_data_offset' = Size /\ UNCHANGED <<stage, h_link, mv_recv_buf, out>>
    /\ passed' = IF OnePacket(units) THEN passed \cup {<<units[1].link, units[1].packet>>}
                 ELSE passed
(* A whole packet that is not taken is gone: the loop goes on in its body. *)
Pass(units) ==
    /\ Skip
    /\ passed' = IF OnePacket(units) THEN passed \cup {<<units[1].link, units[1].packet>>}
                 ELSE passed

(* One round, or what follows the last.                                    *)
Scan ==
    /\ stage = "scan"
    /\ IF ui_data_offset = Size THEN Keep /\ UNCHANGED <<passed, astray>>
       ELSE \E past, fake, accepted \in BOOLEAN, junk \in {1, HeaderLen, Huge} :
            LET units == SubSeq(mv_recv_buf, ui_data_offset + 1, ui_data_offset + TotalLen(junk))
            IN  /\ IF ~IsMagic(past, fake) THEN Skip /\ UNCHANGED passed
                   ELSE IF Incomplete(junk) THEN Keep /\ UNCHANGED passed
                   ELSE IF Parses(units, accepted) THEN Dispatch(units) /\ UNCHANGED passed
                   ELSE Pass(units)
                /\ astray' = (astray \/ (IsMagic(past, fake) /\ Ahead(1).pos > 1))
    /\ UNCHANGED <<lens, coming, ui_size, short, torn, mixed>>

-----------------------------------------------------------------------------
Next == (\E l \in Conns : Copy(l)) \/ EndCopy \/ Scan

Spec == Init /\ [][Next]_vars

-----------------------------------------------------------------------------
(* Safety.                                                                 *)

Arrived(l, k) == k \in DOMAIN lens[l] /\ k < coming[l].packet
Dispatched(l, k) == \E i \in DOMAIN out : out[i].units = PacketOf(l, k)
Buffered(l, k) ==
    \E o \in 0 .. Size :
        /\ o + lens[l][k] <= Size
        /\ SubSeq(mv_recv_buf, o + 1, o + lens[l][k]) = PacketOf(l, k)

(* No chunk has met what another link has left, and the loop has stopped   *)
(* at no bytes that are no magic number.                                   *)
Straight == ~mixed /\ ~astray

(* As long as that is so, every packet dispatched is one that was sent,    *)
(* whole, for the link that sent it, and those of a link come in the order *)
(* sent, none twice, however the chunks are cut (net-handler.h,            *)
(* on_tcp_recv_data).                                                      *)
IntactAndInOrder ==
    Straight =>
        /\ \A i \in DOMAIN out : OnePacket(out[i].units) /\ out[i].units[1].link = out[i].to
        /\ \A i, j \in DOMAIN out : i < j /\ out[i].to = out[j].to =>
               out[i].units[1].packet < out[j].units[1].packet

(* In the same circumstances the only packets lost are those whose magic   *)
(* number a chunk ended in and those that parse_packet did not take, and   *)
(* only a chunk shorter than a header leaves a packet that has arrived     *)
(* unlooked at: passing over one costs none that comes after it.           *)
LostForCause ==
    Straight /\ stage = "idle" => \A l \in Conns : \A k \in DOMAIN lens[l] :
        Arrived(l, k) => \/ Dispatched(l, k) \/ <<l, k>> \in torn \cup passed
                         \/ Buffered(l, k) /\ short

(* In the same circumstances less than one packet waits, if the last chunk *)
(* was not short: what has been dispatched or passed over is dropped.      *)
BufferIsShort ==
    Straight /\ stage = "idle" /\ ~short => \A i \in DOMAIN mv_recv_buf :
        /\ mv_recv_buf[i].packet = mv_recv_buf[1].packet
        /\ ~Dispatched(mv_recv_buf[i].link, mv_recv_buf[i].packet)
=============================================================================
