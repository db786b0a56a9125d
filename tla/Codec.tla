-------------------------------- MODULE Codec --------------------------------
(* One packet from write_packet to read_packet (net-packet.h): the header and *)
(* the body are packed member by member into a vector, the length of the      *)
(* vector is written over the header's total_len, and the other side parses   *)
(* the members back. The sample server parses the requests and packs the      *)
(* answers with the functions of MsgBodies. The far side's are there for the  *)
(* messages the samples exchange; for the others it is outside the repository *)
(* and is taken to keep to the members that comm_typedef.h declares           *)
(* (MsgLayouts). A client of another version may end its body early, after    *)
(* any member.                                                                *)
(*                                                                            *)
(* Bytes differ from each other enough to tell members and their order apart. *)
(* Lengths and counts go from 0 to one more than Cap, and the limits of the   *)
(* arrays are cut down to Cap.                                                *)
EXTENDS MsgBodies, MsgLayouts

CONSTANT Cap          \* bound: what the longest array holds
ConstantsOK == Cap \in Nat \ {0}

VARIABLES msg,        \* the message, one of Bodies
          salt,       \* varies the lengths
          phase,      \* pack, parse; then accepted, refused, garbled, undefined
          todo,       \* kinds of the members still to pack or parse
          wire,       \* the vector of bytes
          put, got,   \* values packed and parsed, a count for a group
          off,        \* bytes parsed
          missing,    \* kinds the sender left out
          over        \* a member is longer than its reader takes
vars == <<msg, salt, phase, todo, wire, put, got, off, missing, over>>
fixed == <<msg, salt>>

Limit(k) == IF k.size < Cap THEN k.size ELSE Cap
Length == (salt + Len(put)) % (Cap + 2)
Bytes(n) == [j \in 1..n |-> 1 + ((16 * Len(put) + j) % 120)]

\* ms_endian
Turned(b) == [j \in DOMAIN b |-> b[Len(b) + 1 - j]]
OnWire(k, b) == IF k.class = "int" THEN Turned(b) ELSE b
NumFaulty(n) == Turned(<<n, 0, 0, 0>>)
Num(n) == Turned(<<n % 256, (n \div 256) % 256, n \div 65536, 0>>)
Number(b) == LET h == Turned(b) IN h[1] + 256 * h[2] + 65536 * h[3]

Repeated(of, n) == [i \in 1..(n * Len(of)) |-> of[1 + ((i - 1) % Len(of))]]

-----------------------------------------------------------------------------
(* The two sides                                                             *)

\* Where comm_typedef.h declares a message by this name
OtherName == [
    HeartReq |-> "HeartBeatReq", XMLReq |-> "XmlReq", XMLResp |-> "XmlResp",
    PlayReq |-> "VodPlayReq", PlayResp |-> "VodPlayResp", VIDStopReq |-> "VodStopReq",
    ReserveHardCapacityReq |-> "SetReserveHardCapacityReq",
    RailDirectReq |-> "RailDirectCommReq", SetRailSpeedReq |-> "RailSetSpeedReq",
    BSetCruiseReq |-> "SetCruiseReq", BSetCruiseResp |-> "SetCruiseResp",
    LiveGetClrIdxResp |-> "GetClrIdxResp", GetAllAnaReq |-> "PresetGetAllAnaReq",
    GetAllAnaResp |-> "PresetGetAllAnaResp"]

\* Messages declared another way than they are packed or parsed: a member was
\* added, an array became a string or a port number, a length was dropped. Of
\* these the far side is taken to know the codec.
Differ == {"XMLResp", "AlarmPicListReq", "SetPicInfoReq", "GetEPicInfoResp", "GetPicResp",
           "SlideSetReq", "SlideDelReq"}

\* The result that a declared answer has of its own is the header's i_ret, which
\* it has become (comm_typedef.h, CommResp_S).
DeclaredOf(m) ==
    LET name == IF m.name \in DOMAIN OtherName THEN OtherName[m.name] ELSE m.name
    IN  {l \in Declared : l.name = name /\ m.name \notin Differ}

\* A struct does not say how what is counted is counted, nor whether an array
\* of bytes is sent with its end: there the codec's kind is taken, if it is one
\* that fits.
Fits(d, k) == \/ d = Counted /\ k.class \in {"string", "text", "buffer", "list", "array", "twice"}
              \/ d = Raw(k.size) /\ k.class \in {"rest", "whole", "cstr"}
MemberOf(d, k) == IF Fits(d, k) THEN k ELSE IF d = Counted THEN Str ELSE d

FarFields(m) ==
    IF m.far # <<>> THEN m.far
    ELSE IF DeclaredOf(m) = {} THEN m.fields
    ELSE LET l == CHOOSE l \in DeclaredOf(m) : TRUE
         IN  [i \in DOMAIN l.fields |->
                MemberOf(l.fields[i], IF i \in DOMAIN m.fields THEN m.fields[i] ELSE U1)]

Packed(m) == PackedHeader \o (IF m.by = "server" THEN m.fields ELSE FarFields(m))
Parsed(m) == ParsedHeader \o (IF m.by = "client" THEN m.fields ELSE FarFields(m))

Init ==
    /\ msg \in Bodies /\ salt \in 0..(Cap + 1)
    /\ phase = "pack" /\ todo = Packed(msg)
    /\ wire = <<>> /\ put = <<>> /\ got = <<>> /\ off = 0
    /\ missing = <<>> /\ over = FALSE
-----------------------------------------------------------------------------
(* Packing                                                                   *)

Packing(classes) == phase = "pack" /\ todo # <<>> /\ Head(todo).class \in classes

Put(v, bytes, more, long) ==
    /\ put' = Append(put, v) /\ wire' = wire \o bytes
    /\ todo' = more \o Tail(todo) /\ over' = (over \/ long)
    /\ UNCHANGED <<fixed, phase, got, off, missing>>

\* pack_resp of an integer, a float, an array of a fixed size
PackFixed ==
    /\ Packing({"int", "flat"})
    /\ LET v == Bytes(Head(todo).size) IN Put(v, OnWire(Head(todo), v), <<>>, FALSE)

\* mutant: the NUL is not in the length
PackStringFaulty ==
    /\ Packing({"string", "text", "buffer"})
    /\ LET k == Head(todo)
           v == Bytes(Length)
           b == IF k.class = "text" THEN Append(v, 0) ELSE v
       IN  Put(v, Num(Len(v)) \o b, <<>>, k.class = "buffer" /\ Length > Limit(k))

\* pack_resp of a string, of one with its NUL, of a buffer after its length
PackString ==
    /\ Packing({"string", "text", "buffer"})
    /\ LET k == Head(todo)
           v == Bytes(Length)
           b == IF k.class = "text" THEN Append(v, 0) ELSE v
       IN  Put(v, Num(Len(b)) \o b, <<>>, k.class = "buffer" /\ Length > Limit(k))

\* mutant: a full array is taken for an overlong one
RefusesFaulty(k) == msg.by = "server" /\ k.class \in {"array", "rest"} /\ Length >= Limit(k)

\* an answer checks what it packs itself, a client's packet is checked here
Refuses(k) == msg.by = "server" /\ k.class \in {"array", "rest"} /\ Length > Limit(k)

\* pack_resp of what has no length: a peer sends a name with the array's zeros
PackRest ==
    /\ Packing({"rest", "whole", "cstr"})
    /\ ~Refuses(Head(todo))
    /\ LET k == Head(todo)
           n == IF k.class = "cstr" /\ Length > Limit(k) THEN Limit(k) ELSE Length
           pad == IF k.class = "cstr" THEN [j \in 1..(Limit(k) - n) |-> 0] ELSE <<>>
       IN  Put(Bytes(n), Bytes(n) \o pad, <<>>,
               \/ k.class = "rest" /\ n > Limit(k)
               \/ k.class = "cstr" /\ n = Limit(k))

\* pack_resp of an array, a list, a vector, a map or a set: the count, then
\* the elements
PackGroup ==
    /\ Packing({"array", "list"})
    /\ ~Refuses(Head(todo))
    /\ LET k == Head(todo)
       IN  Put(<<Length>>, Num(Length), Repeated(k.of, Length),
               k.class = "array" /\ Length > Limit(k))

\* a count above the limit ends write_packet after the count is written;
\* send_packet does not look at its result and sends what there is
PackFails ==
    /\ phase = "pack" /\ todo # <<>> /\ Refuses(Head(todo))
    /\ wire' = IF Head(todo).class = "array" THEN wire \o Num(Length) ELSE wire
    /\ phase' = "garbled" /\ over' = (over \/ Length > Limit(Head(todo)))
    /\ UNCHANGED <<fixed, todo, put, got, off, missing>>

\* CmdCruise: the length turned round by htonl is what measures the alias and
\* the presets. Only 0 is still itself: another number of presets is above the
\* limit, another length reads far beyond the alias
PackTwice ==
    /\ Packing({"twice"})
    /\ IF Length = 0 THEN Put(<<0>>, Num(0), <<>>, FALSE)
       ELSE /\ phase' = IF Head(todo).of = <<>> THEN "undefined" ELSE "garbled"
            /\ wire' = wire \o Turned(Num(Length))
            /\ UNCHANGED <<fixed, todo, put, got, off, missing, over>>

\* mutant: the size of the body
SendFaulty ==
    /\ phase = "pack" /\ Len(put) >= Len(PackedHeader)
    /\ todo = <<>> \/ msg.by = "client"
    /\ wire' = SubSeq(wire, 1, 8) \o Num(Len(wire) - 20) \o SubSeq(wire, 13, Len(wire))
    /\ phase' = "parse" /\ missing' = todo /\ todo' = Parsed(msg)
    /\ UNCHANGED <<fixed, put, got, off, over>>

\* write_packet_size; a client may end the body after any member
Send ==
    /\ phase = "pack" /\ Len(put) >= Len(PackedHeader)
    /\ todo = <<>> \/ msg.by = "client"
    /\ wire' = SubSeq(wire, 1, 8) \o Num(Len(wire)) \o SubSeq(wire, 13, Len(wire))
    /\ phase' = "parse" /\ missing' = todo /\ todo' = Parsed(msg)
    /\ UNCHANGED <<fixed, put, got, off, over>>
-----------------------------------------------------------------------------
(* Parsing; parse_data gives read_packet total_len for a size                *)

Size == Number(SubSeq(wire, 9, 12))
Left == Size - off
Next4 == Number(SubSeq(wire, off + 1, off + 4))
FirstNuls == {n \in 0..Left : (\A j \in 1..n : wire[off + j] # 0)
                              /\ (n < Left => wire[off + n + 1] = 0)}
\* strlen of bytes that hold no NUL goes on behind the packet
StrLen == LET n == CHOOSE n \in FirstNuls : TRUE IN IF n = Left THEN {n, n + 1} ELSE {n}

\* mutant: a full buffer is refused
TakesFaulty(k) ==
    {n \in CASE k.class \in {"int", "flat"}      -> {k.size}
             [] k.class \in {"string", "text"}   -> IF Left < 4 THEN {} ELSE {4 + Next4}
             [] k.class = "buffer" -> IF Left < 4 THEN {} ELSE {4 + m : m \in {Next4} \cap 0..(Limit(k) - 1)}
             [] k.class \in {"list", "twice"}    -> {4}
             [] k.class = "array" -> IF Left < 4 \/ Next4 > Limit(k) THEN {} ELSE {4}
             [] k.class = "rest"                 -> {Left} \cap 0..Limit(k)
             [] k.class = "whole"                -> {Left}
             [] k.class = "cstr"                 -> StrLen : n <= Left}

\* the bytes a member may take; none when there is no room or it is too long
Takes(k) ==
    {n \in CASE k.class \in {"int", "flat"}      -> {k.size}
             [] k.class \in {"string", "text"}   -> IF Left < 4 THEN {} ELSE {4 + Next4}
             [] k.class = "buffer" -> IF Left < 4 THEN {} ELSE {4 + m : m \in {Next4} \cap 0..Limit(k)}
             [] k.class \in {"list", "twice"}    -> {4}
             [] k.class = "array" -> IF Left < 4 \/ Next4 > Limit(k) THEN {} ELSE {4}
             [] k.class = "rest"                 -> {Left} \cap 0..Limit(k)
             [] k.class = "whole"                -> {Left}
             [] k.class = "cstr"                 -> StrLen : n <= Left}

Parsing == phase = "parse" /\ todo # <<>>

Get(v, n, more) ==
    /\ got' = Append(got, v) /\ off' = off + n /\ todo' = more \o Tail(todo)
    /\ UNCHANGED <<fixed, phase, wire, put, missing, over>>

\* parse_req of one member: the bytes in memory, a text up to its NUL
ParseMember ==
    /\ Parsing /\ Head(todo).class \notin {"list", "array", "twice"}
    /\ \E n \in Takes(Head(todo)) :
          LET k == Head(todo)
              b == SubSeq(wire, off + 1, off + n)
          IN  Get(CASE k.class \in {"int", "flat"} -> OnWire(k, b)
                    [] k.class \in {"string", "buffer"} -> SubSeq(b, 5, n)
                    [] k.class = "text" -> SelectSeq(SubSeq(b, 5, n), LAMBDA c : c # 0)
                    [] OTHER -> b, n, <<>>)

\* parse_req of a group: the count, then as many elements
ParseGroup ==
    /\ Parsing /\ Head(todo).class \in {"list", "array", "twice"}
    /\ \E n \in Takes(Head(todo)) : Get(<<Next4>>, n, Repeated(Head(todo).of, Next4))

\* mutant: nobody looks at the results
ParseLaxFaulty ==
    /\ Parsing /\ Takes(Head(todo)) = {}
    /\ todo' = Tail(todo)
    /\ UNCHANGED <<fixed, phase, wire, put, got, off, missing, over>>

\* the maps and sets do not look at the results of parse_req
ParseLax ==
    /\ Parsing /\ Head(todo).lax /\ Takes(Head(todo)) = {}
    /\ todo' = Tail(todo)
    /\ UNCHANGED <<fixed, phase, wire, put, got, off, missing, over>>

Refuse ==
    /\ Parsing /\ ~Head(todo).lax
    /\ \/ Takes(Head(todo)) = {}
       \/ Head(todo).class = "cstr" /\ \E n \in StrLen : n > Left
    /\ phase' = "refused"
    /\ UNCHANGED <<fixed, todo, wire, put, got, off, missing, over>>

Accept ==
    /\ phase = "parse" /\ todo = <<>>
    /\ phase' = "accepted"
    /\ UNCHANGED <<fixed, todo, wire, put, got, off, missing, over>>

Next == PackFixed \/ PackString \/ PackRest \/ PackGroup \/ PackFails \/ PackTwice \/ Send
        \/ ParseMember \/ ParseGroup \/ ParseLax \/ Refuse \/ Accept

Spec == Init /\ [][Next]_vars
-----------------------------------------------------------------------------
TypeOK ==
    /\ msg \in Bodies /\ salt \in 0..(Cap + 1)
    /\ phase \in {"pack", "parse", "accepted", "refused", "garbled", "undefined"}
    /\ \A i \in DOMAIN wire : wire[i] \in 0..255
    /\ off \in 0..Len(wire) /\ over \in BOOLEAN
    /\ missing # <<>> => msg.by = "client"

\* A whole packet that is accepted gives back every member that was packed
\* (total_len is the size instead), and nothing is left of it but the zeros
\* behind a name: what one side's function packs the other's parses, in order,
\* width and byte order, whether both are in net-packet.h or one side keeps to
\* comm_typedef.h.
RoundTrip ==
    (phase = "accepted" /\ missing = <<>>) =>
        /\ [got EXCEPT ![3] = put[3]] = put
        /\ \A i \in (off + 1)..Len(wire) : wire[i] = 0

\* The total_len a packet is sent with is the number of its bytes, so that the
\* receiver finds the next packet (write_packet_size).
TrueSize == phase \in {"parse", "accepted", "refused"} => Size = Len(wire)

\* Only a body with a member longer than its array is refused when nothing is
\* missing, and such a body is never accepted, but for a name without a NUL.
OnlyOverlongIsRefused ==
    missing = <<>> => /\ phase = "refused" => over
                      /\ (phase = "accepted" /\ over) => msg.fields[1].class = "cstr"

\* A body that ends early is accepted only when nothing but maps, sets, their
\* elements and bytes without a length are missing: their readers cannot tell.
ShortIsRefused ==
    phase = "accepted" =>
        \A i \in DOMAIN missing : missing[i].lax \/ missing[i].class \in {"rest", "cstr"}

\* An answer is sent without its size and its end only when an array of it is
\* overlong, or when it lists a cruise with an alias or presets, which cannot be
\* packed at all (the lengths of CmdCruise are turned round before use).
OnlyOverlongIsGarbled ==
    phase \in {"garbled", "undefined"} => over \/ msg.name = "GetCruiseInfoResp"
=============================================================================
