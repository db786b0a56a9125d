----------------------------- MODULE MCProtocol -----------------------------
(***************************************************************************)
(* What the packets of the samples hold and how they are written and read, *)
(* added to the sum of Samples as further parts; and larger instances of   *)
(* the server's table, of the UDP peers, of the timers and of the framing. *)
(***************************************************************************)
EXTENDS Samples, TLC

ProtocolParts == Parts \cup {"codec", "md5", "types"}

VARIABLES
    msg, salt, codec_phase, todo, wire, put, got, off, missing, over,
    sample, strw, md5_i, step, val, saved,
    role, code, phase, struct, used, own

Codec1 == INSTANCE Codec WITH phase <- codec_phase, Cap <- 2
Digest == INSTANCE Md5 WITH i <- md5_i
(* Codes next to those of each block, of a request without its kind, BUTT. *)
Types == INSTANCE MsgTypes WITH Unassigned <-
        {0, 12, 27, 37, 61, 77, 91, 110, 133, 153, 16384, 20480 + 2, 32768, 65535}

ASSUME ProtocolAssumption ==
    Codec1!ConstantsOK /\ Types!ConstantsOK

codecVars == <<msg, salt, codec_phase, todo, wire, put, got, off, missing,
    over>>
md5Vars == <<sample, strw, md5_i, step, val, saved>>
typesVars == <<role, code, phase, struct, used, own>>
protocolVars == <<codecVars, md5Vars, typesVars>>

ProtocolInit ==
    /\ part \in ProtocolParts
    /\ PartsInit
    /\ Codec1!Init /\ (part # "codec" => msg = (CHOOSE m \in Codec1!Bodies : TRUE) /\ salt = 0)
    /\ Digest!Init /\ (part # "md5" => sample.size = 1)
    /\ Types!Init /\ (part # "types" => role = "server" /\ code = 0)

-----------------------------------------------------------------------------
SampleNext == Next /\ UNCHANGED protocolVars
CodecNext == /\ part = "codec" /\ Codec1!Next
             /\ UNCHANGED <<vars, md5Vars, typesVars>>
DigestNext == /\ part = "md5" /\ Digest!Next
              /\ UNCHANGED <<vars, codecVars, typesVars>>
TypesNext == /\ part = "types" /\ Types!Next
             /\ UNCHANGED <<vars, codecVars, md5Vars>>

ProtocolNext == SampleNext \/ CodecNext \/ DigestNext \/ TypesNext

ProtocolSpec == ProtocolInit /\ [][ProtocolNext]_<<vars, protocolVars>>

VersionsDef == {<<1, 0>>}
(* One link with three packets of which the lengths differ, the other      *)
(* silent; or one with two and the other with one, which may mix.  Which   *)
(* link is the one is all the same.                                        *)
TrafficDef ==
    LET k == CHOOSE l \in Conns : TRUE
        On(s, t) == [l \in Conns |-> IF l = k THEN s ELSE t]
    IN  {On(s, <<>>) : s \in {<<3, 5, 4>>, <<4, 3, 5>>, <<5, 4, 3>>}} \cup {On(<<3, 3>>, <<3>>)}
Symmetry == Permutations(Clients) \cup Permutations(Pool) \cup Permutations(Peer)

-----------------------------------------------------------------------------
(* A packet that is written is read as it was, or is refused for a reason  *)
(* (Codec).                                                                *)
RoundTrip ==
    part = "codec" =>
        /\ Codec1!TypeOK /\ Codec1!RoundTrip /\ Codec1!TrueSize /\ Codec1!OnlyOverlongIsRefused
        /\ Codec1!ShortIsRefused /\ Codec1!OnlyOverlongIsGarbled

(* The client proves itself with the digest of RFC 1321 (Md5).             *)
DigestIsMd5 ==
    part = "md5" => Digest!TypeOK /\ Digest!IsMd5 /\ Digest!PadsAsRfc /\ Digest!AsciiIsBinary

(* A code has one meaning, and what is parsed or built under it is taken   *)
(* for that by every handler and by send_packet (MsgTypes).                *)
CastIsSound ==
    part = "types" =>
        Types!TypeOK /\ Types!OneMeaning /\ Types!CastIsSound /\ Types!SamplesAgree
=============================================================================
