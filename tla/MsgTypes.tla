------------------------------- MODULE MsgTypes -------------------------------
(* The codes of the messages (comm_typedef.h) and what the samples do with     *)
(* them. msg_type is all that tells what a packet is: parse_packet takes the   *)
(* struct to make from it, a handler casts the header to a struct by it, and   *)
(* send_packet casts to a struct by it again to write the packet.              *)
(* A definition named ...Faulty is the one after it with a bug seeded.         *)
EXTENDS Naturals, Sequences, TLC

CONSTANT Unassigned     \* codes without a meaning that may come as well

MSG_TYPE_RESP_OFFSET == 32768
BUTT == 65535
ConstantsOK == Unassigned \subseteq 0..BUTT

BlockFaulty(first, names) == {[name |-> names[j], code |-> first * j] : j \in DOMAIN names}
Block(first, names) == {[name |-> names[j], code |-> first + j - 1] : j \in DOMAIN names}

(* Requests up to the accounts, and from the alarm conditions on               *)
FirstRequests ==
    Block(\h0001, <<"VER_NEGO", "LINK_AUTH", "LINK_HEART", "LINK_REL", "XML_DATA",
         "VID_DATA_PLAY", "VID_DATA_STOP", "VID_KEY_DATA_PLAY", "VID_KEY_DATA_STOP",
         "VID_SUB_STREAM_PLAY", "VID_SUB_STREAM_STOP">>)
    \cup Block(\h0010, <<"REPLAY_SETUP", "REPLAY_PLAY", "REPLAY_PAUSE", "REPLAY_RESUME",
         "REPLAY_STOP", "REPLAY_FRAME", "REPLAY_HEART", "REPLAY_PRESET_LIST",
         "SET_REPLAY_NUM", "SET_RESERVE_HARD_CAPACITY", "REPLAY_PLAY_INIT">>)
    \cup Block(\h0020, <<"GROUP_CFG_ADD", "GROUP_CFG_DEL", "GROUP_CFG_CHG",
         "SET_CRUISE_RESTART_FLAG", "GET_CRUISE_RESTART_FLAG">>)
    \cup Block(\h0030, <<"IR_ANALYSE_ADD", "IR_ANALYSE_DEL", "IR_FOCUS_OUT", "IR_FOCUS_IN",
         "IR_TEMP_CHK", "VISI_FOCUS_INC", "VISI_FOCUS_INC_STOP", "VISI_FOCUS_DEC",
         "VISI_FOCUS_DEC_STOP", "IR_ANALYSE_LOAD", "PRIVATE_ANALYSE_ALARM_CONDITION_SET",
         "PRIVATE_ANALYSE_ALARM_CONDITION_DEL", "PRIVATE_ANALYSE_ALARM_CONDITION_RELOAD">>)
    \cup Block(\h0040, <<"RAIL_CTRL_SET", "RAIL_CTRL_CALL_BACK", "RAIL_CTRL_DEL_PRESET",
         "RAIL_CTRL_STEP_LEFT", "RAIL_CTRL_STEP_RIGHT", "RAIL_CTRL_LEFT", "RAIL_CTRL_RIGHT",
         "RAIL_CTRL_STOP", "RAIL_CTRL_TO_SET_POINT", "RAIL_CTRL_TO_DISTANCE",
         "RAIL_CTRL_SET_SPEED", "RAIL_CTRL_CHK_INFO", "RAIL_CTRL_CUR_POS">>)
    \cup Block(\h004f, <<"RAIL_CTRL_INFO_TRANS", "GET_LIVE_COLOR_IDX", "SET_LIVE_COLOR_IDX",
         "SET_LIVE_ADJUST_RANGE", "SET_LIVE_ADJUST_TYPE", "GET_REPLAY_COLOR_IDX",
         "SET_REPLAY_COLOR_IDX", "SET_REPLAY_ADJUST_RANGE", "SET_REPLAY_ADJUST_TYPE",
         "REPLAY_ANALYSE_ADD", "REPLAY_ANALYSE_DEL", "REPLAY_GET_JPG_ON_TIME">>)
    \cup Block(\h0060, <<"PLATFORM_LEFT", "PLATFORM_RIGHT", "PLATFORM_UP", "PLATFORM_DOWN",
         "PLATFORM_LEFT_UP", "PLATFORM_RIGHT_UP", "PLATFORM_LEFT_DOWN", "PLATFORM_RIGHT_DAWN",
         "PLATFORM_STOP", "PLATFORM_SET_PRESET", "PLATFORM_SET_SPEED", "PLATFORM_TO_PRESET",
         "PLATFORM_DEL_PRESET", "PLATFORM_CRUISE">>)
    \cup Block(\h0070, <<"GET_CRUISE_INFO", "GET_PRESET_INFO", "CHANGE_CRUISE_INFO",
         "DEL_CRUISE_INFO", "SET_JPG_INFO", "GET_JPG_INFO", "DEL_JPG_INFO", "START_CRUISE",
         "STOP_CRUISE", "SET_PRESET", "DEL_PRESET", "TO_PRESET", "PRESET_ANA_ADD",
         "PRESET_ANA_CHG", "PRESET_ANA_DEL", "MOD_PRESET", "ADD_ACCOUNT",
         "CHG_ACCOUNT_PREMISSION", "CHG_ACCOUNT_PASSWORD", "DEL_ACCOUNT", "QUERY_ACCOUNT">>)
LaterRequests ==
    Block(\h0090, <<"SET_ALARM_CONDITION", "GET_ALARM_CONDITION", "ALARM_PIC_LIST",
         "ALARM_PIC_GET", "RECORD_CONDITION", "RECORD_CONDITION_GET", "DEL_ALARM_CONDITION",
         "TIMER_PIC_GET", "DEV_GET_CUR_PIC">>)
    \cup Block(\h0100, <<"GET_CUR_CRUISE_INFO">>)
    \cup Block(\h0110, <<"FRAME_ANA_ADD", "FRAME_ANA_DEL", "FRAME_CLR_SET",
         "FRAME_ADJUST_RANGE", "FRAME_ADJUST_TYPE", "FRAME_SET_RADIATION",
         "FRAME_SET_DISTANCE", "FRAME_SET_ENVIRONMENT_TEMP", "FRAME_SET_OPPOHITE_HUMIDITY">>)
    \cup Block(\h0120, <<"SET_JPG", "SET_E_PIC", "SET_E_PIC_INFO", "GET_E_PIC_LIST",
         "GET_E_PIC_INFO", "DEL_E_PIC">>)
    \cup Block(\h0130, <<"START_FIXED_POINT_CRUISE", "STOP_FIXED_POINT_CRUISE",
         "REPLAY_FIXED_POINT_CRUISE_LIST", "GET_FIXED_POINT_CRUISE_STATE">>)
    \cup Block(\h0138, <<"PICTURE_SET_RADIATION", "PICTURE_SET_DISTANCE",
         "PICTURE_SET_ENVIRONMENT_TEMP", "PICTURE_SET_OPPOHITE_HUMIDITY",
         "PICTURE_GET_RADIATION", "PICTURE_GET_DISTANCE", "PICTURE_GET_ENVIRONMENT_TEMP",
         "PICTURE_GET_OPPOHITE_HUMIDITY", "RLY_SET_RADIATION", "RLY_SET_DISTANCE",
         "RLY_SET_ENVIRONMENT_TEMP", "RLY_SET_OPPOHITE_HUMIDITY", "RLY_GET_RADIATION",
         "RLY_GET_DISTANCE", "RLY_GET_ENVIRONMENT_TEMP", "RLY_GET_OPPOHITE_HUMIDITY">>)
    \cup Block(\h0150, <<"SLIDE_SET", "SLIDE_DEL">>)
    \cup Block(\h0160, <<"GET_ANALYS_TEMP">>)
    \cup Block(\h0165, <<"CURVE_UP_FRAME", "CURVE_DOWN_FRAME">>)
    \cup Block(\h016f, <<"GET_TIME">>)
    \cup Block(\h0200, <<"28181_QUERY_DEVICE_INFO">>)
    \cup Block(\h0204, <<"28181_DEVICE_BOOT", "28181_SEND_FRAME", "28181_STOP_SEND_FRAME">>)
Requests == FirstRequests \cup LaterRequests

(* An answer has the name of its request, and its code and the offset.         *)
AnswersFaulty == {[r EXCEPT !.code = @ + 256] : r \in Requests}
Answers == {[r EXCEPT !.code = @ + MSG_TYPE_RESP_OFFSET] : r \in Requests}

Notices ==
    Block(\h5000, <<"CLI_LOGOUT", "VID_ERR">>)
    \cup Block(\h5010, <<"ARRIVAL_PRESET", "LEAVE_PRESET", "CRUISE_STOP", "CRUISE_START",
         "DELETE_PRESET", "START_FIXED_POINT_CRUISE", "STOP_FIXED_POINT_CRUISE",
         "PICTURE_SET_RADIATION", "PICTURE_SET_DISTANCE", "PICTURE_SET_ENVIRONMENT_TEMP",
         "PICTURE_SET_OPPOHITE_HUMIDITY", "LINK_DISCONNECT", "SET_CRUISE_RESTART_FLAG",
         "SET_INFRA_RECORD_CONDITION">>)
    \cup Block(\h5020, <<"ADD_GROUP", "CHG_GROUP", "DEL_GROUP", "GET_GROUP_CRUISE_INFO",
         "GET_XML">>)
    \cup Block(\h5030, <<"NOTICE_CUR_DEV_PIC">>)
    \cup Block(\h5050, <<"28181_ALARM_NOTIFY">>)

Kinds == [request |-> Requests, answer |-> Answers, notice |-> Notices]
Codes == UNION {{m.code : m \in Kinds[kind]} : kind \in DOMAIN Kinds}
CodeOf(kind, name) == (CHOOSE m \in Kinds[kind] : m.name = name).code
VerReq == CodeOf("request", "VER_NEGO")
VerResp == CodeOf("answer", "VER_NEGO")
AuthReq == CodeOf("request", "LINK_AUTH")
AuthResp == CodeOf("answer", "LINK_AUTH")

-------------------------------------------------------------------------------
(* The tables of the samples, from a code to a struct. A code that is not in   *)
(* one takes its default.                                                      *)

(* parse_packet: the struct it makes and reads the body into                   *)
ParsedAs == (VerReq :> "MSVerReq_S") @@ (VerResp :> "MSCommResp_S")
            @@ (AuthReq :> "MSAuthReq_S") @@ (AuthResp :> "MSAuthResp_S")

(* the casts of the handlers                                                   *)
ServerHandles == (VerReq :> "MSVerReq_S") @@ (AuthReq :> "MSAuthReq_S")
ClientHandles == (VerResp :> "MSCommResp_S") @@ (AuthResp :> "MSAuthResp_S")
UdpHandles == ServerHandles @@ (VerResp :> "MSCommResp_S") @@ (AuthResp :> "MSAuthResp_S")

(* the casts of send_packet                                                    *)
ServerWritesFaulty == (VerResp :> "MSCommResp_S") @@ (AuthResp :> "MSCommResp_S")
ServerWrites == (VerResp :> "MSCommResp_S") @@ (AuthResp :> "MSAuthResp_S")
ClientWrites == (VerReq :> "MSVerReq_S") @@ (AuthReq :> "MSAuthReq_S")
UdpWritesFaulty == ClientWrites @@ (VerResp :> "MSCommResp_S")
UdpWrites == ClientWrites @@ (VerResp :> "MSCommResp_S") @@ (AuthResp :> "MSAuthResp_S")

Handles == [server |-> ServerHandles, client |-> ClientHandles, udp |-> UdpHandles]
Writes == [server |-> ServerWrites, client |-> ClientWrites, udp |-> UdpWrites]
PeerOf == [server |-> "client", client |-> "server", udp |-> "udp"]

(* What a handled message makes its handler build: the code and the struct.    *)
(* Answers to a request, and the client's next request, if it agrees           *)
ServerReacts == (VerReq :> <<VerResp, "MSCommResp_S">>) @@ (AuthReq :> <<AuthResp, "MSAuthResp_S">>)
ClientReacts == (VerResp :> <<AuthReq, "MSAuthReq_S">>)
Reacts == ServerReacts @@ ClientReacts

-------------------------------------------------------------------------------
VARIABLES role,     \* the sample the packet is at
          code,     \* its msg_type
          phase,    \* arrived, parsed, handled, built, written; unknown, ignored, unsent, ended
          struct,   \* what the packet is in memory
          used,     \* what the code in work takes it for
          own       \* whether a sample sent it
vars == <<role, code, phase, struct, used, own>>

Structs == {"none", "MSVerReq_S", "MSCommResp_S", "MSAuthReq_S", "MSAuthResp_S"}
TypeOK ==
    /\ role \in DOMAIN Handles /\ code \in 0..BUTT /\ own \in BOOLEAN
    /\ phase \in {"arrived", "parsed", "handled", "built", "written",
                  "unknown", "ignored", "unsent", "ended"}
    /\ struct \in Structs /\ used \in Structs

Init ==
    /\ role \in DOMAIN Handles /\ code \in Codes \cup Unassigned
    /\ phase = "arrived" /\ struct = "none" /\ used = "none" /\ own = FALSE

(* The cases of a switch: in the table, or the default                         *)
Switch(from, table, found, otherwise) ==
    /\ phase = from
    /\ phase' = IF code \in DOMAIN table THEN found ELSE otherwise

ParsePacket ==
    /\ Switch("arrived", ParsedAs, "parsed", "unknown")
    /\ struct' = IF code \in DOMAIN ParsedAs THEN ParsedAs[code] ELSE "none"
    /\ UNCHANGED <<role, code, used, own>>

RecvData ==
    /\ Switch("parsed", Handles[role], "handled", "ignored")
    /\ used' = IF code \in DOMAIN Handles[role] THEN Handles[role][code] ELSE used
    /\ UNCHANGED <<role, code, struct, own>>

React ==
    /\ phase = "handled"
    /\ \/ /\ code \in DOMAIN Reacts /\ phase' = "built"
          /\ code' = Reacts[code][1] /\ struct' = Reacts[code][2] /\ used' = "none"
       \/ code \notin DOMAIN ServerReacts /\ phase' = "ended" /\ UNCHANGED <<code, struct, used>>
    /\ UNCHANGED <<role, own>>

SendPacket ==
    /\ Switch("built", Writes[role], "written", "unsent")
    /\ used' = IF code \in DOMAIN Writes[role] THEN Writes[role][code] ELSE used
    /\ UNCHANGED <<role, code, struct, own>>

(* The packet comes to the other side.                                         *)
Travel ==
    /\ phase = "written" /\ phase' = "arrived" /\ role' = PeerOf[role]
    /\ struct' = "none" /\ used' = "none" /\ own' = TRUE /\ UNCHANGED code

Next == ParsePacket \/ RecvData \/ React \/ SendPacket \/ Travel

Spec == Init /\ [][Next]_vars

-------------------------------------------------------------------------------
Meanings(kind) == {m \in Kinds[kind] : m.code = code}

(* A code has one meaning: no two requests, answers or notices share it.       *)
OneMeaning ==
    \A k1, k2 \in DOMAIN Kinds : \A m1 \in Meanings(k1), m2 \in Meanings(k2) :
        k1 = k2 /\ m1 = m2

(* A packet is cast to nothing but what it is: the handlers' casts agree with  *)
(* what parse_packet makes, and those of send_packet with what is built. The   *)
(* casts are from MsgHeader_S and nothing in the language checks them.         *)
CastIsSound == used \in {"none", struct}

(* What a sample builds it can write, and its peer parses and handles: none    *)
(* of the switches has forgotten a message of the exchange.                    *)
SamplesAgree == (own \/ phase \in {"built", "unsent"}) => phase \notin {"unknown", "ignored", "unsent"}
===============================================================================
