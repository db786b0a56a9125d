------------------------------ MODULE MsgBodies ------------------------------
(* The bodies of the messages (net-packet.h): for each MS...Body_S, in the    *)
(* order of the file, the members in the order its parse_req or pack_resp     *)
(* takes them, which is not always the order of its declaration.              *)
EXTENDS WireKinds

\* A request is packed by a client and parsed here, an answer the other way.
\* Of most the file has one of the two functions: the fields are those it
\* takes, and far is empty, for what the other side takes is not in the file.
Message(name, by, fields, far) == [name |-> name, by |-> by, fields |-> fields, far |-> far]
Request(name, fields) == Message(name, "client", fields, <<>>)
Answer(name, fields) == Message(name, "server", fields, <<>>)

\* the header leads every message: what pack_resp writes, what parse_req reads;
\* an answer without a body of its own has the empty one
PackedHeader == <<U4, U4, U4, U4, U4>>
ParsedHeader == <<U4, U4, U4, U4, U4>>
EmptyBodies == { Answer("CommResp", <<>>) }

\* mutant: the digest is read before the name
ExchangedBodiesFaulty == {
    Message("VerReq", "client", <<U4, U4>>, <<U4, U4>>),
    Message("AuthReq", "client", <<Raw(16), Raw(32), U4, U4, U4>>, <<Raw(32), Raw(16), U4, U4, U4>>),
    Message("AuthResp", "server", <<U4, U4, U8, Bag(<<U4, U8>>), Str>>,
            <<U4, U4, U8, Bag(<<U4, U8>>), Str>>) }

\* version and authentication, which the samples exchange: both functions are
\* in the file, the far side's members come last
ExchangedBodies == {
    Message("VerReq", "client", <<U4, U4>>, <<U4, U4>>),
    Message("AuthReq", "client", <<Raw(32), Raw(16), U4, U4, U4>>, <<Raw(32), Raw(16), U4, U4, U4>>),
    Message("AuthResp", "server", <<U4, U4, U8, Bag(<<U4, U8>>), Str>>,
            <<U4, U4, U8, Bag(<<U4, U8>>), Str>>) }

\* heartbeat, XML
LinkBodies == {
    Request("HeartReq", <<U4>>),
    Request("XMLReq", <<U4>>), Answer("XMLResp", <<Whole(0)>>) }

\* playing, replay, device groups
PlayGroupBodies == {
    Request("PlayReq", <<CStr(128)>>), Answer("PlayResp", <<Whole(1024)>>),
    Request("VIDStopReq", <<CStr(128)>>), Request("ReplaySetNumReq", <<U4>>),
    Request("ReserveHardCapacityReq", <<U4>>), Request("GroupCfgAddReq", <<U4, Txt, Txt>>),
    Answer("GroupCfgAddResp", <<U4>>), Request("GroupCfgDelReq", <<U4>>),
    Request("GroupCfgChgReq", <<U4, U4, Txt, Txt>>) }

\* cruise flag, private analyses, focus
AnalyseBodies == {
    Request("SetCruiseRestartFlagReq", <<U4, U4, U4>>),
    Request("GetCruiseRestartFlagReq", <<U4>>), Answer("GetCruiseRestartFlagResp", <<U4, U4>>),
    Request("AddPrivateAnalyseReq", <<Txt, Bag(<<U4, Txt>>)>>),
    Request("DelPrivateAnalyseReq", <<Str, Bag(<<U4>>)>>), Request("FocusChkReq", <<U4, Txt>>),
    Request("AddPrivateAlarmConditionReq", <<Txt, Bag(<<U4, Txt>>)>>) }

\* private alarms, rail
RailBodies == {
    Request("DelPrivateAlarmConditionReq", <<Str, Bag(<<U4>>)>>),
    Request("RailDirectReq", <<Txt>>), Request("SetRailSpeedReq", <<Txt, U4>>),
    Request("RailChkReq", <<Txt>>), Answer("RailChkResp", <<U4>>),
    Request("RailPosReq", <<Txt>>), Answer("RailPosResp", <<U4, U4, U4>>) }

\* mutant: the length of the condition's text is taken after it
AlarmConditionBodiesFaulty == {
    Request("SetAlarmConditionReq", <<U4, U2, U2, Txt, U4, Txt>>),
    Answer("SetAlarmConditionResp", <<U4>>),
    Request("GetAlarmConditionReq", <<U4, U2, U2, U4>>),
    Answer("GetAlarmConditionResp", <<List(<<U4, Txt, Txt>>)>>) }

\* alarm conditions
AlarmConditionBodies == {
    Request("SetAlarmConditionReq", <<U4, U2, U2, U4, Txt, Txt>>),
    Answer("SetAlarmConditionResp", <<U4>>),
    Request("GetAlarmConditionReq", <<U4, U2, U2, U4>>),
    Answer("GetAlarmConditionResp", <<List(<<U4, Txt, Txt>>)>>) }

\* alarm pictures
AlarmPicBodies == {
    Request("AlarmPicListReq", <<U4, U2, U2, Raw(14), Raw(14), Bag(<<U4>>)>>),
    Answer("AlarmPicListResp", <<List(<<U4, U4, List(<<U4>>)>>)>>),
    Request("AlarmPicGetReq", <<U4, U2, U2, U4, U4, U4>>),
    Answer("AlarmPicGetResp", <<Arr(2, <<U4, Str>>)>>),
    Request("SetRecordConditionReq", <<U4, U2, U2, U4, F4, F4>>) }

\* recording, timed pictures
RecordBodies == {
    Request("GetRecordConditionReq", <<U4, U2, U2>>),
    Answer("GetRecordConditionResp", <<U4, U2, U2, U4, F4, F4>>),
    Request("DelAlarmConditionReq", <<U4, U2, U2, U4>>),
    Request("TimerPicGetReq", <<U4, U4, U4>>),
    Answer("TimerPicGetResp", <<Arr(2, <<U4, Str>>)>>), Request("GetCurCruiseInfoReq", <<U4>>),
    Answer("GetCurCruiseInfoResp", <<U4, U2, U2, U4>>), Request("SetPicInfoReq", <<U4, Str>>) }

\* electronic map
EPicBodies == {
    Answer("GetEPicListResp", <<List(<<U4, Str>>)>>),
    Request("SetEPicReq", <<U4, Buf(127), Str>>), Answer("SetEPicResp", <<U4>>),
    Request("SetEPicInfoReq", <<U4, Str>>), Request("GetEPicInfoReq", <<U4>>),
    Answer("GetEPicInfoResp", <<Str, Str>>), Request("DelEPicReq", <<U4>>) }

\* live picture and platform
LiveBodies == {
    Request("LiveGetClrIdxReq", <<Rest(128)>>), Answer("LiveGetClrIdxResp", <<U4>>),
    Request("LiveSetClrIdxReq", <<U4, Rest(128)>>),
    Request("LiveSetAdjustRangeReq", <<F4, F4, Rest(128)>>),
    Request("LiveSetAdjustTypeReq", <<U4, Rest(128)>>),
    Request("PtzDirectCommReq", <<Buf(64)>>), Request("PlatFormSpeedReq", <<U4, U4>>),
    Request("PlatFormToPresetReq", <<U4, U2, U2>>) }

\* cruises
CruiseInfoBodies == {
    Request("DelPresetReq", <<U4, U2, U2>>), Request("GetCruiseInfoReq", <<U4>>),
    Answer("GetCruiseInfoResp", <<Arr(256, <<Twice(2), Twice(2), TwiceBuf(256), TwiceArr(64, <<U2, U2, U4>>)>>)>>) }

\* presets of a cruise
PresetInfoBodies == {
    Request("GetPresetInfoReq", <<U4>>),
    Answer("GetPresetInfoResp", <<List(<<U2, U2, Txt, List(<<U4, Txt, Txt>>)>>)>>),
    Request("BSetCruiseReq", <<U4, U4, Buf(256), Arr(64, <<U2, U2, U4>>)>>),
    Answer("BSetCruiseResp", <<U4>>), Request("DelCruiseReq", <<U4, U4>>) }

\* cruise pictures
CruisePicBodies == {
    Request("SetPicReq", <<U4, Arr(256, <<U2, U2, U2, U2>>)>>), Request("GetPicReq", <<U4>>),
    Answer("GetPicResp", <<List(<<U2, U2, U2, U2>>), Rest(10485760)>>),
    Request("DelPicReq", <<U4>>), Request("StartCruiseReq", <<U4, U4>>),
    Request("StopCruiseReq", <<U4, U4>>) }

\* presets and their analyses
PresetBodies == {
    Request("PresetReq", <<U4, U2, U2, Txt, List(<<Txt, Txt>>)>>),
    Answer("PresetResp", <<U2, U2>>), Request("PresetAnaAddReq", <<U4, U2, U2, Txt, Txt>>),
    Answer("PresetAnaAddResp", <<U4>>), Request("PresetAnaChgReq", <<U4, U2, U2, U4, Txt, Txt>>) }

\* accounts
AccountBodies == {
    Request("PresetAnaDelReq", <<U4, U2, U2, U4>>), Request("ModPresetReq", <<U4, U2, U2>>),
    Request("AddAccountReq", <<Buf(16), Txt, U4, U8, Bag(<<U4, U8>>), Str>>),
    Request("ChgAccountPremissionReq", <<Buf(16), Txt, U4, U8, Bag(<<U4, U8>>), Str>>),
    Request("ChgAccountPasswdReq", <<Buf(16), Txt, Buf(16)>>) }

\* permissions, fixed-point cruise
PermissionBodies == {
    Request("DelAccountReq", <<Buf(16), Txt>>),
    Request("QueryAccountPremissionReq", <<Txt, U4>>),
    Answer("QueryAccountPremissionResp", <<List(<<Str, U4, U8, List(<<U4, U8>>), Str>>)>>),
    Request("StartFixedPointCruiseReq", <<U4>>), Request("StopFixedPointCruiseReq", <<U4>>),
    Request("GetFixedPointCruiseStateReq", <<U4>>),
    Answer("GetFixedPointCruiseStateResp", <<U4, U4>>) }

\* infrared parameters
InfraredBodies == {
    Request("PicSetRadiationReq", <<U4, F4>>), Request("PicSetDistanceReq", <<U4, F4>>),
    Request("PicSetEnvTempReq", <<U4, F4>>), Request("PicSetOppohiteHumidityReq", <<U4, F4>>),
    Request("PicGetRadiationReq", <<U4>>), Answer("PicGetRadiationResp", <<F4>>),
    Request("PicGetDistanceReq", <<U4>>), Answer("PicGetDistanceResp", <<F4>>),
    Request("PicGetEnvTempReq", <<U4>>), Answer("PicGetEnvTempResp", <<F4>>) }

\* humidity, slide, analyses of a preset
SlideBodies == {
    Request("PicGetOppohiteHumidityReq", <<U4>>), Answer("PicGetOppohiteHumidityResp", <<F4>>),
    Request("SlideSetReq", <<Raw(16), U2>>), Request("SlideDelReq", <<Raw(16), U2>>),
    Request("GetAllAnaReq", <<U4, U2, U2, U4, U4>>),
    Answer("GetAllAnaResp", <<List(<<U4, Str>>)>>) }

\* curves, server time
CurveBodies == {
    Request("CurveUpFrameReq", <<U4, U2, U2, U4, U4>>),
    Answer("CurveUpFrameResp", <<U4, U4, Arr(2, <<U4, Str>>)>>),
    Request("CurveDownFrameReq", <<U4, U2, U2, U4, U4>>),
    Answer("CurveDownFrameResp", <<U4, U4, Arr(2, <<U4, Str>>)>>),
    Answer("GetServerTimeResp", <<U4, U4>>) }

\* device pictures and data
DeviceBodies == {
    Request("GetDevCurisePicReq", <<List(<<Txt>>)>>),
    Answer("GetDevCurisePicResp", <<List(<<Str, Str>>)>>),
    Answer("QueryDevInfoResp", <<List(<<Str, U4, Str, Str, Str, Str, Str, U4, U4, U4, Str, U4, U4, Str, U4, Str, U4, Str, U4, F4, F4, Str, U4>>)>>) }

\* remote start and frames
BootBodies == {
    Request("DevBootReq", <<Str>>), Request("SendFrameReq", <<Str, Str, U4, U4>>),
    Request("StopFrameReq", <<Str, Str, U4>>) }

Bodies ==
    UNION {EmptyBodies, ExchangedBodies, LinkBodies, PlayGroupBodies, AnalyseBodies, RailBodies, AlarmConditionBodies,
           AlarmPicBodies, RecordBodies, EPicBodies, LiveBodies, CruiseInfoBodies,
           PresetInfoBodies, CruisePicBodies, PresetBodies, AccountBodies, PermissionBodies,
           InfraredBodies, SlideBodies, CurveBodies, DeviceBodies, BootBodies}
==============================================================================
