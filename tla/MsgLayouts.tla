----------------------------- MODULE MsgLayouts -----------------------------
(* The messages as the protocol header declares them (comm_typedef.h): packed  *)
(* structs that lead with MsgHeader_S, most of the answers with a result of    *)
(* their own after it. A length or count and what it measures is one Counted   *)
(* member, whatever its elements are.                                          *)
EXTENDS WireKinds

Counted == Kind("counted", 0, <<>>)
Pointer == Kind("pointer", 0, <<>>)

\* structs of the same members: with nothing or with a result after the
\* header, and answers that are the header and the result
Layouts(names, result, fields) ==
    {[name |-> n, result |-> result, fields |-> fields] : n \in names}
Plain(names, fields) == Layouts(names, FALSE, fields)
Result(names, fields) == Layouts(names, TRUE, fields)
Bare(names) == Result(names, <<>>)

\* version, authentication, XML, heartbeat, playing
LinkLayouts ==
    Plain({"VerReq"}, <<U4, U4>>)
    \cup Result({"GetAllUsrResp"}, <<Counted>>)
    \cup Plain({"AuthReq"}, <<Raw(32), Raw(16), U4, U4, U4>>)
    \cup Result({"AuthResp"}, <<U4, U4, U8, Counted>>)
    \cup Plain({"XmlReq", "HeartBeatReq"}, <<U4>>)
    \cup Result({"XmlResp"}, <<Raw(102400)>>)
    \cup Plain({"VodPlayReq", "VodStopReq"}, <<Raw(128)>>)
    \cup Result({"VodPlayResp"}, <<Raw(1024)>>)
    \cup Bare({"VodStopResp"})

\* platform, groups, cruise restart flag
GroupLayouts ==
    Plain({"PlatformCtrlReq"}, <<U4, U4>>)
    \cup Plain({"GroupCfgAddReq"}, <<U4, Counted, Counted>>)
    \cup Result({"GroupCfgAddResp"}, <<U4>>)
    \cup Plain({"GroupCfgDelReq", "GetCruiseRestartFlagReq"}, <<U4>>)
    \cup Plain({"GroupCfgChgReq"}, <<U4, U4, Counted, Counted>>)
    \cup Plain({"SetCruiseRestartFlagReq"}, <<U4, U4, U4>>)
    \cup Result({"GetCruiseRestartFlagResp"}, <<U4, U4>>)
    \cup Bare({"PlatformCtrlResp", "GroupCfgDelResp", "GroupCfgChgResp",
         "SetCruiseRestartFlagResp"})

\* replay number and disk reserve
CapacityLayouts ==
    Plain({"ReplaySetNumReq", "SetReserveHardCapacityReq"}, <<U4>>)

\* private analyses and alarm conditions
AnalyseLayouts ==
    Plain({"AddPrivateAnalyseReq", "DelPrivateAnalyseReq", "AddPrivateAlarmConditionReq",
         "DelPrivateAlarmConditionReq"}, <<Counted, Counted>>)
    \cup Plain({"ReplayAnaReq"}, <<U4, U4, Counted>>)
    \cup Plain({"GetCruiseInfoReq"}, <<U4>>)
    \cup Bare({"PrivateAnalyseResp", "PrivateAlarmConditionResp"})

\* presets and cruises
CruiseLayouts ==
    Result({"GetCruiseInfoResp", "GetPresetInfoResp"}, <<Counted>>)
    \cup Plain({"GetPresetInfoReq"}, <<U4>>)
    \cup Plain({"SetCruiseReq"}, <<U4, U4, Counted, Counted>>)
    \cup Result({"SetCruiseResp"}, <<U4>>)
    \cup Plain({"DelCruiseReq"}, <<U4, U4>>)
    \cup Plain({"SetPicReq"}, <<U4, Counted>>)
    \cup Bare({"DelCruiseResp"})

\* cruise pictures
PictureLayouts ==
    Plain({"SetPicInfoReq"}, <<U4, U4, Pointer>>)
    \cup Plain({"GetPicReq", "DelPicReq"}, <<U4>>)
    \cup Result({"GetPicResp"}, <<Counted, Counted>>)
    \cup Plain({"StartCruiseReq", "StopCruiseReq"}, <<U4, U4>>)
    \cup Bare({"SetPicResp", "SetPicInfoResp", "DelPicResp", "StartCruiseResp", "StopCruiseResp"})

\* live picture
LiveLayouts ==
    Plain({"LiveGetClrIdxReq"}, <<Raw(128)>>)
    \cup Plain({"LiveSetClrIdxReq", "LiveSetAdjustTypeReq"}, <<U4, Raw(128)>>)
    \cup Plain({"LiveSetAdjustRangeReq"}, <<F4, F4, Raw(128)>>)

\* colour index
ColourLayouts ==
    Result({"GetClrIdxResp"}, <<U4>>)

\* rail
RailLayouts ==
    Plain({"RailDirectCommReq", "PtzDirectCommReq", "RailChkReq", "RailPosReq"}, <<Counted>>)
    \cup Plain({"RailStepRightReq", "RailLeftReq", "RailRightReq", "RailStopReq"}, <<U4>>)
    \cup Plain({"RailToSetPointReq", "RailToDistanceReq", "RailSetSpeedReq"}, <<Counted, U4>>)
    \cup Result({"RailChkResp"}, <<U4>>)
    \cup Result({"RailPosResp"}, <<U4, U4, U4>>)
    \cup Bare({"RailDirectCommResp", "PtzDirectCommResp", "RailStepRightResp", "RailLeftResp",
         "RailRightResp", "RailStopResp", "RailToSetPointResp", "RailToDistanceResp",
         "RailSetSpeedResp"})

\* presets and platform
PresetLayouts ==
    Plain({"DirectionReq"}, <<U4>>)
    \cup Plain({"PresetPointResp"}, <<U2, U2, Counted>>)
    \cup Plain({"PresetReq"}, <<U4, U2, U2, Counted, Counted>>)
    \cup Result({"PresetResp", "PlatFormPresetResp"}, <<U2, U2>>)
    \cup Plain({"PlatFormPresetReq"}, <<U4, U2, U2, Counted>>)
    \cup Plain({"PlatFormSpeedReq"}, <<U4, U4>>)
    \cup Plain({"PlatFormToPresetReq", "DelPresetReq"}, <<U4, U2, U2>>)
    \cup Plain({"PlatFormCruiseReq"}, <<U4, Counted>>)
    \cup Bare({"DirectionResp", "PlatFormSpeedResp", "PlatFormToPresetResp", "DelPresetResp",
         "PlatFormCruiseResp"})

\* analyses of a preset, alarm conditions
PresetAnalyseLayouts ==
    Plain({"FocusChkReq"}, <<U4, Counted>>)
    \cup Plain({"PresetAnaAddReq"}, <<U4, U2, U2, Counted, Counted>>)
    \cup Result({"PresetAnaAddResp", "SetAlarmConditionResp"}, <<U4>>)
    \cup Plain({"PresetAnaChgReq", "SetAlarmConditionReq"}, <<U4, U2, U2, U4, Counted, Counted>>)
    \cup Plain({"PresetAnaDelReq", "GetAlarmConditionReq"}, <<U4, U2, U2, U4>>)
    \cup Plain({"ModPresetReq"}, <<U4, U2, U2>>)
    \cup Bare({"PresetAnaChgResp", "PresetAnaDelResp", "ModPresetResp"})

\* alarm and timed pictures
AlarmLayouts ==
    Result({"GetAlarmConditionResp", "AlarmPicListResp", "AlarmPicGetResp", "TimerPicGetResp"},
         <<Counted>>)
    \cup Plain({"AlarmPicListReq"}, <<U4, U2, U2, Counted, Counted, Counted>>)
    \cup Plain({"AlarmPicGetReq"}, <<U4, U2, U2, U4, U4, U4>>)
    \cup Plain({"TimerPicGetReq"}, <<U4, U4, U4>>)

\* recording, electronic map
RecordLayouts ==
    Plain({"SetRecordConditionReq"}, <<U4, U2, U2, U4, F4, F4>>)
    \cup Plain({"GetRecordConditionReq"}, <<U4, U2, U2>>)
    \cup Result({"GetRecordConditionResp"}, <<U4, U2, U2, U4, F4, F4>>)
    \cup Plain({"DelAlarmConditionReq"}, <<U4, U2, U2, U4>>)
    \cup Plain({"GetCurCruiseInfoReq", "SetEPicResp"}, <<U4>>)
    \cup Result({"GetCurCruiseInfoResp"}, <<U4, U2, U2, U4>>)
    \cup Plain({"SetEPicReq"}, <<U4, Counted, Counted>>)
    \cup Plain({"SetEPicInfoReq"}, <<U4, Counted>>)
    \cup Plain({"SetEPicInfoResp", "GetEPicListReq"}, <<>>)
    \cup Plain({"GetEPicListResp"}, <<Counted>>)
    \cup Bare({"SetRecordConditionResp", "DelAlarmConditionResp"})

\* electronic map, fixed-point cruise
EPicLayouts ==
    Plain({"GetEPicInfoReq", "DelEPicReq", "StartFixedPointCruiseReq", "StopFixedPointCruiseReq",
         "GetFixedPointCruiseStateReq"}, <<U4>>)
    \cup Plain({"GetEPicInfoResp"}, <<Counted>>)
    \cup Plain({"DelEPicResp"}, <<>>)
    \cup Result({"GetFixedPointCruiseStateResp"}, <<U4, U4>>)
    \cup Bare({"StartFixedPointCruiseResp", "StopFixedPointCruiseResp"})

\* setting infrared parameters
InfraredLayouts ==
    Plain({"PicSetRadiationReq", "PicSetDistanceReq", "PicSetEnvTempReq",
         "PicSetOppohiteHumidityReq"}, <<U4, F4>>)
    \cup Bare({"PicSetRadiationResp", "PicSetDistanceResp", "PicSetEnvTempResp",
         "PicSetOppohiteHumidityResp"})

\* reading infrared parameters, curves
ReadInfraredLayouts ==
    Plain({"PicGetRadiationReq", "PicGetDistanceReq", "PicGetEnvTempReq",
         "PicGetOppohiteHumidityReq"}, <<U4>>)
    \cup Result({"PicGetRadiationResp", "PicGetDistanceResp", "PicGetEnvTempResp"}, <<F4>>)
    \cup Plain({"PresetGetAllAnaReq", "CurveUpFrameReq", "CurveDownFrameReq"}, <<U4, U2, U2, U4,
         U4>>)
    \cup Result({"PresetGetAllAnaResp"}, <<Counted>>)
    \cup Result({"CurveUpFrameResp"}, <<U4, U4, Counted>>)

\* curves, server time, slide, accounts
AccountLayouts ==
    Result({"CurveDownFrameResp"}, <<U4, U4, Counted>>)
    \cup Plain({"GetServerTimeReq"}, <<>>)
    \cup Result({"GetServerTimeResp"}, <<U4, U4>>)
    \cup Result({"PicGetOppohiteHumidityResp"}, <<F4>>)
    \cup Plain({"SlideSetReq"}, <<Raw(16), Raw(2)>>)
    \cup Plain({"AddAccountReq", "ChgAccountPremissionReq"}, <<Counted, Counted, U4, U8, Counted,
         Counted>>)
    \cup Plain({"ChgAccountPasswdReq"}, <<Counted, Counted, Counted>>)
    \cup Bare({"AddAccountResp", "ChgAccountPremissionResp"})

\* accounts and permissions
PermissionLayouts ==
    Plain({"DelAccountReq"}, <<Counted, Counted>>)
    \cup Plain({"QueryAccountPremissionReq"}, <<Counted, U4>>)
    \cup Result({"QueryAccountPremissionResp"}, <<Counted>>)
    \cup Plain({"SlideDelReq"}, <<Raw(16), Raw(2)>>)
    \cup Bare({"ChgAccountPasswdResp", "DelAccountResp", "SlideSetResp", "SlideDelResp"})

Declared ==
    UNION {LinkLayouts, GroupLayouts, CapacityLayouts, AnalyseLayouts, CruiseLayouts,
           PictureLayouts, LiveLayouts, ColourLayouts, RailLayouts, PresetLayouts,
           PresetAnalyseLayouts, AlarmLayouts, RecordLayouts, EPicLayouts, InfraredLayouts,
           ReadInfraredLayouts, AccountLayouts, PermissionLayouts}
==============================================================================
