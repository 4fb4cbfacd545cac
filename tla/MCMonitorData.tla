--------------------------- MODULE MCMonitorData ---------------------------
(* MonitorData for TLC: every sub-device, with both APIs between them.     *)
(* DSP has one monitor at a time, next to its disk monitor.                *)
EXTENDS MonitorData

MCMonitors == {"m1", "m2"}
MCMonitorsOf == [SMRB |-> MCMonitors, RECV |-> MCMonitors, STAT |-> MCMonitors, DSP |-> {"m1"}]

MCDevices == {<<"RECV", "simulator">>, <<"SMRB", "simulator">>, <<"SMRB", "grpc">>,
              <<"STAT", "grpc">>, <<"DSP", "grpc">>}
GrpcOnly == {<<"SMRB", "grpc">>}
DspOnly == {<<"DSP", "grpc">>}
=============================================================================
