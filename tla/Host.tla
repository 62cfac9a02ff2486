-------------------------------- MODULE Host --------------------------------
(* The daemon's event path from its sources on: the router every event goes  *)
(* through, the snapshot sensors, the udev stream, the kernel collectors and *)
(* the anomaly detector.  They share operators (the projector's above all)   *)
(* but no variable, so a behaviour exercises one of them while the others    *)
(* rest: the states of the parts add up and do not multiply.                 *)
EXTENDS Router, SnapshotPipeline, UdevStream, KernelStreams, AnomalyWatch

VARIABLE part    \* the one this behaviour is about

hostvars == <<part, vars, snapvars, udevvars, kernvars, anomvars>>

RouterOff == Init /\ critical = {}

HostInit ==
  /\ part \in {"router", "snapshots", "devices", "kernel", "anomalies"}
  /\ IF part = "router" THEN Init ELSE RouterOff
  /\ IF part = "snapshots" THEN SnapInit ELSE SnapOff
  /\ IF part = "devices" THEN UdevInit ELSE UdevOff
  /\ IF part = "kernel" THEN KernInit ELSE KernOff
  /\ IF part = "anomalies" THEN AnomInit ELSE AnomOff

HostNext ==
  /\ UNCHANGED part
  /\ \/ /\ part = "router" /\ Next
        /\ UNCHANGED <<snapvars, udevvars, kernvars, anomvars>>
     \/ /\ part = "snapshots" /\ SnapNext
        /\ UNCHANGED <<vars, udevvars, kernvars, anomvars>>
     \/ /\ part = "devices" /\ UdevNext
        /\ UNCHANGED <<vars, snapvars, kernvars, anomvars>>
     \/ /\ part = "kernel" /\ KernNext
        /\ UNCHANGED <<vars, snapvars, udevvars, anomvars>>
     \/ /\ part = "anomalies" /\ AnomNext
        /\ UNCHANGED <<vars, snapvars, udevvars, kernvars>>

HostSpec == HostInit /\ [][HostNext]_hostvars
=============================================================================
