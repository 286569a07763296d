----------------------- MODULE MCAudioOutputController -----------------------
(* Model-checking instance of AudioOutputController.                       *)
EXTENDS AudioOutputController

(* Two output devices and two volumes: a switch and a volume change are    *)
(* observable.                                                             *)
MCDevices == {"dev1", "dev2"}
MCInitDevice == "dev1"
MCVolumes == {"1.0", "0.5"}
MCInitVolume == "1.0"
=============================================================================
