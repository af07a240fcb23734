---------------------------- MODULE RunCommandMC ----------------------------
(* The five system threads and two slots for apps.                         *)
EXTENDS RunCommand

AppIds  == Apps
ExecIds == {Exec}
NoIds   == {}

ASSUME CommandLines == ParsesLines({" ", "&", "c"}, 3, 2)
=============================================================================
