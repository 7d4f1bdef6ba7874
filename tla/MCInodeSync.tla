---------------------------- MODULE MCInodeSync ----------------------------
(* Instances of InodeSync for TLC: an integrated GPU and two more behind a  *)
(* bridge, the last one of NVIDIA.                                          *)
EXTENDS InodeSync

CONSTANTS udev, client

ThreeGpus == 0..2
Behind    == {1, 2}
Last      == {2}
OneTask   == {udev}
TwoTasks  == {udev, client}
=============================================================================
