--------------------------- MODULE MCDevicePlugin ---------------------------
(***************************************************************************)
(* TLC instance of DevicePlugin: a node known by its triple, two known by  *)
(* the device tree, with and without the system call, a stranger, and a    *)
(* stranger whose name starts like that of a board.                        *)
(***************************************************************************)
EXTENDS DevicePlugin

Is(probe, compatible, board) ==
  [probe |-> probe, compatible |-> compatible, board |-> board]

Nodes == {Is("V100", {<<"spacemit,v100">>}, "spacemit-v100"),
          Is("fails", {<<"scaleway,em-rv1", "-c4m16s128-a">>, <<"riscv">>}, "scaleway-em-rv1"),
          Is("P550", {<<"zhihe,a210">>}, "zhihe-a210"),
          Is("fails", {<<"sophgo,sg2042">>}, "sophgo-sg2042"),
          Is("unlisted", {<<"spacemit,k3", "00">>}, "spacemit-k300")}

=============================================================================
