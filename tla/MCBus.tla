-------------------------------- MODULE MCBus --------------------------------
(***************************************************************************)
(* The bus as one of the parts of MCDevices: which names the part whose    *)
(* behaviour it is, and the property asks nothing while another part moves *)
(* and the bus stands still.                                               *)
(***************************************************************************)
EXTENDS PciBus

VARIABLE which

\* Every order of BAR moves and switches leaves every address and port with the
\* device that decodes it (modify_bar_registration, register_mem, register_inout),
\* and the cached MMIO range a node of the tree (emulate_mem, unregister_mem).
AccessRouted == which = "bus" => HintCurrent /\ BusRouted
==============================================================================
