----------------------------- MODULE MC_Process -----------------------------
EXTENDS Process, TLC
CONSTANTS k1, k2, lib, exe
MCCollectors == {k1, k2}
MCLibs == {lib}
(* XDR encodings of pcsamp_start_sampling_args' unsigned sampling_rate    *)
(* (big-endian, four bytes): 100, the default of                          *)
(* PCSampCollector::getDefaultParameterValues, and the rates 186 and     *)
(* 0x00BA0000.                                                             *)
MCDefaultArg == {<<0, 0, 0, 100>>}
MCRateArgs == {<<0, 0, 0, 100>>, <<0, 0, 0, 186>>, <<0, 186, 0, 0>>}
=============================================================================
