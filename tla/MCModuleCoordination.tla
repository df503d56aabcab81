------------------------- MODULE MCModuleCoordination -------------------------
(* Small instances of ModuleCoordination: one module at a time, or none. *)
EXTENDS ModuleCoordination

MCEach == {{}, {"fim"}, {"sca"}, {"syscollector"}}

\* Syscollector's pause() can wait for ever, SyscollectorPause.cfg.
MCLive == {{}, {"fim"}, {"sca"}}

MCSyscollector == {{"syscollector"}}

\* FIM alone, FimVersion.cfg.
MCFim == {{"fim"}}
==============================================================================
