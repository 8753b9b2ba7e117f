----------------------------- MODULE WebShellMC -----------------------------
(* The point of view alone is reached with Tab.                              *)
EXTENDS WebShell

Controls == {[do |-> "SetPresentation", to |-> "Split"]}
              \cup [do : {"ToggleGpuCompose", "SaveSession"}, to : {"Map"}]
=============================================================================
