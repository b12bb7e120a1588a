------------------------------ MODULE Processes ------------------------------
(* The kernel processes of emu, as the modules about what they share see them. *)

CONSTANTS Procs,      \* the kernel processes
          None        \* the nil pointer

ASSUME ProcsAssumption == None \notin Procs
=============================================================================
