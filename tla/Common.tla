-------------------------------- MODULE Common --------------------------------
(* What the modules about transmission have in common.                     *)
CONSTANTS
    Priorities, (* 0 is the highest                                        *)
    None        (* an unset Option                                         *)
===============================================================================
