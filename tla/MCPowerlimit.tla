---------------------------- MODULE MCPowerlimit ----------------------------
(***************************************************************************)
(* Model checking instances of CpuPowerlimit: the default profile and a    *)
(* turbo profile, and TDPs at and around the bounds.  Unsigned arithmetic  *)
(* is modulo 2^17, so that every limit used fits and -1000 wraps around.   *)
(***************************************************************************)
EXTENDS CpuPowerlimit

MCLimits(q) ==
    IF q = "default" THEN [stapm |-> 30000, fast |-> 36000, slow |-> 32000]
                     ELSE [stapm |-> 45000, fast |-> 49000, slow |-> 47000]

MCFast(t) == (t * 6) \div 5
MCSlow(t) == (t * 16) \div 15

Boot == [stapm |-> 15000, fast |-> 15000, slow |-> 15000]

=============================================================================
