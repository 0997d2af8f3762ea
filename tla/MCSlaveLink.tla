---------------------------- MODULE MCSlaveLink ----------------------------
(* One slave with its two cores; the jobs whose result is not 0 are         *)
(* interchangeable.                                                        *)
EXTENDS SlaveLink, TLC

JobSymmetry == Permutations(Jobs \ ZeroJobs)
=============================================================================
