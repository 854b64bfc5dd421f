------------------------------- MODULE MCJobs -------------------------------
(***************************************************************************)
(* TLC instances of Jobs: two jobs that compete for a runner, and one job  *)
(* alone.  No symmetry: the runs check liveness too.                       *)
(***************************************************************************)
EXTENDS Jobs

=============================================================================
