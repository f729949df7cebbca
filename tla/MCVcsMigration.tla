--------------------------- MODULE MCVcsMigration ---------------------------
(* Instances of VcsMigration for TLC. *)
EXTENDS VcsMigration

CONSTANTS s1, s2, s3, vps, docker

\* s1 is the local sandbox; the others are containers of different machines.
OneEach == [s \in Servers |-> IF s = s1 THEN docker ELSE s]

\* s2 and s3 are two containers of one machine.
OneMachine == [s \in Servers |-> IF s = s1 THEN docker ELSE vps]
=============================================================================
