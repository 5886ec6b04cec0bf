-------------------------- MODULE MCSystemLifecycle --------------------------
(* Four subsystems with the dependencies the source has between Config,     *)
(* Metadata, Network and Replication.                                       *)
EXTENDS SystemLifecycle

MCUses == << {}, {1}, {1}, {1, 3} >>
MCDerefs == << {}, {1}, {}, {1} >>
=============================================================================
