-------------------------- MODULE MCEnhancedClient --------------------------
(* The constants are all given in the configuration.                       *)
EXTENDS EnhancedClient
=============================================================================
