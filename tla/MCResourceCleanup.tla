------------------------ MODULE MCResourceCleanup ------------------------
(* Three resources, the second of which depends on the first.              *)
EXTENDS ResourceCleanup, TLC
CONSTANTS a, b, c
MCIDOf == [r \in {a, b, c} |-> r]
MCDependsOn == a :> {} @@ b :> {a} @@ c :> {}

(* A dry run never looks at the client.                                    *)
RunInit == Init /\ (DryRun => ~ClientAvailable)
RunSpec == RunInit /\ [][Next]_vars /\ Fairness
=============================================================================
