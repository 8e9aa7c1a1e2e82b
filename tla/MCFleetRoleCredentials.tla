------------------------ MODULE MCFleetRoleCredentials ------------------------
(* Parameters and environments that disagree about everything, for TLC. *)
EXTENDS FleetRoleCredentials, TLC

Shaped(S) == [f \in Fields |-> IF f \in S THEN "plain" ELSE "empty"]
Named == Identity \cup {"WebSocketURL"}

SomeParameters ==
    {[Shaped(Named \cup {"AuthToken"}) EXCEPT !["HostID"] = "slash"],
     Shaped(Named \cup {"AwsRegion", "AccessKey"}), Shaped(Named \cup {"AwsRegion"} \cup AwsCredentials)}

SomeEnvironments ==
    {Shaped({}), Shaped(Named), [Shaped({"AwsRegion", "AccessKey"}) EXCEPT !["ProcessID"] = "agentless"]}

SomeCredentials ==
    {[f \in AwsCredentials |-> IF f \in S THEN "plain" ELSE "empty"] : S \in {AwsCredentials, {"AccessKey"}}}

(* The calls are alike, and no property tells them apart. *)
CallerSymmetry == Permutations(Callers)
=============================================================================
