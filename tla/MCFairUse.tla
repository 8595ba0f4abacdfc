------------------------------ MODULE MCFairUse ------------------------------
(* FairUse for TLC. *)
EXTENDS FairUse

Plus == <<"class", "plus">>
Flex == <<"class", "flex">>
Arm == <<"arch", "arm">>

Requirement(key, operator, values) ==
    [key |-> key, operator |-> operator, values |-> values]

\* A limit for each group of Pods, through every operator.
TheLimits ==
    <<[selector |-> Bad, limit |-> 9],
      [selector |-> {Requirement("class", "In", {"plus"}),
                     Requirement("arch", "DoesNotExist", {})}, limit |-> 7],
      [selector |-> {Requirement("arch", "Exists", {})}, limit |-> 6],
      [selector |-> {Requirement("class", "NotIn", {"plus"})}, limit |-> 5]>>

Spec1(sel, c, m, policy, deadline) ==
    [selector |-> sel, cpu |-> c, mem |-> m, restartPolicy |-> policy,
     deadline |-> deadline]

\* With 2 units to a core 14 and 4 bytes per core, and no ratio: Pods of the
\* first two kinds are fair together, and unfair when the first goes away.
ThePodSpecs ==
    {Spec1({}, 1, 7, "Always", None), Spec1({Plus}, 2, 4, "OnFailure", None),
     Spec1({Arm}, 0, 1, "Never", 60)}

TheWorkloads ==
    {[kind |-> "Workload", verb |-> "create", system |-> FALSE,
      selector |-> w[1], replicas |-> w[2], cpu |-> w[3], mem |-> w[4]] :
        w \in {<<{}, 1, 4, 3>>, <<{}, 3, 2, 7>>, <<{}, 1, 0, 1>>,
               <<{Flex}, 1, 4, 3>>, <<{Arm}, 1, 4, 3>>, <<{Arm}, 3, 2, 7>>,
               <<{Plus, Arm}, 0, 4, 3>>, <<{Plus, Arm}, 1, 4, 3>>}}

TheDefault == {Plus}
TheAnnotations == {{Flex}}
ThePartial == {Arm}
=============================================================================
