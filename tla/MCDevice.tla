------------------------------ MODULE MCDevice ------------------------------
EXTENDS Device

Candidate(names, traces, modern, discrete, memory) ==
  [answers |-> names, traces |-> traces, modern |-> modern, discrete |-> discrete,
   memory |-> memory]

\* A workstation with two devices, one that answers to both names and the other to
\* one, a machine that traces only through a device that is too old, and one whose
\* best device is the last.
SomeMachines ==
  {<<Candidate({"large", "small"}, TRUE, TRUE, TRUE, 8), Candidate({"small"}, TRUE, TRUE, FALSE, 2)>>,
   <<Candidate({"none"}, FALSE, TRUE, TRUE, 8), Candidate({"small"}, TRUE, FALSE, FALSE, 2)>>,
   <<Candidate({"small"}, TRUE, TRUE, FALSE, 2), Candidate({"large"}, TRUE, TRUE, TRUE, 8)>>}

Variables == {"device", "trace"}
TwoEnvironments ==
  {[k \in Variables |-> ""], [k \in Variables |-> IF k = "device" THEN "small" ELSE "1"]}

Silent == [k \in Variables |-> None]
FewHosts ==
  {Silent, [k \in Variables |-> IF k = "device" THEN "large" ELSE "1"],
   [k \in Variables |-> IF k = "device" THEN None ELSE "0"]}
=============================================================================
