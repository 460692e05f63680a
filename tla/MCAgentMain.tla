---------------------------- MODULE MCAgentMain ----------------------------
(* Instances of AgentMain for TLC. *)
EXTENDS AgentMain

CONSTANTS r1, r2

Methods(m1, m2) == [r \in Reqs |-> IF r = r1 THEN m1 ELSE m2]

JustRead == Methods({"command.read"}, {})
ReadAndAsk ==
    Methods({"command.read"}, {"process.terminate", "process.list", "process.write",
                               "execution.get", "execution.list"})
StartAndRead == Methods({"process.start"}, {"command.read", "process.wait", "process.write"})
=============================================================================
