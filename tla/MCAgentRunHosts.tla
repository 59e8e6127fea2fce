----------------------------- MODULE MCAgentRunHosts -----------------------------
(***************************************************************************)
(* AgentRun for TLC.  Everything at once is too much for one instance, so  *)
(* a behaviour is one of several hosts, each with its own bounds.          *)
(***************************************************************************)
EXTENDS MCAgentRun

VARIABLE host   \* what this host does

\* A host that steers one run, one whose run has parallel tools, one that prompts
\* again after whatever became of a run, and one that leaves inputs to a later run.
Hosts == {"steers", "tools", "again", "leaves"}

Within ==
    /\ host' = host
    /\ host = "steers" => run'.no <= 1 /\ run'.calls <= 1
    /\ host = "tools"  => run'.no <= 1 /\ queue' = queue
    /\ host = "again"  => run'.calls <= 1 /\ queue' = queue /\ open' = open
    /\ host = "leaves" => run'.calls = 0 /\ callers' = callers

HostsInit == Init /\ host \in Hosts
HostsNext == Next /\ Within

HostsSpec ==
    /\ HostsInit /\ [][HostsNext]_<<vars, host>>
    /\ Fairness /\ WF_vars(Read)
=============================================================================
