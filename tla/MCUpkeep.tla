------------------------------ MODULE MCUpkeep ------------------------------
(***************************************************************************)
(* A small instance, for TLC, of the parts of memcap that keep a machine   *)
(* and its own records in order.  They share no state: a behaviour is one  *)
(* of PlannedKill, of Environments, of History, of HookMerge, of           *)
(* Integration, of Reports or of PendingWork, while the others stand still *)
(* in one of their initial states.                                         *)
(***************************************************************************)
EXTENDS PlannedKill, Environments, History, HookMerge, Integration, Reports, PendingWork

CONSTANTS pidA, pidB, pidC, pidX, pidRoot, pidChild, boxS, boxT,   \* processes, agents and containers
          row1, row2, row3, delivery, measured,                     \* events of the history
          job1, job2,                                               \* jobs
          text1, text2, textBad, inst1, inst2, agent1, agent2, prob1, prob2,
          queuedJob, chat1, chat2          \* a queued job and two conversations

VARIABLE subject

upkeepvars == <<subject, killvars, envvars, historyvars, mergevars, integrationvars, reportvars,
                pendingvars>>

Subjects == {"plan", "environment", "history", "hooks", "files", "reports", "pending"}

\* Cleanup.
MCPids == {pidA, pidC, pidX, pidRoot, pidChild}
MCScopes == {"orphan", "boot", "waiting", "running"}

\* Three checkpoints of two jobs, a hook's delivery and a measurement.
MCEvents == {row1, row2, row3, delivery, measured}
MCKindOf == [e \in MCEvents |-> CASE e = delivery -> "action" [] e = measured -> "sampling" [] OTHER -> "job"]
MCJobOf == [e \in MCEvents |-> IF e = row3 THEN job2 ELSE job1]
MCWallOf == [e \in MCEvents |-> IF e \in {row2, row3, delivery} THEN 1 ELSE 0]

\* A hook for every tool, and a queue hook for Bash (mc_agent_hooks).
MCGenerated == <<[role |-> "feedback", matcher |-> "none"], [role |-> "queue", matcher |-> "Bash"]>>

\* Two files in two directories, which are locked in the other order.
MCFiles == {1, 2}
MCDirs == {1, 2}
MCDirOf == [f \in MCFiles |-> 3 - f]

\* A job of a conversation, of any kind.
MCKeyOf == [w \in {queuedJob} |-> chat1]
MCWorkKinds == [w \in {queuedJob} |-> {"job", "server", "resource"}]

UpkeepInit ==
  /\ subject \in Subjects
  /\ PlannedInit
  /\ subject # "plan" => scope = "boot" /\ table = Begun({}, FALSE)
  /\ EnvInit /\ HistoryInit
  /\ MergeInit
  /\ subject # "hooks" => groups = <<>>
  /\ IntegrationInit
  /\ subject # "files" => files = [f \in Files |-> Absent]
  /\ ReportsInit
  /\ subject # "reports" => ~consent /\ \A p \in Problems : ~github[p].foreign
  /\ PendingInit
  /\ subject # "pending" => kindOf[queuedJob] = "job"

Still(part) == UNCHANGED subject /\ UNCHANGED part

UpkeepNext ==
  \/ /\ subject = "plan" /\ PlannedNext
     /\ Still(<<envvars, historyvars, mergevars, integrationvars, reportvars, pendingvars>>)
  \/ /\ subject = "environment" /\ EnvNext
     /\ Still(<<killvars, historyvars, mergevars, integrationvars, reportvars, pendingvars>>)
  \/ /\ subject = "history" /\ HistoryNext
     /\ Still(<<killvars, envvars, mergevars, integrationvars, reportvars, pendingvars>>)
  \/ /\ subject = "hooks" /\ MergeNext
     /\ Still(<<killvars, envvars, historyvars, integrationvars, reportvars, pendingvars>>)
  \/ /\ subject = "files" /\ IntegrationNext
     /\ Still(<<killvars, envvars, historyvars, mergevars, reportvars, pendingvars>>)
  \/ /\ subject = "reports" /\ ReportsNext
     /\ Still(<<killvars, envvars, historyvars, mergevars, integrationvars, pendingvars>>)
  \/ /\ subject = "pending" /\ PendingNext
     /\ Still(<<killvars, envvars, historyvars, mergevars, integrationvars, reportvars>>)

UpkeepSpec == UpkeepInit /\ [][UpkeepNext]_upkeepvars

\* Every variable of the module that moves keeps its shape: the plans and leases of the
\* planners, the rows of jobs.json, resources.json, ledger.json and of the
\* history, the configuration files with what an installer knows of them, and what an
\* asker has read.
UpkeepTypeOK ==
  /\ subject = "plan" => PlannedTypeOK
  /\ subject = "environment" => EnvTypeOK
  /\ subject = "history" => HistoryTypeOK
  /\ subject = "hooks" => MergeTypeOK
  /\ subject = "files" => IntegrationTypeOK
  /\ subject = "reports" => ReportsTypeOK
  /\ subject = "pending" => PendingTypeOK
=============================================================================
