---------------------------- MODULE MCMeasurement ----------------------------
(***************************************************************************)
(* A small instance, for TLC, of how memory is measured and what is made   *)
(* of the measurements.  The five modules share no state: a behaviour is   *)
(* one of OwnedObservation, of NativeObserver, of Allowance, of Estimates  *)
(* or of Budget, while the others stand still in an initial state.         *)
(***************************************************************************)
EXTENDS OwnedObservation, NativeObserver, Allowance, Estimates, Budget, TLC

CONSTANTS pidL, pidM, pidN,       \* processes
          job1, job2,
          task1, task2, task3, probe1

VARIABLE subject

measurevars == <<subject, obsvars, nativevars, allowvars, estimatevars, budgetvars>>

Subjects == {"owned", "native", "allowance", "estimates", "budget"}

MCPids == {pidL, pidM, pidN}
MCUsages == {0, 8}
MCSizes == {4, 40}
MCJobs == {job1, job2}
MCTasks == {task1, task2, task3}
MCMemoryOf == (task1 :> 2) @@ (task2 :> 1) @@ (task3 :> 1)
MCTrees == {{task1}, {task1, task2, task3}}
MCProbes == {probe1}
Strict(cap, headroom) == [mode |-> "strict", cap |-> cap, headroom |-> headroom]
MCPolicies == {Strict(3, 1), Strict(5, 2), [Strict(4, 2) EXCEPT !.mode = "adaptive"]}

MeasurementInit ==
  /\ subject \in Subjects
  /\ ObservationInit /\ NativeInit /\ EstimatesInit
  /\ AllowanceInit
  /\ BudgetInit
  /\ subject # "allowance" => kind = "strict"
  /\ subject # "budget" => policy = Strict(3, 1)

Still(part) == UNCHANGED subject /\ UNCHANGED part

MeasurementNext ==
  \/ /\ subject = "owned" /\ ObservationNext
     /\ Still(<<nativevars, allowvars, estimatevars, budgetvars>>)
  \/ /\ subject = "native" /\ NativeNext
     /\ Still(<<obsvars, allowvars, estimatevars, budgetvars>>)
  \/ /\ subject = "allowance" /\ AllowanceNext
     /\ Still(<<obsvars, nativevars, estimatevars, budgetvars>>)
  \/ /\ subject = "estimates" /\ EstimatesNext
     /\ Still(<<obsvars, nativevars, allowvars, budgetvars>>)
  \/ /\ subject = "budget" /\ BudgetNext
     /\ Still(<<obsvars, nativevars, allowvars, estimatevars>>)

MeasurementSpec == MeasurementInit /\ [][MeasurementNext]_measurevars

\* An observation that is incomplete stays so, one with a gap becomes so with the
\* next sample, and neither certifies anything.  When the last run has made its
\* request, no other follows that what is learned could be compared with, and what a
\* profile learns of fewer workers no new request asks for.  When the last job is
\* admitted, promises are only given back.
Undecided ==
  /\ ~watch.incomplete /\ (watch.last <= Gap \/ probe.pc = "account")
  /\ ran < Runs /\ \A w \in Workers \ {Max(Workers)} : profiles[w] = NoProfile
  /\ \E j \in Tasks : load[j].status = "waiting"

\* Every variable of the module that moves keeps its shape: samples and pending
\* identities, the allowance within its bounds, the rows learned from, what the
\* observers are at, and samples with the load they are taken of.
MeasurementTypeOK ==
  /\ subject = "owned" => ObservationTypeOK
  /\ subject = "native" => NativeTypeOK
  /\ subject = "allowance" => AllowanceTypeOK
  /\ subject = "estimates" => EstimatesTypeOK
  /\ subject = "budget" => BudgetTypeOK
=============================================================================
