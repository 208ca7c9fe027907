----------------------------- MODULE PendingWork -----------------------------
(***************************************************************************)
(* Who asks whether work is pending: `memcap wait JOB_ID', `memcap wait    *)
(* --session' and the Stop hook of an agent (scheduler.py status and       *)
(* wait_for, idle_gc.py pending_jobs, continuation and wait_for_pending).  *)
(* They take no lock.  They look at the processes, read jobs.json and look *)
(* at the processes again, one after the other, while supervisors start,   *)
(* register, launch, retire their jobs or are killed.                      *)
(*                                                                         *)
(* One agent process serves all sessions, as an application server does.   *)
(* The gate of a launch and recycled groups are in Scheduler; here a group *)
(* is a leader and a child, and an asker is in no group itself.            *)
(***************************************************************************)
EXTENDS FiniteSets

CONSTANTS Work,       \* jobs
          Keys,       \* of sessions
          NoKey,      \* of a caller, or of a job, without one
          KeyOf,      \* the session a job was submitted in
          WorkKinds   \* [Work -> what it may be: "job", "server" or "resource"]

ASSUME PendingAssumption ==
  /\ NoKey \notin Keys /\ KeyOf \in [Work -> Keys \cup {NoKey}]
  /\ WorkKinds \in [Work -> SUBSET {"job", "server", "resource"}]

VARIABLES kindOf,    \* "server": a foreground server that an old runner queued as a finite job
          proc,      \* the processes of a job: its supervisor and its group
          rows,      \* jobs.json
          look       \* what an asker has read, and what was so meanwhile

pendingvars == <<kindOf, proc, rows, look>>

NoEntryRow == [status |-> "none", cancel |-> FALSE, members |-> {}]
NoProcess == [owner |-> "none", group |-> {}]
NoTable == <<>>
NoLook == [pc |-> "idle", kind |-> "id", key |-> NoKey, of |-> {}, table |-> NoTable, copy |-> NoTable,
           must |-> {}, may |-> {}, answer |-> {}]

\* An owner is "fresh" until it has registered, "leaving" when it has retired its
\* entry; "reused" is another process with its number.
Alive(p) == p.owner \in {"fresh", "registered", "leaving"}
Groups == SUBSET {"leader", "child"}

PendingTypeOK ==
  /\ \A w \in Work : kindOf[w] \in WorkKinds[w]
  /\ proc \in [Work -> [owner : {"none", "fresh", "registered", "leaving", "dead", "reused"}, group : Groups]]
  /\ rows \in [Work -> [status : {"none", "waiting", "running"}, cancel : BOOLEAN, members : Groups]]
  /\ look.pc \in {"idle", "read", "confirm", "answered"} /\ look.kind \in {"id", "session", "event", "wait"}
  /\ look.answer \subseteq look.of

PendingInit ==
  /\ kindOf \in {f \in [Work -> {"job", "server", "resource"}] : \A w \in Work : f[w] \in WorkKinds[w]}
  /\ proc = [w \in Work |-> NoProcess]
  /\ rows = [w \in Work |-> NoEntryRow]
  /\ look = NoLook

(***************************************************************************)
(* What the askers make of a registry and of a table of processes.         *)
(***************************************************************************)
\* refresh keeps a waiting job while its owner lives, a running one while its
\* owner or its group does.
Keeps(status, p) ==
  \/ status = "waiting" /\ Alive(p)
  \/ status = "running" /\ (Alive(p) \/ p.group # {})

\* A server of an old runner is known by its recorded leader.
RunningServer(w, row, p) ==
  kindOf[w] = "server" /\ row.status = "running" /\ "leader" \in p.group \cap row.members

OfSession(w, key) == key = NoKey \/ KeyOf[w] = key

\* What a session, or with NoKey the whole agent, must wait for: finite work that is
\* not being cancelled and whose supervisor is a live process of the agent.
Owed(w, row, p, key) ==
  /\ row.status # "none" /\ kindOf[w] # "resource"
  /\ OfSession(w, key) /\ ~row.cancel /\ Alive(p)

\* Mutant: a job that waits is nobody's work yet.
PendingJobsRunning(copy, table, key) ==
  {w \in Work : /\ copy[w].status = "running"
                /\ Owed(w, copy[w], table[w], key) /\ ~RunningServer(w, copy[w], table[w])}

PendingJobs(copy, table, key) ==
  {w \in Work : Owed(w, copy[w], table[w], key) /\ ~RunningServer(w, copy[w], table[w])}

(***************************************************************************)
(* The askers.                                                             *)
(***************************************************************************)
\* What a look asks: is the job, with this entry and these processes, pending?
Asked(kind, key, w, row, p) == IF kind = "id" THEN Keeps(row.status, p) ELSE Owed(w, row, p, key)

\* A look begins with the processes; it asks about the jobs of.
Asking(kind, key, of) ==
  LET now == {w \in of : Asked(kind, key, w, rows[w], proc[w])}
  IN look' = [NoLook EXCEPT !.pc = "read", !.kind = kind, !.key = key, !.of = of,
                            !.table = IF kind = "id" THEN NoTable ELSE proc,
                            !.must = {w \in now : kind = "id" \/ kindOf[w] # "server"}, !.may = now]

World == UNCHANGED <<kindOf, proc, rows>>

\* The first look at the processes: of `memcap wait', of the hook.
Looks(kind, key, of) == look.pc = "idle" /\ Asking(kind, key, of) /\ World

\* jobs.json is read.  A hook answers from it and the first table.
Reads ==
  LET pending == IF look.kind = "id" THEN {w \in look.of : rows[w].status # "none"}
                 ELSE PendingJobs(rows, look.table, look.key) \cap look.of
  IN /\ look.pc = "read"
     /\ look' = [look EXCEPT !.pc = IF look.kind \in {"id", "session"} THEN "confirm" ELSE "answered",
                             !.table = NoTable, !.answer = pending,
                             !.copy = [w \in pending |-> rows[w].status]]
     /\ World

\* wait_for refreshes its copy of the entries against the processes.
Confirms ==
  /\ look.pc = "confirm"
  /\ look' = [look EXCEPT !.pc = "answered", !.copy = NoTable,
                             !.answer = {w \in @ : Keeps(look.copy[w], proc[w])}]
  /\ World

\* Nothing pending ends a wait; otherwise it looks again, until its deadline.  A Stop
\* that event has blocked is handed to wait.
Again ==
  /\ look.pc = "answered" /\ look.answer # {}
  /\ Asking(IF look.kind = "event" THEN "wait" ELSE look.kind, look.key, look.of)
  /\ World

Told == look.pc = "answered" /\ look' = NoLook /\ World

\* The processes or the registry cannot be read: nothing is said.
LookFails == look.pc \in {"read", "confirm"} /\ look' = NoLook /\ World

(***************************************************************************)
(* The jobs.                                                               *)
(***************************************************************************)
Owner(w, state) == proc' = [proc EXCEPT ![w].owner = state]

Spawns(w) == proc[w].owner = "none" /\ Owner(w, "fresh") /\ UNCHANGED rows

Enters(w) ==
  /\ proc[w].owner = "fresh" /\ Owner(w, "registered")
  /\ rows' = [rows EXCEPT ![w].status = "waiting"]

Publishes(w) ==
  /\ proc[w].owner = "registered" /\ rows[w].status = "waiting"
  /\ proc' = [proc EXCEPT ![w].group = {"leader"}]
  /\ rows' = [rows EXCEPT ![w].status = "running", ![w].members = {"leader"}]

\* A supervisor that was signalled says so when it observes its command; a request
\* that waits gives up at once.
Cancelled(w) ==
  /\ proc[w].owner = "registered" /\ rows[w].status = "running" /\ ~rows[w].cancel
  /\ rows' = [rows EXCEPT ![w].cancel = TRUE]
  /\ UNCHANGED proc

\* A supervisor that gives up waiting, or whose group is empty.
Retires(w) ==
  /\ proc[w].owner = "registered"
  /\ \/ rows[w].status = "waiting"
     \/ rows[w].status = "running" /\ proc[w].group = {}
  /\ rows' = [rows EXCEPT ![w] = NoEntryRow]
  /\ Owner(w, "leaving")

\* Any supervisor that takes the lock refreshes all entries.
Refreshes(w) ==
  /\ rows' = [rows EXCEPT ![w] = IF ~Keeps(@.status, proc[w]) THEN NoEntryRow
                                 ELSE IF @.status = "running" /\ Alive(proc[w])
                                 THEN [@ EXCEPT !.members = proc[w].group] ELSE @]
  /\ rows' # rows /\ UNCHANGED proc

OwnerEnds(w) == Alive(proc[w]) /\ Owner(w, "dead") /\ UNCHANGED rows
OwnerReused(w) == proc[w].owner = "dead" /\ Owner(w, "reused") /\ UNCHANGED rows

ChildForked(w) ==
  /\ "leader" \in proc[w].group /\ proc' = [proc EXCEPT ![w].group = @ \cup {"child"}]
  /\ "child" \notin proc[w].group /\ UNCHANGED rows

MemberExits(w) ==
  \E p \in proc[w].group : proc' = [proc EXCEPT ![w].group = @ \ {p}] /\ UNCHANGED rows

Happens ==
  \E w \in Work : \/ Spawns(w) \/ Enters(w) \/ Publishes(w) \/ Cancelled(w) \/ Retires(w) \/ Refreshes(w)
                  \/ OwnerEnds(w) \/ OwnerReused(w) \/ ChildForked(w) \/ MemberExits(w)

\* While a look lasts, what it is asked about goes on changing.  A job whose
\* supervisor dies meanwhile may be missed.
Meanwhile ==
  /\ Happens /\ UNCHANGED kindOf
  /\ look' = IF look.pc \notin {"read", "confirm"} THEN look
             ELSE LET now == {w \in look.of : Asked(look.kind, look.key, w, rows'[w], proc'[w])}
                      killed == {w \in Work : Alive(proc[w]) /\ ~Alive(proc'[w])}
                  IN [look EXCEPT !.must = (@ \cap now) \ killed, !.may = @ \cup now]

PendingNext ==
  \/ Meanwhile
  \/ \E w \in Work : Looks("id", NoKey, {w})
  \/ \E key \in Keys \cup {NoKey}, kind \in {"session", "event"} : Looks(kind, key, Work)
  \/ Reads \/ Confirms \/ Again \/ Told \/ LookFails

PendingSpec == PendingInit /\ [][PendingNext]_pendingvars

(***************************************************************************)
(* Properties.                                                             *)
(***************************************************************************)
\* An answer is true of the time it was looked for.  "memcap still owns pending work
\* for this session", or that a job is pending, names a job that was pending at some
\* moment of the look; and "no longer pending", or letting a turn end, leaves out no
\* job that was pending all the time, whatever the supervisors did between the
\* three readings (scheduler.py wait_for, idle_gc.py pending_jobs).  Servers are not
\* waited for; a supervisor that is killed during the look is excepted.
AnswersTrue ==
  look.pc = "answered" => look.must \subseteq look.answer /\ look.answer \subseteq look.may
=============================================================================
