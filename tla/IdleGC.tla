------------------------------- MODULE IdleGC -------------------------------
(***************************************************************************)
(* The optional collector of idle helpers (libexec/idle_gc.py and          *)
(* idle_gc.sh): lifecycle hooks of agent sessions record in state.json     *)
(* whether a session works; the watchdog scans for browsers and            *)
(* development servers whose sessions are all idle, times their idleness,  *)
(* and asks for authorization anew before it plans, terminates and kills.  *)
(*                                                                         *)
(* Hooks and collector measure the processes first and take the state lock *)
(* afterwards, so that either may act on a table older than the state.  A  *)
(* hook leaves a marker before it starts and takes it away once recorded.  *)
(*                                                                         *)
(* Commands, CPU and network connections only ever exclude a helper or     *)
(* restart its clock: any may be excluded, and any clock restarted, at     *)
(* any time.                                                               *)
(***************************************************************************)
EXTENDS Integers

CONSTANTS Agents,
          Sessions,
          AgentOf,     \* the agent process that hosts a session
          ProjectOf,   \* the project of a session (cwd)
          Helpers,
          OwnerOf,     \* the agent whose descendant a helper is
          DevServers,  \* helpers that sessions of other agents may share
          Parents,     \* sessions that start a subagent
          Stopping,    \* sessions whose subagents run the Stop hook too
          Failing,     \* sessions whose hooks may fail
          Ending,      \* agents that may end
          Racing,      \* BOOLEAN: agents may start while somebody who has
                       \* measured has not finished yet
          Grace,       \* GC_IDLE_SEC
          LockWait,    \* 2 s: how long anybody waits for the state lock
          Passes       \* how often mc_kill_pids asks before it kills (3)

ASSUME IdleGCAssumption ==
  /\ AgentOf \in [Sessions -> Agents] /\ OwnerOf \in [Helpers -> Agents]
  /\ DevServers \subseteq Helpers
  /\ {Parents, Stopping, Failing} \subseteq SUBSET Sessions
  /\ Ending \subseteq Agents
  /\ Racing \in BOOLEAN
  /\ Grace \in Nat /\ LockWait \in Nat /\ LockWait < Grace
  /\ Passes \in Nat \ {0}

VARIABLES agents,      \* whether each agent is to come, lives or has ended
          turn,        \* sessions in a turn
          child,       \* sessions with a working subagent
          hook,        \* the hook each session and each subagent is in
          stuck,       \* a failed hook has left its marker
          sessions,    \* state.json: what is recorded of each session
          candidates,  \* state.json: how long each helper has been idle
          gc,          \* the collector's local state
          quiet,       \* history: time since an event of each helper's owner
          misled       \* history: sessions recorded as ended by a subagent's Stop

recorded == <<sessions, candidates, quiet, misled>>
vars == <<agents, turn, child, hook, stuck, recorded, gc>>

Threads == Sessions \X {"turn", "child"}
\* "childstop" is a Stop that carries the agent_id of a subagent.
Events == {"prompt", "tool", "stop", "substart", "childstop", "substop"}
Horizon == Grace + LockWait      \* no comparison tells longer times apart
Unknown == [phase |-> "unknown"]
Busy == -1                       \* not a candidate

Hook == [pc : {"none", "marked", "measured"}, event : Events,
         table : SUBSET Agents]
Session == [phase : {"active", "idle"}, children : BOOLEAN, ended : BOOLEAN]
Collector == [pc : {"measure", "clock", "decide", "confirm"}, round : 0..Passes,
              table : SUBSET Agents, lag : 0..LockWait,
              plan : SUBSET Helpers, granted : SUBSET Helpers]

TypeOK ==
  /\ agents \in [Agents -> {"new", "live", "gone"}]
  /\ turn \in SUBSET Sessions /\ child \in SUBSET Sessions
  /\ hook \in [Threads -> Hook]
  /\ stuck \in BOOLEAN
  /\ sessions \in [Sessions -> Session \cup {Unknown}]
  /\ candidates \in [Helpers -> {Busy} \cup 0..Horizon]
  /\ gc \in Collector
  /\ quiet \in [Helpers -> 0..Grace]
  /\ misled \in SUBSET Sessions

Pass(round, plan) == [pc |-> "measure", round |-> round, table |-> {}, lag |-> 0,
                      plan |-> plan, granted |-> {}]
Rest == Pass(0, {})              \* a scan is round 0
NoHook == [pc |-> "none", event |-> "prompt", table |-> {}]

Init ==
  /\ agents = [a \in Agents |-> "new"]
  /\ turn = {} /\ child = {} /\ stuck = FALSE
  /\ hook = [t \in Threads |-> NoHook]
  /\ sessions = [s \in Sessions |-> Unknown]
  /\ candidates = [h \in Helpers |-> Busy]
  /\ gc = Rest
  /\ quiet = [h \in Helpers |-> 0]
  /\ misled = {}

Live == {a \in Agents : agents[a] = "live"}

\* Mutant: only markers of failed hooks count.
PendingFailed == stuck

\* activity_pending
Pending == stuck \/ \E t \in Threads : hook[t].pc # "none"

\* Sessions whose owner is not in the table are dropped.
Present(table) == [s \in Sessions |-> IF AgentOf[s] \in table THEN sessions[s] ELSE Unknown]

(***************************************************************************)
(* Lifecycle hooks: mc_gc_event and Collector.event.                       *)
(***************************************************************************)
\* When an agent runs which hook; it waits for the hook before it goes on.
Occurs(s, thread, event) ==
  \/ thread = "turn" /\ event = "prompt" /\ s \notin turn
  \/ thread = "turn" /\ event \in {"tool", "stop"} /\ s \in turn
  \/ thread = "child" /\ event = "substart" /\ s \in Parents \cap (turn \ child)
  \/ thread = "child" /\ event \in {"tool", "substop"} /\ s \in child
  \/ thread = "child" /\ event = "childstop" /\ s \in child \cap Stopping

\* The marker is written; from now on a session counts as working.
Mark(s, thread, event) ==
  /\ agents[AgentOf[s]] = "live" /\ hook[<<s, thread>>].pc = "none"
  /\ Occurs(s, thread, event)
  /\ hook' = [hook EXCEPT ![<<s, thread>>] = [pc |-> "marked", event |-> event, table |-> {}]]
  /\ turn' = IF event = "prompt" THEN turn \cup {s} ELSE turn
  /\ child' = IF event = "substart" THEN child \cup {s} ELSE child
  /\ UNCHANGED <<agents, stuck, recorded, gc>>

\* process_table()
MeasureHook(s, thread) ==
  /\ hook[<<s, thread>>].pc = "marked"
  /\ hook' = [hook EXCEPT ![<<s, thread>>] =
                [pc |-> "measured", event |-> @.event, table |-> Live]]
  /\ UNCHANGED <<agents, turn, child, stuck, recorded, gc>>

AlreadyEnded(old) == old # Unknown /\ old.ended

\* Mutant: an event of the parent forgets its subagents.
NotedForgetful(old, event, tasks) ==
  LET children == event = "substart"
      ended == event \in {"stop", "childstop"} \/ (event = "substop" /\ AlreadyEnded(old))
  IN [phase |-> IF ended /\ ~children /\ ~tasks /\ event # "childstop"
                THEN "idle" ELSE "active",
      children |-> children, ended |-> ended]

\* The new record of a session.  tasks: background work that is not disposable.
\* "A child's Stop is not the parent's completion", but it is kept as one for
\* the SubagentStop that follows.
Noted(old, event, tasks) ==
  LET children == event = "substart" \/ (event # "substop" /\ old # Unknown /\ old.children)
      ended == event \in {"stop", "childstop"} \/ (event = "substop" /\ AlreadyEnded(old))
  IN [phase |-> IF ended /\ ~children /\ ~tasks /\ event # "childstop"
                THEN "idle" ELSE "active",
      children |-> children, ended |-> ended]

\* Mutant: an event only changes its session.
InvalidatedNever(a) == candidates

\* Every lifecycle event invalidates the clocks of its owner.
Invalidated(a) == [h \in Helpers |-> IF OwnerOf[h] = a THEN Busy ELSE candidates[h]]

\* The hook ends, and the agent goes on, or rests if it has stopped.
Return(s, thread) ==
  /\ hook' = [hook EXCEPT ![<<s, thread>>] = NoHook]
  /\ turn' = IF hook[<<s, thread>>].event = "stop" THEN turn \ {s} ELSE turn
  /\ child' = IF hook[<<s, thread>>].event = "substop" THEN child \ {s} ELSE child

\* The hook fails, or is killed, and leaves its marker.
HookFails(s, thread) ==
  /\ s \in Failing /\ hook[<<s, thread>>].pc # "none"
  /\ Return(s, thread) /\ stuck' = TRUE
  /\ UNCHANGED <<agents, recorded, gc>>

Note(s, event, table) ==
  /\ \E tasks \in BOOLEAN :
       /\ tasks => event \in {"stop", "childstop", "substop"}
       /\ sessions' = [Present(table) EXCEPT ![s] = Noted(sessions[s], event, tasks)]
  /\ candidates' = Invalidated(AgentOf[s])
  /\ quiet' = [h \in Helpers |-> IF OwnerOf[h] = AgentOf[s] THEN 0 ELSE quiet[h]]
  /\ misled' = IF event = "childstop" /\ ~AlreadyEnded(sessions[s]) THEN misled \cup {s}
               ELSE IF event \in {"childstop", "substop"} THEN misled
               ELSE misled \ {s}

\* The event is recorded, unless its agent is not in the table, and the marker
\* taken away, unless the hook is killed before it is.
Record(s, thread) ==
  LET own == hook[<<s, thread>>] IN
  /\ own.pc = "measured"
  /\ \/ AgentOf[s] \in own.table /\ Note(s, own.event, own.table)
     \/ AgentOf[s] \notin own.table /\ UNCHANGED recorded
  /\ \/ stuck' = stuck
     \/ s \in Failing /\ stuck' = TRUE
  /\ Return(s, thread)
  /\ UNCHANGED <<agents, gc>>

(***************************************************************************)
(* The collector: mc_reap_idle_helpers, and mc_kill_pids with its three    *)
(* passes through mc_filter_protected.                                     *)
(***************************************************************************)
\* process_table(); network_state() and simulators_clear() take longer.
Measure ==
  /\ gc.pc = "measure"
  /\ gc' = [gc EXCEPT !.pc = "clock", !.table = Live]
  /\ UNCHANGED <<agents, turn, child, hook, stuck, recorded>>

\* time.time(), before the lock.
Clock ==
  /\ gc.pc = "clock"
  /\ gc' = [gc EXCEPT !.pc = "decide", !.lag = 0]
  /\ UNCHANGED <<agents, turn, child, hook, stuck, recorded>>

Owned(a) == {s \in Sessions : AgentOf[s] = a /\ sessions[s] # Unknown}

\* eligible: every session of the owner is idle, and so is every recorded one
\* of a measured agent in the same project as a development server.
Eligible(h, table) ==
  LET owned == Owned(OwnerOf[h]) IN
  /\ OwnerOf[h] \in table
  /\ owned # {} /\ \A s \in owned : sessions[s].phase = "idle" /\ ~sessions[s].children
  /\ h \in DevServers =>
       \A s \in Sessions : /\ AgentOf[s] \in table
                           /\ ProjectOf[s] \in {ProjectOf[o] : o \in owned}
                           => sessions[s].phase # "active"

\* Idle since `grace` before the time that was read.
Ripe(age) == age - gc.lag >= Grace

\* Candidates keep their clocks only as long as nothing but time has changed.
Scan ==
  /\ gc.pc = "decide" /\ gc.round = 0 /\ ~Pending
  /\ \E found \in SUBSET {h \in Helpers : Eligible(h, gc.table)} :
     \E same \in SUBSET {h \in found : candidates[h] # Busy} :
       LET ready == {h \in same : Ripe(candidates[h])} IN
       /\ candidates' = [h \in Helpers |-> IF h \in same THEN candidates[h]
                                           ELSE IF h \in found THEN gc.lag ELSE Busy]
       /\ gc' = IF ready = {} THEN Rest ELSE Pass(1, ready)
  /\ sessions' = Present(gc.table)
  /\ UNCHANGED <<agents, turn, child, hook, stuck, quiet, misled>>

\* authorize, one process after the other, each under the lock.
Authorize(h) ==
  /\ gc.pc = "decide" /\ h \in gc.plan
  /\ \E grant \in BOOLEAN :
       /\ grant => /\ ~Pending /\ candidates[h] # Busy /\ Ripe(candidates[h])
                   /\ Eligible(h, gc.table)
       /\ gc' = [gc EXCEPT !.plan = @ \ {h},
                           !.granted = IF grant THEN @ \cup {h} ELSE @,
                           !.lag = 0, !.table = IF gc.plan = {h} THEN {} ELSE @,
                           !.pc = IF gc.plan = {h} THEN "confirm" ELSE "clock"]
  /\ UNCHANGED <<agents, turn, child, hook, stuck, recorded>>

\* A last look at the markers; then the next pass of mc_kill_pids: before it
\* logs, before SIGTERM, and two seconds later before SIGKILL.
Confirm ==
  /\ gc.pc = "confirm"
  /\ gc' = IF gc.granted = {} \/ Pending \/ gc.round = Passes THEN Rest
           ELSE Pass(gc.round + 1, gc.granted)
  /\ UNCHANGED <<agents, turn, child, hook, stuck, recorded>>

\* Nothing is done while an event is pending, memcap is paused, or when the
\* lock or a measurement cannot be had.
GivesUp ==
  /\ gc # Rest /\ gc' = Rest
  /\ UNCHANGED <<agents, turn, child, hook, stuck, recorded>>

(***************************************************************************)
(* Agents and time.                                                        *)
(***************************************************************************)
Measured == gc.pc # "measure" \/ \E t \in Threads : hook[t].pc = "measured"

AgentStarts(a) ==
  /\ agents[a] = "new" /\ (Measured => Racing)
  /\ agents' = [agents EXCEPT ![a] = "live"]
  /\ UNCHANGED <<turn, child, hook, stuck, recorded, gc>>

AgentEnds(a) ==
  /\ a \in Ending /\ agents[a] = "live"
  /\ agents' = [agents EXCEPT ![a] = "gone"]
  /\ turn' = {s \in turn : AgentOf[s] # a} /\ child' = {s \in child : AgentOf[s] # a}
  /\ UNCHANGED <<hook, stuck, recorded, gc>>

\* Mutant: clocks have no horizon.
OlderForEver(age, bound) == age + 1

Older(age, bound) == IF age < bound THEN age + 1 ELSE age

Tick ==
  /\ candidates' = [h \in Helpers |-> IF candidates[h] = Busy THEN Busy
                                      ELSE Older(candidates[h], Horizon)]
  /\ quiet' = [h \in Helpers |-> Older(quiet[h], Grace)]
  /\ gc' = IF gc.pc # "decide" THEN gc
           ELSE IF gc.lag < LockWait THEN [gc EXCEPT !.lag = @ + 1]
           ELSE Rest      \* "GC state lock unavailable"
  /\ UNCHANGED <<agents, turn, child, hook, stuck, sessions, misled>>

Next ==
  \/ Measure \/ Clock \/ Scan \/ Confirm \/ GivesUp \/ Tick
  \/ \E h \in Helpers : Authorize(h)
  \/ \E a \in Agents : AgentStarts(a) \/ AgentEnds(a)
  \/ \E s \in Sessions, thread \in {"turn", "child"} :
       \/ \E event \in Events : Mark(s, thread, event)
       \/ MeasureHook(s, thread) \/ Record(s, thread) \/ HookFails(s, thread)

Spec == Init /\ [][Next]_vars

(***************************************************************************)
(* Properties.                                                             *)
(***************************************************************************)
Granted(h) == h \in gc'.granted \ gc.granted
Working(s) == s \in turn \cup child

\* Except for a turn during which the last that was recorded, but for
\* SubagentStops, is the Stop of a subagent.
Evident(s) == s \in (turn \ misled) \cup child

\* No helper is given up to a signal while a session of its owner, or a
\* subagent of one, evidently works: whichever hooks are late, overlap or fail.
IdleWhenGranted ==
  [][\A h \in Helpers : Granted(h) =>
       \A s \in Sessions : AgentOf[s] = OwnerOf[h] => ~Evident(s)]_vars

\* The whole grace has passed since the last event of its owner, but for the
\* time a scan may wait for the lock.
GraceHonoured ==
  [][\A h \in Helpers : Granted(h) => quiet[h] >= Grace - LockWait]_vars

\* "An active recorded session in the same project protects a shared server."
ProjectRespected ==
  [][\A h \in DevServers : Granted(h) =>
       \A s \in Sessions, o \in Owned(OwnerOf[h]) :
         ProjectOf[s] = ProjectOf[o] => ~Evident(s)]_vars
=============================================================================
