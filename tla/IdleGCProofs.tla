---------------------------- MODULE IdleGCProofs ----------------------------
(***************************************************************************)
(* IdleGC: type correctness; the grace period; and, unless agents start    *)
(* while somebody who has measured has not finished yet, that no helper of *)
(* a working session is ever given up.                                     *)
(***************************************************************************)
EXTENDS IdleGC, TLAPS

LEMMA Sorts ==
  /\ AgentOf \in [Sessions -> Agents] /\ OwnerOf \in [Helpers -> Agents]
  /\ Grace \in Nat /\ LockWait \in Nat /\ Horizon \in Nat
  /\ LockWait < Grace /\ Horizon = Grace + LockWait
  /\ Passes \in Nat \ {0}
BY IdleGCAssumption DEF Horizon

LEMMA NotedType ==
  ASSUME NEW old \in Session \cup {Unknown}, NEW event \in Events, NEW tasks \in BOOLEAN
  PROVE  /\ Noted(old, event, tasks) \in Session
         /\ Noted(old, event, tasks) # Unknown
<1>1. Noted(old, event, tasks) \in Session
  BY DEF Noted, AlreadyEnded, Session
<1>2. Noted(old, event, tasks).phase # Unknown.phase
  BY DEF Noted, Unknown
<1> QED
  BY <1>1, <1>2

\* Time passes for a candidate's clock and for the history alike.
LEMMA OlderType ==
  ASSUME NEW bound \in Nat, NEW age \in 0..bound
  PROVE  Older(age, bound) \in 0..bound
BY DEF Older

\* What Scan does to the clocks and the plan, without its choice of helpers.
LEMMA ScanShape ==
  ASSUME Scan
  PROVE  \E found \in SUBSET Helpers, same \in SUBSET Helpers, ready \in SUBSET Helpers :
           /\ candidates' = [h \in Helpers |-> IF h \in same THEN candidates[h]
                                               ELSE IF h \in found THEN gc.lag ELSE Busy]
           /\ gc' = IF ready = {} THEN Rest ELSE Pass(1, ready)
<1>1. PICK found \in SUBSET {h \in Helpers : Eligible(h, gc.table)} :
        \E same \in SUBSET {h \in found : candidates[h] # Busy} :
          LET ready == {h \in same : Ripe(candidates[h])} IN
          /\ candidates' = [h \in Helpers |-> IF h \in same THEN candidates[h]
                                              ELSE IF h \in found THEN gc.lag ELSE Busy]
          /\ gc' = IF ready = {} THEN Rest ELSE Pass(1, ready)
  BY DEF Scan
<1>2. PICK same \in SUBSET {h \in found : candidates[h] # Busy} :
        LET ready == {h \in same : Ripe(candidates[h])} IN
        /\ candidates' = [h \in Helpers |-> IF h \in same THEN candidates[h]
                                            ELSE IF h \in found THEN gc.lag ELSE Busy]
        /\ gc' = IF ready = {} THEN Rest ELSE Pass(1, ready)
  BY <1>1
<1>3. {h \in same : Ripe(candidates[h])} \in SUBSET Helpers
  OBVIOUS
<1> QED
  BY <1>2, <1>3

LEMMA PassType ==
  ASSUME NEW round \in 0..Passes, NEW plan \in SUBSET Helpers
  PROVE  Pass(round, plan) \in Collector
<1>1. 0 \in 0..LockWait
  BY Sorts
<1> QED
  BY <1>1 DEF Pass, Collector

LEMMA RestType == Rest \in Collector
BY PassType, Sorts DEF Rest

LEMMA Typing == TypeOK /\ [Next]_vars => TypeOK'
<1> SUFFICES ASSUME TypeOK, [Next]_vars PROVE TypeOK'
  OBVIOUS
<1> USE Sorts
<1>a. Live \in SUBSET Agents
  BY DEF Live
<1>b. NoHook \in Hook
  BY DEF NoHook, Hook, Events
<1>1. CASE Measure
  <2>1. gc' \in Collector
    BY <1>1, <1>a DEF Measure, TypeOK, Collector
  <2> QED
    BY <2>1, <1>1 DEF Measure, TypeOK, recorded
<1>2. CASE Clock
  <2>1. 0 \in 0..LockWait
    OBVIOUS
  <2>2. gc' \in Collector
    BY <2>1, <1>2 DEF Clock, TypeOK, Collector
  <2> QED
    BY <2>2, <1>2 DEF Clock, TypeOK, recorded
<1>3. CASE Scan
  <2>1. PICK found \in SUBSET Helpers, same \in SUBSET Helpers, ready \in SUBSET Helpers :
          /\ candidates' = [h \in Helpers |-> IF h \in same THEN candidates[h]
                                              ELSE IF h \in found THEN gc.lag ELSE Busy]
          /\ gc' = IF ready = {} THEN Rest ELSE Pass(1, ready)
    BY <1>3, ScanShape
  <2>2. gc.lag \in 0..Horizon
    <3>1. gc.lag \in Nat /\ gc.lag <= LockWait
      BY <1>3 DEF Scan, TypeOK, Collector
    <3> QED
      BY <3>1
  <2>3. candidates' \in [Helpers -> {Busy} \cup 0..Horizon]
    BY <2>1, <2>2 DEF TypeOK
  <2>4. gc' \in Collector
    BY <2>1, RestType, PassType
  <2>5. sessions' \in [Sessions -> Session \cup {Unknown}]
    BY <1>3 DEF Scan, Present, TypeOK
  <2> QED
    BY <2>3, <2>4, <2>5, <1>3 DEF Scan, TypeOK
<1>4. CASE Confirm
  <2>1. gc' \in Collector
    <3>1. gc.granted \in SUBSET Helpers /\ gc.round \in 0..Passes
      BY DEF TypeOK, Collector
    <3>2. gc' = Rest \/ (gc.round # Passes /\ gc' = Pass(gc.round + 1, gc.granted))
      BY <1>4 DEF Confirm
    <3>3. gc.round # Passes => gc.round + 1 \in 0..Passes
      BY <3>1
    <3> QED
      BY <3>1, <3>2, <3>3, RestType, PassType
  <2> QED
    BY <2>1, <1>4 DEF Confirm, TypeOK, recorded
<1>5. CASE GivesUp
  BY <1>5, RestType DEF GivesUp, TypeOK, recorded
<1>6. CASE Tick
  <2>1. candidates' \in [Helpers -> {Busy} \cup 0..Horizon]
    BY <1>6, OlderType DEF Tick, TypeOK
  <2>2. quiet' \in [Helpers -> 0..Grace]
    BY <1>6, OlderType DEF Tick, TypeOK
  <2>3. gc' \in Collector
    <3>1. gc.lag \in 0..LockWait
      BY DEF TypeOK, Collector
    <3>2. gc.lag < LockWait => gc.lag + 1 \in 0..LockWait
      BY <3>1
    <3> QED
      BY <3>2, <1>6, RestType DEF Tick, TypeOK, Collector
  <2> QED
    BY <2>1, <2>2, <2>3, <1>6 DEF Tick, TypeOK
<1>7. ASSUME NEW h \in Helpers, Authorize(h) PROVE TypeOK'
  <2>1. gc' \in Collector
    <3>1. 0 \in 0..LockWait
      OBVIOUS
    <3>2. PICK grant \in BOOLEAN :
            gc' = [gc EXCEPT !.plan = @ \ {h},
                             !.granted = IF grant THEN @ \cup {h} ELSE @,
                             !.lag = 0, !.table = IF gc.plan = {h} THEN {} ELSE @,
                             !.pc = IF gc.plan = {h} THEN "confirm" ELSE "clock"]
      BY <1>7 DEF Authorize
    <3> QED
      BY <3>1, <3>2 DEF TypeOK, Collector
  <2> QED
    BY <2>1, <1>7 DEF Authorize, TypeOK, recorded
<1>8. ASSUME NEW a \in Agents, AgentStarts(a) \/ AgentEnds(a) PROVE TypeOK'
  BY <1>8 DEF AgentStarts, AgentEnds, TypeOK, recorded
<1>9. ASSUME NEW s \in Sessions, NEW thread \in {"turn", "child"},
             NEW event \in Events, Mark(s, thread, event)
      PROVE  TypeOK'
  <2>1. [pc |-> "marked", event |-> event, table |-> {}] \in Hook
    BY DEF Hook
  <2> QED
    BY <2>1, <1>9 DEF Mark, TypeOK, Threads, recorded
<1>10. ASSUME NEW s \in Sessions, NEW thread \in {"turn", "child"}, MeasureHook(s, thread)
       PROVE  TypeOK'
  <2>1. <<s, thread>> \in Threads
    BY DEF Threads
  <2>2. [pc |-> "measured", event |-> hook[<<s, thread>>].event, table |-> Live] \in Hook
    BY <2>1, <1>a DEF Hook, TypeOK
  <2> QED
    BY <2>1, <2>2, <1>10 DEF MeasureHook, TypeOK, recorded
<1>11. ASSUME NEW s \in Sessions, NEW thread \in {"turn", "child"}, Return(s, thread)
       PROVE  /\ hook' \in [Threads -> Hook]
              /\ turn' \in SUBSET Sessions /\ child' \in SUBSET Sessions
  BY <1>11, <1>b DEF Return, TypeOK
<1>12. ASSUME NEW s \in Sessions, NEW thread \in {"turn", "child"}, Record(s, thread)
       PROVE  TypeOK'
  <2> DEFINE own == hook[<<s, thread>>]
  <2>1. own.event \in Events
    BY DEF Threads, TypeOK, Hook
  <2>2. CASE UNCHANGED recorded
    BY <2>2, <1>11, <1>12 DEF Record, recorded, TypeOK
  <2>3. CASE Note(s, own.event, own.table)
    <3> HIDE DEF own
    <3>1. PICK tasks \in BOOLEAN :
            sessions' = [Present(own.table) EXCEPT ![s] = Noted(sessions[s], own.event, tasks)]
      BY <2>3 DEF Note
    <3>2. Noted(sessions[s], own.event, tasks) \in Session
      BY <2>1, NotedType DEF TypeOK
    <3>3. Present(own.table) \in [Sessions -> Session \cup {Unknown}]
      BY DEF Present, TypeOK
    <3>4. sessions' \in [Sessions -> Session \cup {Unknown}]
      BY <3>1, <3>2, <3>3
    <3>5. candidates' \in [Helpers -> {Busy} \cup 0..Horizon]
      BY <2>3 DEF Note, Invalidated, TypeOK
    <3>6. quiet' \in [Helpers -> 0..Grace]
      BY <2>3 DEF Note, TypeOK
    <3>9. misled' \in SUBSET Sessions
      BY <2>3 DEF Note, TypeOK
    <3>7. stuck' \in BOOLEAN /\ UNCHANGED <<agents, gc>>
      BY <1>12 DEF Record, TypeOK
    <3>8. /\ hook' \in [Threads -> Hook]
          /\ turn' \in SUBSET Sessions /\ child' \in SUBSET Sessions
      BY <1>11, <1>12 DEF Record
    <3> QED
      BY <3>4, <3>5, <3>6, <3>7, <3>8, <3>9 DEF TypeOK
  <2> QED
    BY <2>2, <2>3, <1>12 DEF Record
<1>13. ASSUME NEW s \in Sessions, NEW thread \in {"turn", "child"}, HookFails(s, thread)
       PROVE  TypeOK'
  BY <1>13, <1>11 DEF HookFails, TypeOK, recorded
<1>14. CASE UNCHANGED vars
  BY <1>14 DEF vars, recorded, TypeOK
<1> QED
  BY <1>1, <1>2, <1>3, <1>4, <1>5, <1>6, <1>7, <1>8, <1>9, <1>10, <1>12, <1>13, <1>14
     DEF Next

LEMMA InitTyped == Init => TypeOK
<1> SUFFICES ASSUME Init PROVE TypeOK
  OBVIOUS
<1>1. NoHook \in Hook
  BY DEF NoHook, Hook, Events
<1>2. /\ candidates \in [Helpers -> {Busy} \cup 0..Horizon]
      /\ quiet \in [Helpers -> 0..Grace]
  BY Sorts DEF Init
<1>3. hook \in [Threads -> Hook] /\ sessions \in [Sessions -> Session \cup {Unknown}]
  BY <1>1 DEF Init
<1> QED
  BY <1>2, <1>3, RestType DEF Init, TypeOK

\* The state has its types in every behaviour.
THEOREM TypeCorrect == Spec => []TypeOK
BY InitTyped, Typing, PTL DEF Spec

(***************************************************************************)
(* The grace period.                                                       *)
(***************************************************************************)
\* A clock runs ahead of its owner's last event at most by the time a scan
\* waited for the lock.
ClocksBehind ==
  \A h \in Helpers : candidates[h] # Busy => candidates[h] <= quiet[h] + LockWait

LEMMA ClocksStep == TypeOK /\ ClocksBehind /\ [Next]_vars => ClocksBehind'
<1> SUFFICES ASSUME TypeOK, ClocksBehind, [Next]_vars,
                    NEW h \in Helpers, candidates'[h] # Busy
             PROVE  candidates'[h] <= quiet'[h] + LockWait
  BY DEF ClocksBehind
<1> USE Sorts
<1>1. /\ candidates[h] # Busy => candidates[h] \in 0..Horizon /\ candidates[h] <= quiet[h] + LockWait
      /\ quiet[h] \in 0..Grace
  BY DEF TypeOK, ClocksBehind
<1>2. CASE UNCHANGED <<candidates, quiet>>
  BY <1>1, <1>2
<1>3. CASE Scan
  <2>1. PICK found \in SUBSET Helpers, same \in SUBSET Helpers :
          candidates' = [g \in Helpers |-> IF g \in same THEN candidates[g]
                                          ELSE IF g \in found THEN gc.lag ELSE Busy]
    BY <1>3, ScanShape
  <2>2. gc.lag \in Nat /\ gc.lag <= LockWait /\ quiet' = quiet
    BY <1>3 DEF Scan, TypeOK, Collector
  <2>3. candidates'[h] = candidates[h] \/ candidates'[h] = gc.lag
    BY <2>1
  <2> QED
    BY <2>2, <2>3, <1>1
<1>4. CASE Tick
  <2>1. candidates[h] # Busy
    BY <1>4 DEF Tick
  <2>2. /\ candidates'[h] = Older(candidates[h], Horizon)
        /\ quiet'[h] = Older(quiet[h], Grace)
    BY <2>1, <1>4 DEF Tick
  <2> QED
    BY <1>1, <2>1, <2>2 DEF Older
<1>5. ASSUME NEW s \in Sessions, NEW thread \in {"turn", "child"}, Record(s, thread)
      PROVE  candidates'[h] <= quiet'[h] + LockWait
  <2>1. CASE Note(s, hook[<<s, thread>>].event, hook[<<s, thread>>].table)
    BY <2>1, <1>1 DEF Note, Invalidated
  <2> QED
    BY <2>1, <1>2, <1>5 DEF Record, recorded
<1> QED
  BY <1>2, <1>3, <1>4, <1>5
     DEF Next, vars, recorded, Measure, Clock, Confirm, GivesUp, Authorize,
         AgentStarts, AgentEnds, Mark, MeasureHook, HookFails

\* What holds of the state and of its table when a signal is authorized.
LEMMA GrantedWhen ==
  ASSUME TypeOK, [Next]_vars, NEW h \in Helpers, Granted(h)
  PROVE  /\ gc.pc = "decide" /\ ~Pending
         /\ candidates[h] # Busy /\ Ripe(candidates[h]) /\ Eligible(h, gc.table)
<1>1. ASSUME NEW g \in Helpers, Authorize(g)
      PROVE  /\ gc.pc = "decide" /\ ~Pending
             /\ candidates[h] # Busy /\ Ripe(candidates[h]) /\ Eligible(h, gc.table)
  <2>1. PICK grant \in BOOLEAN :
          /\ grant => /\ ~Pending /\ candidates[g] # Busy /\ Ripe(candidates[g])
                      /\ Eligible(g, gc.table)
          /\ gc' = [gc EXCEPT !.plan = @ \ {g},
                              !.granted = IF grant THEN @ \cup {g} ELSE @,
                              !.lag = 0, !.table = IF gc.plan = {g} THEN {} ELSE @,
                              !.pc = IF gc.plan = {g} THEN "confirm" ELSE "clock"]
    BY <1>1 DEF Authorize
  <2>2. gc'.granted = IF grant THEN gc.granted \cup {g} ELSE gc.granted
    BY <2>1 DEF TypeOK, Collector
  <2>3. grant /\ h = g
    BY <2>2 DEF Granted
  <2> QED
    BY <2>1, <2>3, <1>1 DEF Authorize
<1>2. Rest.granted = {} /\ \A round, plan : Pass(round, plan).granted = {}
  BY DEF Rest, Pass
<1>3. CASE Measure \/ Clock \/ Tick
  <2>1. CASE gc' = Rest
    BY <2>1, <1>2 DEF Granted
  <2>2. CASE gc' # Rest
    <3>1. CASE Measure
      BY <3>1 DEF Measure, Granted, TypeOK, Collector
    <3>2. CASE Clock
      BY <3>2 DEF Clock, Granted, TypeOK, Collector
    <3>3. CASE Tick
      <4>1. gc' = gc \/ gc' = [gc EXCEPT !.lag = @ + 1]
        BY <2>2, <3>3 DEF Tick
      <4> QED
        BY <4>1 DEF Granted, TypeOK, Collector
    <3> QED
      BY <1>3, <3>1, <3>2, <3>3
  <2> QED
    BY <2>1, <2>2
<1>4. CASE Scan \/ Confirm \/ GivesUp
  BY <1>4, <1>2, ScanShape DEF Confirm, GivesUp, Granted
<1>5. CASE UNCHANGED gc
  BY <1>5 DEF Granted
<1> QED
  BY <1>1, <1>3, <1>4, <1>5
     DEF Next, vars, AgentStarts, AgentEnds, Mark, MeasureHook, Record, HookFails

\* No helper is given up before the grace period has passed since the last
\* event of its owner, but for the time a scan may wait for the lock.
THEOREM GraceTheorem == Spec => GraceHonoured
<1> DEFINE Graceful == \A h \in Helpers : Granted(h) => quiet[h] >= Grace - LockWait
<1>1. Init => ClocksBehind
  BY DEF Init, ClocksBehind
<1>2. TypeOK /\ ClocksBehind /\ [Next]_vars => [Graceful]_vars
  <2> SUFFICES ASSUME TypeOK, ClocksBehind, [Next]_vars, NEW h \in Helpers, Granted(h)
               PROVE  quiet[h] >= Grace - LockWait
    OBVIOUS
  <2>1. candidates[h] # Busy /\ candidates[h] - gc.lag >= Grace
    BY GrantedWhen DEF Ripe
  <2>2. /\ candidates[h] \in Nat /\ quiet[h] \in Nat /\ gc.lag \in Nat
        /\ candidates[h] <= quiet[h] + LockWait
    BY <2>1, Sorts DEF TypeOK, ClocksBehind, Collector
  <2> QED
    BY <2>1, <2>2, Sorts
<1>3. Spec => [](TypeOK /\ ClocksBehind)
  BY <1>1, InitTyped, Typing, ClocksStep, PTL DEF Spec
<1>4. Spec => [][Graceful]_vars
  BY <1>2, <1>3, PTL DEF Spec
<1> QED
  BY <1>4 DEF GraceHonoured

(***************************************************************************)
(* Working sessions.  The inductive invariant says what is recorded of     *)
(* them while no hook is on its way.                                       *)
(***************************************************************************)
\* Whoever has measured has seen every agent that lives.
TablesComplete ==
  /\ \A t \in Threads : hook[t].pc = "measured" => Live \subseteq hook[t].table
  /\ gc.pc \in {"clock", "decide"} => Live \subseteq gc.table

WorkersLive == \A s \in Sessions : Working(s) => AgentOf[s] \in Live

ChildEvents == {"substart", "tool", "childstop", "substop"}

EventsOfThreads ==
  \A s \in Sessions :
    /\ hook[<<s, "turn">>].pc # "none" => hook[<<s, "turn">>].event \in {"prompt", "tool", "stop"}
    /\ hook[<<s, "child">>].pc # "none" =>
         hook[<<s, "child">>].event \in ChildEvents

TurnRecorded(s) == sessions[s] # Unknown /\ (sessions[s].ended => s \in misled)
ChildRecorded(s) == sessions[s] # Unknown /\ sessions[s].children

TurnsRecorded ==
  \A s \in turn : hook[<<s, "turn">>].pc = "none" => TurnRecorded(s)
ChildrenRecorded ==
  \A s \in child :
    hook[<<s, "child">>].pc = "none" \/ hook[<<s, "child">>].event \in {"tool", "childstop"}
    => ChildRecorded(s)
WorkersRecorded == ~stuck => TurnsRecorded /\ ChildrenRecorded

IdleMeansEnded ==
  \A s \in Sessions : sessions[s] # Unknown /\ sessions[s].phase = "idle" =>
                          sessions[s].ended /\ ~sessions[s].children

IInv == TypeOK /\ TablesComplete /\ WorkersLive /\ EventsOfThreads /\ WorkersRecorded /\ IdleMeansEnded

\* Hooks of other sessions and threads are left alone, and its own ends.
LEMMA Returned ==
  ASSUME TypeOK, NEW s \in Sessions, NEW thread \in {"turn", "child"}, Return(s, thread)
  PROVE  /\ hook'[<<s, thread>>] = NoHook
         /\ \A t \in Threads : t # <<s, thread>> => hook'[t] = hook[t]
         /\ turn' \subseteq turn /\ child' \subseteq child
<1>1. <<s, thread>> \in Threads
  BY DEF Threads
<1> QED
  BY <1>1 DEF Return, TypeOK

\* Only these actions touch the hooks, and this is what they do to them.
LEMMA HookStep ==
  ASSUME TypeOK, [Next]_vars, NEW t \in Threads
  PROVE  \/ hook'[t] = hook[t]
         \/ hook'[t] = NoHook
         \/ hook'[t].pc = "marked"
         \/ /\ hook[t].pc = "marked" /\ hook'[t].event = hook[t].event
            /\ hook'[t].table = Live /\ UNCHANGED <<agents, gc>>
<1>1. ASSUME NEW s \in Sessions, NEW thread \in {"turn", "child"}, NEW event \in Events,
             Mark(s, thread, event)
      PROVE  hook'[t] = hook[t] \/ hook'[t].pc = "marked"
  BY <1>1 DEF Mark, TypeOK
<1>2. ASSUME NEW s \in Sessions, NEW thread \in {"turn", "child"}, MeasureHook(s, thread)
      PROVE  \/ hook'[t] = hook[t]
             \/ /\ hook[t].pc = "marked" /\ hook'[t].event = hook[t].event
                /\ hook'[t].table = Live /\ UNCHANGED <<agents, gc>>
  BY <1>2 DEF MeasureHook, TypeOK
<1>3. ASSUME NEW s \in Sessions, NEW thread \in {"turn", "child"},
             Record(s, thread) \/ HookFails(s, thread)
      PROVE  hook'[t] = hook[t] \/ hook'[t] = NoHook
  BY <1>3, Returned DEF Record, HookFails
<1>4. CASE UNCHANGED hook
  BY <1>4
<1> QED
  BY <1>1, <1>2, <1>3, <1>4
     DEF Next, vars, Measure, Clock, Scan, Confirm, GivesUp, Authorize, Tick,
         AgentStarts, AgentEnds

LEMMA LiveStep ==
  ASSUME ~Racing, TypeOK, [Next]_vars
  PROVE  \/ Live' \subseteq Live
         \/ ~Measured /\ UNCHANGED <<hook, gc, turn, child>> /\ Live \subseteq Live'
<1>1. ASSUME NEW a \in Agents, AgentStarts(a)
      PROVE  ~Measured /\ UNCHANGED <<hook, gc, turn, child>> /\ Live \subseteq Live'
  BY <1>1 DEF AgentStarts, Live, TypeOK
<1>2. ASSUME NEW a \in Agents, AgentEnds(a) PROVE Live' \subseteq Live
  BY <1>2 DEF AgentEnds, Live, TypeOK
<1>3. CASE UNCHANGED agents
  BY <1>3 DEF Live
<1> QED
  BY <1>1, <1>2, <1>3
     DEF Next, vars, Measure, Clock, Scan, Confirm, GivesUp, Authorize, Tick,
         Mark, MeasureHook, Record, HookFails

LEMMA TablesStep ==
  ASSUME ~Racing, TypeOK, TablesComplete, [Next]_vars
  PROVE  TablesComplete'
<1>1. CASE ~Measured /\ UNCHANGED <<hook, gc>>
  BY <1>1 DEF Measured, TablesComplete
<1>2. CASE Live' \subseteq Live
  <2>1. ASSUME NEW t \in Threads, hook'[t].pc = "measured"
        PROVE  Live' \subseteq hook'[t].table
    BY <2>1, <1>2, HookStep DEF TablesComplete, NoHook
  <2>2. ASSUME gc'.pc \in {"clock", "decide"} PROVE Live' \subseteq gc'.table
    <3>1. CASE Measure
      BY <3>1, <1>2 DEF Measure, TypeOK, Collector
    <3>2. CASE Clock \/ Tick
      <4>1. Rest.pc = "measure"
        BY DEF Rest, Pass
      <4>2. gc' # Rest
        BY <4>1, <2>2
      <4> QED
        BY <4>2, <2>2, <3>2, <1>2 DEF Clock, Tick, TablesComplete, TypeOK, Collector
    <3>3. CASE Scan \/ Confirm \/ GivesUp
      <4>1. Rest.pc = "measure" /\ \A round, plan : Pass(round, plan).pc = "measure"
        BY DEF Rest, Pass
      <4> QED
        BY <4>1, <2>2, <3>3, ScanShape DEF Confirm, GivesUp
    <3>4. ASSUME NEW h \in Helpers, Authorize(h) PROVE Live' \subseteq gc'.table
      BY <2>2, <3>4, <1>2 DEF Authorize, TablesComplete, TypeOK, Collector
    <3>5. CASE UNCHANGED gc
      BY <2>2, <3>5, <1>2 DEF TablesComplete
    <3> QED
      BY <3>1, <3>2, <3>3, <3>4, <3>5
         DEF Next, vars, AgentStarts, AgentEnds, Mark, MeasureHook, Record, HookFails
  <2> QED
    BY <2>1, <2>2 DEF TablesComplete
<1> QED
  BY <1>1, <1>2, LiveStep

LEMMA WorkersLiveStep ==
  ASSUME TypeOK, WorkersLive, [Next]_vars
  PROVE  WorkersLive'
<1> SUFFICES ASSUME NEW s \in Sessions, Working(s)' PROVE AgentOf[s] \in Live'
  BY DEF WorkersLive
<1>0. AgentOf[s] \in Agents
  BY Sorts
<1>1. Working(s) => agents[AgentOf[s]] = "live"
  BY DEF WorkersLive, Live
<1>2. ASSUME NEW x \in Sessions, NEW thread \in {"turn", "child"}, NEW event \in Events,
             Mark(x, thread, event)
      PROVE  AgentOf[s] \in Live'
  BY <1>0, <1>1, <1>2 DEF Mark, Working, Live
<1>3. ASSUME NEW x \in Sessions, NEW thread \in {"turn", "child"},
             Record(x, thread) \/ HookFails(x, thread)
      PROVE  AgentOf[s] \in Live'
  BY <1>0, <1>1, <1>3, Returned DEF Record, HookFails, Working, Live
<1>4. ASSUME NEW a \in Agents, AgentStarts(a) PROVE AgentOf[s] \in Live'
  BY <1>0, <1>1, <1>4 DEF AgentStarts, Working, Live, TypeOK
<1>5. ASSUME NEW a \in Agents, AgentEnds(a) PROVE AgentOf[s] \in Live'
  BY <1>0, <1>1, <1>5 DEF AgentEnds, Working, Live, TypeOK
<1>6. CASE UNCHANGED <<agents, turn, child>>
  BY <1>0, <1>1, <1>6 DEF Working, Live
<1> QED
  BY <1>2, <1>3, <1>4, <1>5, <1>6
     DEF Next, vars, Measure, Clock, Scan, Confirm, GivesUp, Authorize, Tick, MeasureHook

LEMMA EventsStep ==
  ASSUME TypeOK, EventsOfThreads, [Next]_vars
  PROVE  EventsOfThreads'
<1> SUFFICES ASSUME NEW s \in Sessions
             PROVE  /\ hook'[<<s, "turn">>].pc # "none" =>
                         hook'[<<s, "turn">>].event \in {"prompt", "tool", "stop"}
                    /\ hook'[<<s, "child">>].pc # "none" =>
                         hook'[<<s, "child">>].event \in ChildEvents
  BY DEF EventsOfThreads
<1>1. <<s, "turn">> \in Threads /\ <<s, "child">> \in Threads
  BY DEF Threads
<1>2. ASSUME NEW x \in Sessions, NEW thread \in {"turn", "child"}, NEW event \in Events,
             Mark(x, thread, event)
      PROVE  /\ hook'[<<s, "turn">>].pc # "none" =>
                  hook'[<<s, "turn">>].event \in {"prompt", "tool", "stop"}
             /\ hook'[<<s, "child">>].pc # "none" =>
                  hook'[<<s, "child">>].event \in ChildEvents
  BY <1>1, <1>2 DEF Mark, Occurs, EventsOfThreads, ChildEvents, TypeOK
<1>3. ASSUME NEW x \in Sessions, NEW thread \in {"turn", "child"}, MeasureHook(x, thread)
      PROVE  /\ hook'[<<s, "turn">>].pc # "none" =>
                  hook'[<<s, "turn">>].event \in {"prompt", "tool", "stop"}
             /\ hook'[<<s, "child">>].pc # "none" =>
                  hook'[<<s, "child">>].event \in ChildEvents
  BY <1>1, <1>3 DEF MeasureHook, EventsOfThreads, TypeOK
<1>4. ASSUME NEW x \in Sessions, NEW thread \in {"turn", "child"},
             Record(x, thread) \/ HookFails(x, thread)
      PROVE  \A t \in Threads : hook'[t] = hook[t] \/ hook'[t] = NoHook
  BY <1>4, Returned DEF Record, HookFails
<1>5. CASE \A t \in Threads : hook'[t] = hook[t] \/ hook'[t] = NoHook
  BY <1>1, <1>5 DEF EventsOfThreads, NoHook
<1>6. CASE UNCHANGED hook
  BY <1>6 DEF EventsOfThreads
<1> QED
  BY <1>2, <1>3, <1>4, <1>5, <1>6
     DEF Next, vars, Measure, Clock, Scan, Confirm, GivesUp, Authorize, Tick,
         AgentStarts, AgentEnds

\* The fields of a new record.
LEMMA NotedFields ==
  ASSUME NEW old \in Session \cup {Unknown}, NEW event \in Events, NEW tasks \in BOOLEAN,
         NEW new, new = Noted(old, event, tasks)
  PROVE  /\ new.children <=>
              event = "substart" \/ (event # "substop" /\ old # Unknown /\ old.children)
         /\ new.ended <=>
              event \in {"stop", "childstop"} \/ (event = "substop" /\ AlreadyEnded(old))
         /\ new.phase = "idle" => new.ended /\ ~new.children
BY DEF Noted, AlreadyEnded

\* What a hook records of its own session and of the others.
LEMMA NoteShape ==
  ASSUME TypeOK, NEW x \in Sessions, NEW event \in Events, NEW table,
         Note(x, event, table)
  PROVE  /\ \E tasks \in BOOLEAN : sessions'[x] = Noted(sessions[x], event, tasks)
         /\ \A s \in Sessions : s # x =>
              sessions'[s] = IF AgentOf[s] \in table THEN sessions[s] ELSE Unknown
         /\ \A s \in Sessions : s # x /\ s \in misled => s \in misled'
         /\ event = "childstop" /\ ~AlreadyEnded(sessions[x]) => x \in misled'
         /\ event \in {"childstop", "substop"} /\ x \in misled => x \in misled'
<1>1. PICK tasks \in BOOLEAN :
        sessions' = [Present(table) EXCEPT ![x] = Noted(sessions[x], event, tasks)]
  BY DEF Note
<1>2. Present(table) = [s \in Sessions |-> IF AgentOf[s] \in table THEN sessions[s] ELSE Unknown]
  BY DEF Present
<1>3. misled' = IF event = "childstop" /\ ~AlreadyEnded(sessions[x]) THEN misled \cup {x}
                ELSE IF event \in {"childstop", "substop"} THEN misled
                ELSE misled \ {x}
  BY DEF Note
<1>4. /\ \A s \in Sessions : s # x /\ s \in misled => s \in misled'
      /\ event = "childstop" /\ ~AlreadyEnded(sessions[x]) => x \in misled'
      /\ event \in {"childstop", "substop"} /\ x \in misled => x \in misled'
  BY <1>3
<1> QED
  BY <1>1, <1>2, <1>4

LEMMA IdleMeansEndedStep ==
  ASSUME TypeOK, IdleMeansEnded, [Next]_vars
  PROVE  IdleMeansEnded'
<1>1. CASE Scan
  BY <1>1 DEF Scan, Present, IdleMeansEnded
<1>2. ASSUME NEW x \in Sessions, NEW thread \in {"turn", "child"}, Record(x, thread)
      PROVE  IdleMeansEnded'
  <2> DEFINE own == hook[<<x, thread>>]
  <2>1. own.event \in Events
    BY DEF TypeOK, Threads, Hook
  <2> HIDE DEF own
  <2>2. CASE Note(x, own.event, own.table)
    <3>1. PICK tasks \in BOOLEAN : sessions'[x] = Noted(sessions[x], own.event, tasks)
      BY <2>1, <2>2, NoteShape
    <3>2. \A s \in Sessions : s # x => sessions'[s] \in {sessions[s], Unknown}
      BY <2>1, <2>2, NoteShape
    <3>3. sessions'[x].phase = "idle" => sessions'[x].ended /\ ~sessions'[x].children
      <4>1. sessions[x] \in Session \cup {Unknown}
        BY DEF TypeOK
      <4> QED
        BY <4>1, <3>1, <2>1, NotedFields
    <3> QED
      BY <3>2, <3>3 DEF IdleMeansEnded
  <2>3. CASE UNCHANGED recorded
    BY <2>3 DEF recorded, IdleMeansEnded
  <2> QED
    BY <2>2, <2>3, <1>2 DEF Record, own
<1>3. CASE UNCHANGED sessions
  BY <1>3 DEF IdleMeansEnded
<1> QED
  BY <1>1, <1>2, <1>3
     DEF Next, vars, recorded, Measure, Clock, Confirm, GivesUp, Authorize, Tick,
         AgentStarts, AgentEnds, Mark, MeasureHook, HookFails

LEMMA RecordedStep ==
  ASSUME ~Racing, IInv, [Next]_vars
  PROVE  WorkersRecorded'
<1> SUFFICES ASSUME ~stuck' PROVE TurnsRecorded' /\ ChildrenRecorded'
  BY DEF WorkersRecorded
<1> USE DEF IInv
<1>1. TurnsRecorded /\ ChildrenRecorded
  <2>1. ~stuck
    BY DEF Next, vars, Measure, Clock, Scan, Confirm, GivesUp, Authorize, Tick,
           AgentStarts, AgentEnds, Mark, MeasureHook, Record, HookFails
  <2> QED
    BY <2>1 DEF WorkersRecorded
<1>2. \A s \in Sessions : <<s, "turn">> \in Threads /\ <<s, "child">> \in Threads
  BY DEF Threads
<1>3. turn \subseteq Sessions /\ child \subseteq Sessions
  BY DEF TypeOK
<1>4. CASE Scan
  <2>1. \A s \in Sessions : Working(s) => sessions'[s] = sessions[s]
    BY <1>4 DEF Scan, Present, WorkersLive, TablesComplete
  <2> QED
    BY <2>1, <1>1, <1>3, <1>4
       DEF Scan, TurnsRecorded, ChildrenRecorded, TurnRecorded, ChildRecorded, Working
<1>5. ASSUME NEW x \in Sessions, NEW thread \in {"turn", "child"}, NEW event \in Events,
             Mark(x, thread, event)
      PROVE  TurnsRecorded' /\ ChildrenRecorded'
  <2>1. /\ UNCHANGED <<sessions, misled>> /\ hook[<<x, thread>>].pc = "none"
        /\ \A t \in Threads : t # <<x, thread>> => hook'[t] = hook[t]
        /\ hook'[<<x, thread>>] = [pc |-> "marked", event |-> event, table |-> {}]
    BY <1>5, <1>2 DEF Mark, recorded, TypeOK
  <2>2. TurnsRecorded'
    <3>1. ASSUME NEW s \in turn', hook'[<<s, "turn">>].pc = "none"
          PROVE  s \in turn /\ hook[<<s, "turn">>].pc = "none"
      BY <3>1, <2>1, <1>2, <1>3, <1>5 DEF Mark, Occurs
    <3> QED
      BY <3>1, <2>1, <1>1 DEF TurnsRecorded, TurnRecorded
  <2>3. ChildrenRecorded'
    <3>1. ASSUME NEW s \in child',
                 \/ hook'[<<s, "child">>].pc = "none"
                 \/ hook'[<<s, "child">>].event \in {"tool", "childstop"}
          PROVE  /\ s \in child
                 /\ \/ hook[<<s, "child">>].pc = "none"
                    \/ hook[<<s, "child">>].event \in {"tool", "childstop"}
      BY <3>1, <2>1, <1>2, <1>3, <1>5 DEF Mark, Occurs
    <3> QED
      BY <3>1, <2>1, <1>1 DEF ChildrenRecorded, ChildRecorded
  <2> QED
    BY <2>2, <2>3
<1>6. ASSUME NEW x \in Sessions, NEW thread \in {"turn", "child"}, MeasureHook(x, thread)
      PROVE  TurnsRecorded' /\ ChildrenRecorded'
  <2>1. \A t \in Threads : /\ hook'[t].event = hook[t].event
                           /\ hook'[t].pc = "none" => hook[t].pc = "none"
    BY <1>6, <1>2 DEF MeasureHook, TypeOK
  <2> QED
    BY <2>1, <1>1, <1>2, <1>3, <1>6
       DEF MeasureHook, recorded, TurnsRecorded, ChildrenRecorded, TurnRecorded, ChildRecorded
<1>7. ASSUME NEW x \in Sessions, NEW thread \in {"turn", "child"}, Record(x, thread)
      PROVE  TurnsRecorded' /\ ChildrenRecorded'
  <2> DEFINE own == hook[<<x, thread>>]
  <2>1. /\ own.pc = "measured" /\ own.event \in Events /\ Live \subseteq own.table
        /\ thread = "turn" => own.event \in {"prompt", "tool", "stop"}
        /\ thread = "child" => own.event \in ChildEvents
    BY <1>7, <1>2 DEF Record, TypeOK, Threads, Hook, TablesComplete, EventsOfThreads
  <2>2. /\ hook'[<<x, thread>>] = NoHook
        /\ \A t \in Threads : t # <<x, thread>> => hook'[t] = hook[t]
        /\ turn' \subseteq turn /\ child' \subseteq child
    BY <1>7, Returned DEF Record
  <2>3. /\ own.event = "stop" => x \notin turn'
        /\ own.event = "substop" => x \notin child'
    BY <1>7 DEF Record, Return
  <2>4. \/ AgentOf[x] \in own.table /\ Note(x, own.event, own.table)
        \/ AgentOf[x] \notin own.table /\ UNCHANGED <<sessions, misled>>
    BY <1>7 DEF Record, recorded
  <2> HIDE DEF own
  <2>5. \A s \in Sessions : Working(s) => AgentOf[s] \in own.table
    BY <2>1 DEF WorkersLive
  <2>6. \A s \in Sessions : Working(s) /\ s # x =>
                               /\ sessions'[s] = sessions[s]
                               /\ s \in misled => s \in misled'
    BY <2>1, <2>4, <2>5, NoteShape
  <2>7. ASSUME Working(x)
        PROVE  /\ sessions'[x] # Unknown
               /\ sessions'[x].children <=>
                    \/ own.event = "substart"
                    \/ own.event # "substop" /\ sessions[x] # Unknown /\ sessions[x].children
               /\ sessions'[x].ended <=>
                    \/ own.event \in {"stop", "childstop"}
                    \/ own.event = "substop" /\ AlreadyEnded(sessions[x])
               /\ own.event = "childstop" /\ ~AlreadyEnded(sessions[x]) => x \in misled'
               /\ own.event \in {"childstop", "substop"} /\ x \in misled => x \in misled'
    <3>1. PICK tasks \in BOOLEAN : sessions'[x] = Noted(sessions[x], own.event, tasks)
      BY <2>1, <2>4, <2>5, <2>7, NoteShape
    <3>2. sessions[x] \in Session \cup {Unknown}
      BY DEF TypeOK
    <3>3. sessions'[x] # Unknown
      BY <3>1, <3>2, <2>1, NotedType
    <3>4. /\ sessions'[x].children <=>
               \/ own.event = "substart"
               \/ own.event # "substop" /\ sessions[x] # Unknown /\ sessions[x].children
          /\ sessions'[x].ended <=>
               \/ own.event \in {"stop", "childstop"}
               \/ own.event = "substop" /\ AlreadyEnded(sessions[x])
      BY <3>1, <3>2, <2>1, NotedFields
    <3>5. /\ own.event = "childstop" /\ ~AlreadyEnded(sessions[x]) => x \in misled'
          /\ own.event \in {"childstop", "substop"} /\ x \in misled => x \in misled'
      BY <2>1, <2>4, <2>5, <2>7, NoteShape
    <3> QED
      BY <3>3, <3>4, <3>5
  <2>8. TurnsRecorded'
    <3> SUFFICES ASSUME NEW s \in turn', hook'[<<s, "turn">>].pc = "none"
                 PROVE  sessions'[s] # Unknown /\ (sessions'[s].ended => s \in misled')
      BY DEF TurnsRecorded, TurnRecorded
    <3>1. s \in turn /\ s \in Sessions /\ Working(s)
      BY <2>2, <1>3 DEF Working
    <3>2. CASE s # x
      BY <3>1, <3>2, <2>2, <2>6, <1>1, <1>2 DEF TurnsRecorded, TurnRecorded
    <3>3. CASE s = x /\ thread = "turn"
      BY <3>1, <3>3, <2>1, <2>3, <2>7
    <3>4. CASE s = x /\ thread = "child"
      <4>1. TurnRecorded(x)
        BY <3>1, <3>4, <2>2, <1>1, <1>2 DEF TurnsRecorded
      <4> QED
        BY <4>1, <3>1, <3>4, <2>1, <2>7 DEF TurnRecorded, AlreadyEnded, ChildEvents
    <3> QED
      BY <3>2, <3>3, <3>4
  <2>9. ChildrenRecorded'
    <3> SUFFICES ASSUME NEW s \in child',
                        \/ hook'[<<s, "child">>].pc = "none"
                        \/ hook'[<<s, "child">>].event \in {"tool", "childstop"}
                 PROVE  sessions'[s] # Unknown /\ sessions'[s].children
      BY DEF ChildrenRecorded, ChildRecorded
    <3>1. s \in child /\ s \in Sessions /\ Working(s)
      BY <2>2, <1>3 DEF Working
    <3>2. CASE s # x
      BY <3>1, <3>2, <2>2, <2>6, <1>1, <1>2 DEF ChildrenRecorded, ChildRecorded
    <3>3. CASE s = x /\ thread = "turn"
      <4>1. ChildRecorded(x)
        BY <3>1, <3>3, <2>2, <1>1, <1>2 DEF ChildrenRecorded
      <4> QED
        BY <4>1, <3>1, <3>3, <2>1, <2>7 DEF ChildRecorded
    <3>4. CASE s = x /\ thread = "child"
      <4>1. own.event \in {"tool", "childstop"} => ChildRecorded(x)
        BY <3>1, <3>4, <1>1 DEF ChildrenRecorded, own
      <4> QED
        BY <4>1, <3>1, <3>4, <2>1, <2>3, <2>7 DEF ChildRecorded, ChildEvents
    <3> QED
      BY <3>2, <3>3, <3>4
  <2> QED
    BY <2>8, <2>9
<1>8. ASSUME NEW a \in Agents, AgentEnds(a) PROVE TurnsRecorded' /\ ChildrenRecorded'
  BY <1>8, <1>1 DEF AgentEnds, recorded, TurnsRecorded, ChildrenRecorded, TurnRecorded, ChildRecorded
<1>9. CASE UNCHANGED <<turn, child, hook, sessions, misled>>
  BY <1>1, <1>9 DEF TurnsRecorded, ChildrenRecorded, TurnRecorded, ChildRecorded
<1>10. ASSUME NEW x \in Sessions, NEW thread \in {"turn", "child"}, HookFails(x, thread)
       PROVE  FALSE
  BY <1>10 DEF HookFails
<1> QED
  BY <1>4, <1>5, <1>6, <1>7, <1>8, <1>9, <1>10
     DEF Next, vars, recorded, Measure, Clock, Confirm, GivesUp, Authorize, Tick, AgentStarts

LEMMA Inductive ==
  ASSUME ~Racing
  PROVE  /\ Init => IInv
         /\ IInv /\ [Next]_vars => IInv'
<1>1. Init => IInv
  <2> SUFFICES ASSUME Init PROVE IInv
    OBVIOUS
  <2>1. \A t \in Threads : hook[t].pc = "none"
    BY DEF Init, NoHook
  <2>2. gc.pc = "measure"
    BY DEF Init, Rest, Pass
  <2>3. TablesComplete
    BY <2>1, <2>2 DEF TablesComplete
  <2>4. \A s \in Sessions : <<s, "turn">> \in Threads /\ <<s, "child">> \in Threads
    BY DEF Threads
  <2> QED
    BY <2>1, <2>3, <2>4, InitTyped
       DEF Init, IInv, WorkersLive, EventsOfThreads, WorkersRecorded, TurnsRecorded,
           ChildrenRecorded, IdleMeansEnded, Working
<1>2. IInv /\ [Next]_vars => IInv'
  BY Typing, TablesStep, WorkersLiveStep, EventsStep, RecordedStep, IdleMeansEndedStep DEF IInv
<1> QED
  BY <1>1, <1>2

\* A working session is recorded as such whenever a signal is authorized.
LEMMA WorkerSeen ==
  ASSUME IInv, [Next]_vars, NEW h \in Helpers, Granted(h), NEW s \in Sessions, Evident(s)
  PROVE  /\ sessions[s] # Unknown /\ AgentOf[s] \in gc.table
         /\ sessions[s].phase = "active"
<1> USE DEF IInv
<1>1. ~stuck /\ \A t \in Threads : hook[t].pc = "none"
  BY GrantedWhen DEF Pending
<1>2. <<s, "turn">> \in Threads /\ <<s, "child">> \in Threads
  BY DEF Threads
<1>3. (s \notin misled /\ TurnRecorded(s)) \/ ChildRecorded(s)
  BY <1>1, <1>2 DEF WorkersRecorded, TurnsRecorded, ChildrenRecorded, Evident
<1>4. sessions[s] # Unknown /\ sessions[s].phase # "idle"
  BY <1>3 DEF TurnRecorded, ChildRecorded, IdleMeansEnded
<1>5. sessions[s] \in Session
  BY <1>4 DEF TypeOK
<1>6. AgentOf[s] \in gc.table
  BY GrantedWhen DEF WorkersLive, TablesComplete, Working, Evident
<1> QED
  BY <1>4, <1>5, <1>6 DEF Session

\* Unless agents start while somebody who has measured has not finished yet,
\* no helper is given up while a session of its owner evidently works.
THEOREM IdleTheorem == ~Racing /\ Spec => IdleWhenGranted
<1> SUFFICES ASSUME ~Racing PROVE Spec => IdleWhenGranted
  OBVIOUS
<1> DEFINE Idle == \A h \in Helpers : Granted(h) =>
                     \A s \in Sessions : AgentOf[s] = OwnerOf[h] => ~Evident(s)
<1>1. IInv /\ [Next]_vars => [Idle]_vars
  <2> SUFFICES ASSUME IInv, [Next]_vars, NEW h \in Helpers, Granted(h),
                      NEW s \in Sessions, AgentOf[s] = OwnerOf[h], Evident(s)
               PROVE  FALSE
    OBVIOUS
  <2>1. Eligible(h, gc.table)
    BY GrantedWhen DEF IInv
  <2> QED
    BY <2>1, WorkerSeen DEF Eligible, Owned
<1>2. Spec => []IInv
  BY Inductive, PTL DEF Spec
<1>3. Spec => [][Idle]_vars
  BY <1>1, <1>2, PTL DEF Spec
<1> QED
  BY <1>3 DEF IdleWhenGranted

\* On the same premise no development server is given up while a session of
\* the same project evidently works, whichever agent hosts it.
THEOREM ProjectTheorem == ~Racing /\ Spec => ProjectRespected
<1> SUFFICES ASSUME ~Racing PROVE Spec => ProjectRespected
  OBVIOUS
<1> DEFINE Spared == \A h \in DevServers : Granted(h) =>
                       \A s \in Sessions, o \in Owned(OwnerOf[h]) :
                         ProjectOf[s] = ProjectOf[o] => ~Evident(s)
<1>1. IInv /\ [Next]_vars => [Spared]_vars
  <2> SUFFICES ASSUME IInv, [Next]_vars, NEW h \in DevServers, Granted(h),
                      NEW s \in Sessions, NEW o \in Owned(OwnerOf[h]),
                      ProjectOf[s] = ProjectOf[o], Evident(s)
               PROVE  FALSE
    OBVIOUS
  <2>1. h \in Helpers
    BY IdleGCAssumption
  <2>2. Eligible(h, gc.table)
    BY <2>1, GrantedWhen DEF IInv
  <2> QED
    BY <2>1, <2>2, WorkerSeen DEF Eligible
<1>2. Spec => []IInv
  BY Inductive, PTL DEF Spec
<1>3. Spec => [][Spared]_vars
  BY <1>1, <1>2, PTL DEF Spec
<1> QED
  BY <1>3 DEF ProjectRespected
=============================================================================
