------------------------------- MODULE History -------------------------------
(***************************************************************************)
(* The private history of analytics: producers that send datagrams and     *)
(* never wait, the OTLP receiver with its bounded inbox, and the one       *)
(* recorder (analytics_collector.py) that inserts what arrives into        *)
(* SQLite (analytics_store.py), commits once a loop, evicts, and may fail  *)
(* or be killed at any point.  The same event may arrive again: a legacy   *)
(* import is repeated, an exporter retries.  File sizes are left out: any  *)
(* write may find the storage full, and any look at it may say so.         *)
(* Times are in days.                                                      *)
(***************************************************************************)
EXTENDS Integers, SequencesExt

CONSTANTS Events,          \* identities: (producer, seq), or the delivery of an export
          KindOf, JobOf, WallOf,   \* what each event is, of which job, and when
          Exported,        \* events that come by OTLP,
          Legacy,          \* and from the logs of older versions
          NoEvent,
          Backlog,         \* datagrams the socket holds
          InboxSize,       \* 8 batches
          RawDays, CheckpointDays, RawRows, JobsKept, Batch,   \* retention
          Sends, Days      \* bounds

Kinds == {"job", "action", "sampling", "other"}
ASSUME HistoryAssumption ==
  /\ KindOf \in [Events -> Kinds] /\ WallOf \in [Events -> 0..Days] /\ Exported \subseteq Events
  /\ Legacy \subseteq Events \ Exported
  /\ {Backlog, InboxSize, RawDays, CheckpointDays, RawRows, JobsKept, Batch, Sends, Days} \subseteq Nat
  /\ RawDays <= CheckpointDays /\ NoEvent \notin Events /\ IsFiniteSet(Events)

VARIABLES day,
          sends,
          arriving,    \* datagrams in the socket, batches in the inbox
          recorder,    \* the collector process, and what its loop knows
          db,          \* history.sqlite as a reader sees it
          tx           \* and with what is not committed yet

historyvars == <<day, sends, arriving, recorder, db, tx>>

JobsSeen == {JobOf[e] : e \in {x \in Events : KindOf[x] = "job"}}

\* events, the one lifecycle phase of job_events, diagnostics, and the counts of hourly.
\* passed says how often a row was evicted.
Tables == [raw : SUBSET Events, marks : [JobsSeen -> Events \cup {NoEvent}],
           diagnostics : SUBSET Events, counts : [Events -> 0..Sends], passed : [Events -> 0..Sends]]

HistoryTypeOK ==
  /\ day \in 0..Days /\ sends \in 0..Sends
  /\ arriving \in [socket : Seq(Events), inbox : Seq(Exported)]
  /\ Len(arriving.socket) <= Backlog /\ Len(arriving.inbox) <= InboxSize
  /\ recorder \in [pc : {"down", "drain", "keep", "record", "beat"}, writable : BOOLEAN, due : BOOLEAN]
  /\ db \in Tables /\ tx \in Tables

HistoryInit ==
  /\ day = 0 /\ sends = 0
  /\ arriving = [socket |-> <<>>, inbox |-> <<>>]
  /\ recorder = [pc |-> "down", writable |-> TRUE, due |-> TRUE]
  /\ db = [raw |-> {}, marks |-> [j \in JobsSeen |-> NoEvent], diagnostics |-> {},
           counts |-> [e \in Events |-> 0], passed |-> [e \in Events |-> 0]]
  /\ tx = db

Commit(tables) == tx' = tables /\ db' = tables
Rollback == tx' = db /\ UNCHANGED db

(***************************************************************************)
(* What arrives.                                                           *)
(***************************************************************************)
Submits(e) == day >= WallOf[e] /\ sends < Sends /\ sends' = sends + 1

\* No recorder, or no room: the datagram is dropped.
Arrives(e) ==
  /\ arriving' = IF recorder.pc # "down" /\ Len(arriving.socket) < Backlog
                 THEN [arriving EXCEPT !.socket = Append(@, e)] ELSE arriving
  /\ UNCHANGED <<day, recorder, db, tx>>

\* Producer.emit: under a number of its own, so that no event is sent twice; one that
\* was lost stands for the next.
Emit(e) ==
  /\ e \notin Exported \cup Legacy /\ Submits(e) /\ Arrives(e)
  /\ db.counts[e] = 0 /\ tx.counts[e] = 0 /\ e \notin ToSet(arriving.socket)

\* import_legacy: a record is known by its content, and every import sends it.
Imports(e) == e \in Legacy /\ Submits(e) /\ Arrives(e)

\* Mutant: the inbox takes every batch.
PostUnbounded(e) ==
  /\ e \in Exported /\ Submits(e) /\ recorder.pc # "down"
  /\ arriving' = [arriving EXCEPT !.inbox = Append(@, e)]
  /\ UNCHANGED <<day, recorder, db, tx>>

\* do_POST: 200 when the batch is in the inbox, 429 when that is full.  An answer
\* that is lost makes the exporter send it again.
Post(e) ==
  /\ e \in Exported /\ Submits(e) /\ recorder.pc # "down"
  /\ arriving' = IF Len(arriving.inbox) < InboxSize
                 THEN [arriving EXCEPT !.inbox = Append(@, e)] ELSE arriving
  /\ UNCHANGED <<day, recorder, db, tx>>

(***************************************************************************)
(* Store.insert                                                            *)
(***************************************************************************)
\* Mutant: the last to arrive is the checkpoint.
MarkedLast(mark, e) == e

\* A checkpoint is replaced by nothing older.
Marked(mark, e) == IF mark = NoEvent \/ WallOf[e] >= WallOf[mark] THEN e ELSE mark

\* Mutant: it is counted although the row is there.
InsertedTwice(t, e) ==
  [t EXCEPT !.raw = @ \cup {e}, !.counts[e] = @ + 1,
            !.marks = IF KindOf[e] # "job" THEN @ ELSE [@ EXCEPT ![JobOf[e]] = Marked(t.marks[JobOf[e]], e)],
            !.diagnostics = IF KindOf[e] = "action" THEN @ \cup {e} ELSE @]

Inserted(t, e) ==
  IF e \in t.raw THEN t
  ELSE [t EXCEPT !.raw = @ \cup {e}, !.counts[e] = @ + 1,
                 !.marks = IF KindOf[e] # "job" THEN @ ELSE [@ EXCEPT ![JobOf[e]] = Marked(t.marks[JobOf[e]], e)],
                 !.diagnostics = IF KindOf[e] = "action" THEN @ \cup {e} ELSE @]

(***************************************************************************)
(* The loop of collect.                                                    *)
(***************************************************************************)
Goes(pc) == recorder' = [recorder EXCEPT !.pc = pc]
Fails(pc) == recorder' = [recorder EXCEPT !.pc = pc, !.due = TRUE] /\ Rollback

\* One datagram: inserted; thrown away when the disk is nearly full; or the
\* storage fails, and with the transaction goes all that came before it.
Drains ==
  /\ recorder.pc = "drain"
  /\ \/ /\ arriving.socket # <<>>
        /\ arriving' = [arriving EXCEPT !.socket = Tail(@)]
        /\ \/ /\ recorder.writable /\ tx' = Inserted(tx, Head(arriving.socket))
              /\ UNCHANGED <<recorder, db>>
           \/ ~recorder.writable /\ UNCHANGED <<recorder, db, tx>>
           \/ recorder.writable /\ Fails("keep")
     \/ /\ arriving.socket = <<>> /\ Goes("keep") /\ UNCHANGED <<arriving, db, tx>>
  /\ UNCHANGED <<day, sends>>

Tier(e) == CASE KindOf[e] \in {"job", "action"} -> 2 [] KindOf[e] = "sampling" -> 1 [] OTHER -> 0

Before(e, f) == Tier(e) < Tier(f) \/ (Tier(e) = Tier(f) /\ WallOf[e] <= WallOf[f])

Smaller(m, n) == IF m < n THEN m ELSE n

\* evict: the first so many.
Evictions(raw, n) ==
  {S \in kSubset(Smaller(n, Cardinality(raw)), raw) : \A e \in S, f \in raw \ S : Before(e, f)}

Without(t, S) ==
  [t EXCEPT !.raw = @ \ S, !.passed = [e \in Events |-> IF e \in S THEN @[e] + 1 ELSE @[e]]]

\* Checkpoints of the newest jobs, and of the last 90 days.
Trimmed(t) ==
  LET fresh(e) == day - WallOf[e] <= CheckpointDays
      known == {j \in JobsSeen : t.marks[j] # NoEvent /\ fresh(t.marks[j])}
      newest(S) == \A j \in S, k \in known \ S : WallOf[t.marks[j]] >= WallOf[t.marks[k]]
  IN {[t EXCEPT !.marks = [j \in JobsSeen |-> IF j \in S THEN @[j] ELSE NoEvent],
                !.diagnostics = {e \in @ : fresh(e)}] :
        S \in {S \in kSubset(Smaller(JobsKept, Cardinality(known)), known) : newest(S)}}

\* Rows that are too old, and what is then too much.
Aged(t) ==
  LET old == {e \in t.raw : day - WallOf[e] > RawDays}
      left == t.raw \ old
      surplus == IF Cardinality(left) > RawRows THEN Cardinality(left) - RawRows ELSE 0
  IN {Without(t, old \cup S) : S \in Evictions(left, surplus)}

\* maintain, up to its first commit; page pressure takes a fifth of the rows.
Maintained(t) ==
  LET fifth == (Cardinality(t.raw) + 4) \div 5
      pressed == {Without(t, S) : S \in {{}} \cup Evictions(t.raw, fifth)}
  IN UNION {Aged(p) : p \in UNION {Trimmed(u) : u \in pressed}}

Maintains ==
  /\ recorder.pc = "keep"
  /\ \/ /\ \E t \in Maintained(tx) : Commit(t)
        /\ recorder' = [recorder EXCEPT !.pc = "record", !.due = FALSE]
     \/ Fails("beat")
     \/ ~recorder.due /\ Goes("record") /\ UNCHANGED <<db, tx>>
  /\ UNCHANGED <<day, sends, arriving>>

\* The end of maintain, when the disk is still nearly full.
Reclaims ==
  /\ recorder.pc = "record" /\ tx = db
  /\ \E S \in Evictions(tx.raw, Batch) : Commit(Without(tx, S))
  /\ UNCHANGED <<day, sends, arriving, recorder>>

\* Batches of the inbox and its own measurements, in the same transaction.
Records ==
  /\ recorder.pc = "record" /\ arriving.inbox # <<>>
  /\ arriving' = [arriving EXCEPT !.inbox = Tail(@)]
  /\ \/ /\ tx' = IF recorder.writable THEN Inserted(tx, Head(arriving.inbox)) ELSE tx
        /\ UNCHANGED <<recorder, db>>
     \/ Fails("beat")
  /\ UNCHANGED <<day, sends>>

Commits ==
  /\ recorder.pc = "record"
  /\ Commit(tx) /\ Goes("beat")
  /\ UNCHANGED <<day, sends, arriving>>

\* The heartbeat, reached after a failed write as well; a minute may have passed.
Beats ==
  /\ recorder.pc = "beat"
  /\ \E writable, due \in BOOLEAN :
       recorder' = [pc |-> "drain", writable |-> writable, due |-> recorder.due \/ due]
  /\ UNCHANGED <<day, sends, arriving, db, tx>>

(***************************************************************************)
(* Starts, ends and time.                                                  *)
(***************************************************************************)
\* Under the lock of the one recorder; a database of the old layout is copied in
\* one transaction, or left as it is.
Opens ==
  /\ recorder.pc = "down"
  /\ recorder' = [pc |-> "drain", writable |-> TRUE, due |-> TRUE]
  /\ arriving' = [socket |-> <<>>, inbox |-> <<>>]
  /\ UNCHANGED <<day, sends, db, tx>>

\* Stopped or disabled, it commits; killed, it does not.  Datagrams and batches go.
Closes ==
  /\ recorder.pc # "down" /\ Goes("down")
  /\ \/ Commit(tx) /\ recorder.pc = "drain"
     \/ Rollback
  /\ arriving' = [socket |-> <<>>, inbox |-> <<>>]
  /\ UNCHANGED <<day, sends>>

HistoryTick == day < Days /\ day' = day + 1 /\ UNCHANGED <<sends, arriving, recorder, db, tx>>

HistoryNext ==
  \/ \E e \in Events : Emit(e) \/ Imports(e) \/ Post(e)
  \/ Drains \/ Maintains \/ Reclaims \/ Records \/ Commits \/ Beats \/ Opens \/ Closes \/ HistoryTick

HistorySpec == HistoryInit /\ [][HistoryNext]_historyvars

(***************************************************************************)
(* Properties.                                                             *)
(***************************************************************************)
Committed == {e \in Events : db.counts[e] > 0}

\* release-notes.md:23, docs/analytics.md:243: the latest event of a phase that
\* was ever committed outlives the eviction of its row, whatever arrives late or
\* again, for as long as checkpoints are retained.
LatestPhaseKept ==
  \A e \in Committed :
    LET j == JobOf[e]
        newer == {k \in JobsSeen \ {j} : \E f \in Committed : KindOf[f] = "job" /\ JobOf[f] = k /\ WallOf[f] >= WallOf[e]}
    IN KindOf[e] = "job" /\ day - WallOf[e] <= CheckpointDays /\ Cardinality(newer) < JobsKept
       => db.marks[j] # NoEvent /\ WallOf[db.marks[j]] >= WallOf[e]

\* docs/analytics.md:165: an event that is delivered again is not counted again
\* while its row is retained, and every row that is retained was counted,
\* through failed transactions and restarts.
CountedOnce ==
  \A e \in Events : /\ db.counts[e] <= 1 + db.passed[e]
                    /\ e \in db.raw => db.counts[e] >= 1

\* What the counts and the checkpoints say is what was committed.
HistoryExact == LatestPhaseKept /\ CountedOnce
=============================================================================
