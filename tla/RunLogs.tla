------------------------------ MODULE RunLogs -------------------------------
(***************************************************************************)
(* The logs of the dashboard (contrib/dashboard/logs) and how the page of  *)
(* a run finds its own (logs_for_run of history.py): entries that carry    *)
(* the run's id, and those of the task from about the time of the run.     *)
(* Threads of the scheduler and its executors record runs and log, in an   *)
(* order of their own, into a buffer that forgets its oldest, while a      *)
(* request reads it in two queries.                                        *)
(***************************************************************************)
EXTENDS Integers, Sequences, SequencesExt, FiniteSets, FiniteSetsExt, Orders

CONSTANTS
  Runs, TaskOf,   \* runs, and the task of each
  Events,         \* of runs: <<run, "submission">> and <<run, "execution">>
  BufferLen,      \* maxlen of the log storage
  HistoryLen,     \* maxlen of the run history
  PageLimit,      \* entries a page shows
  Slack,          \* of the window: five seconds
  MaxClock, MaxEntries   \* bounds on the time and on the entries logged

NoRun == "none"   \* an entry of no run
ASSUME RunLogsAssumption ==
  /\ {BufferLen, HistoryLen, PageLimit} \subseteq Nat \ {0}
  /\ {Slack, MaxClock, MaxEntries} \subseteq Nat
  /\ NoRun \notin Runs
  /\ DOMAIN TaskOf = Runs /\ Events \subseteq Runs \X {"submission", "execution"}

VARIABLES
  clock,
  coming,   \* the events of runs that the listener has not had yet
  runs,     \* the RunRecords made, kept or evicted
  stored,   \* MemoryRunHistoryStorage._order: indices of runs
  logging,  \* the run logs that record_* has yet to append
  buffer,   \* MemoryLogStorage.buffer
  serial,   \* entries logged so far, up to MaxEntries
  page      \* the request for a run's page, and the index of its record

logs == <<clock, coming, runs, stored, logging, buffer, serial, page>>

NoTime == -1
Closed == [pc |-> "list", record |-> 0, direct |-> <<>>, correlated |-> <<>>, since |-> 0, until |-> 0, known |-> {}]
LogsStart(request, events) ==
  /\ clock = 1
  /\ coming = events
  /\ runs = <<>>
  /\ stored = <<>>
  /\ logging = {}
  /\ buffer = <<>>
  /\ serial = 0
  /\ page = request
LogsInit == LogsStart(Closed, Events)

-----------------------------------------------------------------------------
(* The storage: append and query *)

LogEntry(run, task, message) == [run |-> run, task |-> task, message |-> message, ts |-> clock, serial |-> serial]
Pushed(entry) == IF Len(buffer) < BufferLen THEN Append(buffer, entry) ELSE Append(Tail(buffer), entry)
Logged(entry) ==
  /\ serial < MaxEntries /\ serial' = serial + 1
  /\ buffer' = Pushed(entry)

\* Newest first, which is the order of appending, up to limit.
Newest(found, limit) == SubSeq(Reverse(found), 1, Min({limit, Len(found)}))

-----------------------------------------------------------------------------
(* Who logs *)

Tick ==
  /\ clock < MaxClock /\ clock' = clock + 1
  /\ UNCHANGED <<coming, runs, stored, logging, buffer, serial, page>>

\* _upsert: the run's record, a new one if it has none or it was evicted.
New(r) == [run |-> r, submitted |-> NoTime, finished |-> NoTime, updated |-> clock]
Place(r) ==
  LET places == {n \in ToSet(stored) : runs[n].run = r}
  IN IF places = {} THEN Len(runs) + 1 ELSE Min(places)
Held(r) == IF Place(r) \in DOMAIN runs THEN runs[Place(r)] ELSE New(r)
Keep(r, record) ==
  IF Place(r) \in DOMAIN runs THEN runs' = [runs EXCEPT ![Place(r)] = record] /\ UNCHANGED stored
  ELSE /\ runs' = Append(runs, record)
       /\ stored' = LET all == Append(stored, Len(runs) + 1) IN IF Len(all) > HistoryLen THEN Tail(all) ELSE all

\* record_submission and record_execution, in either order.  Each appends its
\* log after it has changed the record and without the lock.
OrElse(time, other) == IF time # NoTime THEN time ELSE other
RecordSubmission(r) ==
  /\ <<r, "submission">> \in coming /\ coming' = coming \ {<<r, "submission">>}
  /\ Keep(r, [Held(r) EXCEPT !.submitted = OrElse(@, OrElse(Held(r).finished, clock)), !.updated = clock])
  /\ logging' = IF Held(r).finished = NoTime THEN logging \cup {<<r, "submitted">>} ELSE logging
  /\ UNCHANGED <<clock, buffer, serial, page>>
RecordExecution(r) ==
  /\ <<r, "execution">> \in coming /\ coming' = coming \ {<<r, "execution">>}
  /\ Keep(r, [Held(r) EXCEPT !.finished = clock, !.submitted = OrElse(@, clock), !.updated = clock])
  /\ logging' = logging \cup {<<r, "finished">>}
  /\ UNCHANGED <<clock, buffer, serial, page>>
RunLog ==
  \E log \in logging :
    /\ Logged(LogEntry(log[1], TaskOf[log[1]], log[2]))
    /\ logging' = logging \ {log}
    /\ UNCHANGED <<clock, coming, runs, stored, page>>

\* TaskLogHandler: what a task's function logs carries its task, and a message
\* may come twice at a time.
Emit(task) ==
  /\ Logged(LogEntry(NoRun, task, "working"))
  /\ UNCHANGED <<clock, coming, runs, stored, logging, page>>

-----------------------------------------------------------------------------
(* A request: the history page, the page of a run *)

\* The rows of the history page, the latest first; a run evicted by the time it
\* is opened is not found.
Requesting == UNCHANGED <<clock, coming, runs, stored, logging, buffer, serial>>
Moment(n) == OrElse(runs[n].finished, runs[n].submitted)
HistoryRows ==
  LET latest == Sorted([n \in ToSet(stored) |->
        {m \in ToSet(stored) : Moment(m) > Moment(n) \/ (Moment(m) = Moment(n) /\ m < n)}])
  IN SubSeq(latest, 1, Min({PageLimit, Len(latest)}))
Pick ==
  /\ page.pc = "list"
  /\ \E n \in ToSet(HistoryRows) : page' = [page EXCEPT !.pc = "open", !.record = n]
  /\ Requesting
Shown == runs[page.record]
Open ==
  /\ page.pc = "open"
  /\ page' = IF Place(Shown.run) \in DOMAIN runs
             THEN [page EXCEPT !.pc = "direct", !.record = Place(Shown.run)]
             ELSE [page EXCEPT !.pc = "missing"]
  /\ Requesting

\* The entries with the run's id; then, unless they fill the page, those of its
\* task from its window.  The record is live: its times are read in between.
Own == Subsequence(buffer, {n \in DOMAIN buffer : buffer[n].run = Shown.run})
Near(since, until) ==
  Subsequence(buffer, {n \in DOMAIN buffer : buffer[n].task = TaskOf[Shown.run] /\ buffer[n].ts \in since..until})
Direct ==
  /\ page.pc = "direct"
  /\ LET direct == Newest(Own, PageLimit)
     IN page' = [page EXCEPT !.pc = IF Len(direct) >= PageLimit THEN "shown" ELSE "correlated",
                             !.direct = direct, !.known = ToSet(Own)]
  /\ Requesting
Correlated ==
  /\ page.pc = "correlated"
  /\ LET since == Shown.submitted - Slack
         until == OrElse(Shown.finished, Shown.updated) + Slack
     IN page' = [page EXCEPT !.pc = "shown", !.since = since, !.until = until,
                            !.correlated = Newest(Near(since, until), PageLimit)]
  /\ Requesting

\* Direct entries first, each once: a later one with the same time, level,
\* logger and message is left out.  A mutant joins them the other way round.
Key(e) == <<e.ts, e.message>>
OneOfEach(entries) ==
  Subsequence(entries, {n \in DOMAIN entries : \A m \in 1..(n - 1) : Key(entries[m]) # Key(entries[n])})
Shorter(entries) == SubSeq(entries, 1, Min({PageLimit, Len(entries)}))
CorrelatedFirst(direct, correlated) == Shorter(OneOfEach(correlated \o direct))
Together(direct, correlated) ==
  IF Len(direct) >= PageLimit THEN direct ELSE Shorter(OneOfEach(direct \o correlated))

\* After the answer there is nothing more to see.
LogsNext ==
  /\ page.pc \notin {"shown", "missing"}
  /\ \/ Tick \/ RunLog \/ Pick \/ Open \/ Direct \/ Correlated
     \/ \E r \in Runs : RecordSubmission(r) \/ RecordExecution(r) \/ Emit(TaskOf[r])
LogsSpec == LogsInit /\ [][LogsNext]_logs

-----------------------------------------------------------------------------
(* Properties *)

\* The page of a run shows no more than its limit and no entry twice; every
\* entry of the run that was there when it was asked for, or one like it, unless
\* the run's own entries fill the page; and of the other entries only those of
\* the task that were logged from shortly before its submission to shortly
\* after its end, by the record as it was then (history.py:303).
PageShowsTheRun ==
  page.pc = "shown" =>
    LET rows == Together(page.direct, page.correlated)
    IN /\ Len(rows) <= PageLimit /\ IsInjective(rows)
       /\ \A e \in page.known :
            \/ \E s \in ToSet(rows) : Key(s) = Key(e) /\ s.task = e.task
            \/ Len(rows) = PageLimit /\ \A s \in ToSet(rows) : s.run = Shown.run
       /\ \A s \in ToSet(rows) :
            s.run # Shown.run => s.task = TaskOf[Shown.run] /\ s.ts \in page.since..page.until
==============================================================================
