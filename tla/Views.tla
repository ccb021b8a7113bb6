------------------------------- MODULE Views --------------------------------
(***************************************************************************)
(* What the dashboard and the CLI show of the tasks: the task table with   *)
(* its filters, order and pages (get_task_infos of schedulers/base.py,     *)
(* contrib/dashboard/controllers/_helpers.py), the overview with its       *)
(* counts (get_scheduler_info), the detail page of a task and the timeline *)
(* (preview_task_runs).  Every call of the scheduler is a *)
(* step of its own: it goes to a worker over HTTP, or other threads and    *)
(* processes change the store in between.  The scheduler is running, so no *)
(* task is pending.                                                        *)
(***************************************************************************)
EXTENDS Naturals, Sequences, SequencesExt, FiniteSets, FiniteSetsExt, Orders

CONSTANTS
  Items,            \* ids of tasks, numbers in the order of the ids
  Title, Executor,  \* of the tasks: numbers in alphabetical order
  Instants,         \* of their triggers
  Now,              \* the moment of the previews
  PerPage, PerTask, Limit,
  Recent,           \* tasks on the overview
  MaxChanges        \* bound on the changes to tasks

ASSUME ViewsAssumption ==
  /\ Items \subseteq Nat /\ IsFiniteSet(Items)
  /\ Title \in [Items -> Nat] /\ Executor \in [Items -> Nat]
  /\ Instants \in [Items -> SUBSET (Nat \ {0})] /\ \A i \in Items : IsFiniteSet(Instants[i])
  /\ {PerPage, PerTask, Limit, Recent} \subseteq Nat \ {0} /\ {Now, MaxChanges} \subseteq Nat

VARIABLES
  listed,   \* next_run_time of the tasks in the stores, or None
  reader,   \* a request: its form and where it is
  answer,   \* what it has got together
  changes   \* so far, up to MaxChanges

views == <<listed, reader, answer, changes>>

None == 0
Anyone == 0

-----------------------------------------------------------------------------
(* get_task_infos *)

\* Sort keys compare as tuples do; paused tasks come last.
Precedes(key, other) ==
  \E i \in DOMAIN key : key[i] < other[i] /\ \A j \in 1..(i - 1) : key[j] = other[j]
schedule_state(i) == IF listed[i] = None THEN "paused" ELSE "scheduled"
NextKey(i) == IF listed[i] = None THEN <<1, 0>> ELSE <<0, listed[i]>>
SortKey(i, sort_by) ==
  CASE sort_by = "id"             -> <<i>>
    [] sort_by = "name"           -> <<Title[i], i>>
    [] sort_by = "next_run_time"  -> NextKey(i) \o <<Title[i], i>>
    [] sort_by = "schedule_state" -> <<IF schedule_state(i) = "paused" THEN 0 ELSE 1>> \o NextKey(i) \o <<i>>
    [] sort_by = "executor"       -> <<Executor[i], i>>

\* The snapshots that pass the filters; the searches for a trigger and for a
\* text are like the one for an executor.
Matching(form) ==
  {i \in DOMAIN listed :
     /\ form.state \in {"any", schedule_state(i)}
     /\ form.executor # Anyone => Executor[i] = form.executor}
Infos(form) ==
  LET ascending == Sorted([i \in Matching(form) |->
        {j \in Matching(form) : Precedes(SortKey(j, form.sort_by), SortKey(i, form.sort_by))}])
  IN IF form.descending THEN Reverse(ascending) ELSE ascending

\* An unknown state or sort key raises.
Sound(form) ==
  /\ form.state \in {"any", "paused", "scheduled"}
  /\ form.sort_by \in {"id", "name", "next_run_time", "schedule_state", "executor"}

\* get_scheduler_info and the table count what one query gives.
Counts(infos) ==
  [total |-> Len(infos),
   paused |-> Cardinality({n \in DOMAIN infos : schedule_state(infos[n]) = "paused"}),
   scheduled |-> Cardinality({n \in DOMAIN infos : schedule_state(infos[n]) = "scheduled"})]
NoCounts == [total |-> 0, paused |-> 0, scheduled |-> 0]

-----------------------------------------------------------------------------
(* preview_task_runs *)

Missing(i) == i \notin DOMAIN listed

\* The next run, and what the trigger gives after it; for a paused task what it
\* gives from now on.
Upcoming(i) ==
  IF listed[i] = None THEN {t \in Instants[i] : t >= Now}
  ELSE {listed[i]} \cup {t \in Instants[i] : t > listed[i]}
Preview(i, count) ==
  LET times == Sorted([t \in Upcoming(i) |-> {u \in Upcoming(i) : u < t}])
  IN SubSeq(times, 1, Min({count, Len(times)}))

-----------------------------------------------------------------------------
(* A request *)

Form(view, state, executor, sort_by, descending, page) ==
  [view |-> view, state |-> state, executor |-> executor, sort_by |-> sort_by,
   descending |-> descending, page |-> page]
Default == Form("timeline", "any", Anyone, "next_run_time", FALSE, 1)
Filters == ({"any", "paused", "scheduled"} \X {Anyone}) \cup ({"any"} \X {Executor[i] : i \in Items})
TableForms ==
  {Form("table", f[1], f[2], k, d, p) :
     f \in Filters, d \in BOOLEAN, p \in {1, 9},
     k \in {"id", "name", "next_run_time", "schedule_state", "executor"}}
Forms ==
  TableForms
  \cup {[Default EXCEPT !.view = "table", !.state = "late"], Default, [Default EXCEPT !.view = "overview"]}
  \cup {[Default EXCEPT !.view = "detail", !.page = i] : i \in Items}

ViewsStart(request, tasks) ==
  /\ reader = request
  /\ listed = tasks
  /\ answer = [counts |-> NoCounts, infos |-> <<>>, rows |-> <<>>, shown |-> <<>>,
               steady |-> request.form.view # "table" \/ request.form.page = 1]
  /\ changes = 0
Request(form) == [form |-> form, pc |-> "begin"]
ViewsInit ==
  \E form \in Forms, there \in SUBSET Items :
    \E tasks \in [there -> {None} \cup UNION {Instants[i] : i \in Items}] :
      /\ \A i \in there : tasks[i] \in {None} \cup Instants[i]
      /\ ViewsStart(Request(form), tasks)

Reading(pc) == reader' = [reader EXCEPT !.pc = pc]
Looking == UNCHANGED <<listed, changes>>

\* The table and the overview read every task for their counts, and then those
\* they show.
Counting == reader.form.view \in {"table", "overview"}
Parse ==
  /\ reader.pc = "begin"
  /\ Reading(IF Counting THEN "count" ELSE "infos")
  /\ Looking /\ UNCHANGED answer
CountTasks ==
  /\ reader.pc = "count"
  /\ Reading(IF Sound(reader.form) THEN "infos" ELSE "failed")
  /\ answer' = [answer EXCEPT !.counts = Counts(Infos(Default))]
  /\ Looking

\* A page beyond the last is the last, and without tasks there is one.  A
\* mutant does not count the last page when it is not full.
FullPages(total) == Max({1, total \div PerPage})
PageCount(total) == Max({1, (total + PerPage - 1) \div PerPage})
Page(infos) == Min({reader.form.page, PageCount(Len(infos))})
PageRows(infos) ==
  LET start == (Page(infos) - 1) * PerPage
  IN SubSeq(infos, start + 1, Min({start + PerPage, Len(infos)}))
HasNext == reader.form.page < PageCount(Len(answer.infos))

Table ==
  /\ reader.form.view = "table" /\ reader.pc = "infos"
  /\ LET infos == Infos(reader.form)
     IN /\ answer' = [answer EXCEPT !.infos = infos, !.rows = PageRows(infos),
                                    !.shown = @ \o PageRows(infos)]
        /\ reader' = [reader EXCEPT !.pc = "shown", !.form.page = Page(infos)]
  /\ Looking
Overview ==
  /\ reader.form.view = "overview" /\ reader.pc = "infos"
  /\ LET infos == Infos(reader.form)
     IN answer' = [answer EXCEPT !.infos = infos, !.shown = SubSeq(infos, 1, Min({Recent, Len(infos)}))]
  /\ Reading("shown")
  /\ Looking
\* The link to the next page carries the filters on.
FollowNext ==
  /\ reader.form.view = "table" /\ reader.pc = "shown" /\ HasNext
  /\ reader' = [reader EXCEPT !.pc = "begin", !.form.page = @ + 1]
  /\ Looking /\ UNCHANGED answer

\* The detail page: the task, then its preview, which may miss it.
Detail ==
  /\ reader.form.view = "detail" /\ reader.pc = "infos"
  /\ LET i == reader.form.page
     IN IF Missing(i) THEN Reading("failed") /\ UNCHANGED answer
        ELSE Reading("preview") /\ answer' = [answer EXCEPT !.infos = <<i>>]
  /\ Looking

\* The timeline: the tasks in their order, then the preview of each that is
\* still there.
Timeline ==
  /\ reader.form.view = "timeline" /\ reader.pc = "infos"
  /\ Reading("preview")
  /\ answer' = [answer EXCEPT !.infos = Infos(reader.form)]
  /\ Looking
Rows(i) == IF Missing(i) THEN <<>>
           ELSE LET times == Preview(i, PerTask) IN [n \in DOMAIN times |-> [id |-> i, time |-> times[n]]]
PreviewOne ==
  /\ reader.pc = "preview" /\ answer.infos # <<>>
  /\ answer' = [answer EXCEPT !.infos = Tail(@), !.rows = @ \o Rows(Head(answer.infos))]
  /\ Looking /\ UNCHANGED reader

\* rows.sort is stable.  A mutant cuts the rows off before they are sorted.
First(rows) == SubSeq(rows, 1, Min({Limit, Len(rows)}))
ByTime(rows) ==
  LET places == Sorted([n \in DOMAIN rows |->
        {m \in DOMAIN rows : Precedes(<<rows[m].time, m>>, <<rows[n].time, n>>)}])
  IN [n \in DOMAIN rows |-> rows[places[n]]]
FirstRows(rows) == ByTime(First(rows))
Limited(rows) == First(ByTime(rows))
ShowRows ==
  /\ reader.pc = "preview" /\ answer.infos = <<>>
  /\ answer' = [answer EXCEPT !.shown = IF reader.form.view = "timeline" THEN Limited(answer.rows)
                                        ELSE answer.rows]
  /\ Reading("shown")
  /\ Looking

ReaderNext == Parse \/ CountTasks \/ Table \/ Overview \/ FollowNext \/ Detail \/ Timeline \/ PreviewOne \/ ShowRows

-----------------------------------------------------------------------------
(* What happens to tasks meanwhile *)

\* A round, a request or another process moves, pauses, adds or removes a task.
NothingRead == /\ answer.shown = <<>>
               /\ reader.pc \in {"begin", "count"} \/ (reader.pc = "infos" /\ ~Counting)
Change ==
  /\ changes < MaxChanges /\ changes' = changes + 1
  /\ \E i \in Items :
       \/ \E t \in {None} \cup Instants[i] :
            listed' = [j \in DOMAIN listed \cup {i} |-> IF j = i THEN t ELSE listed[j]]
       \/ listed' = [j \in DOMAIN listed \ {i} |-> listed[j]]
  /\ answer' = [answer EXCEPT !.steady = @ /\ NothingRead]
  /\ UNCHANGED reader

ViewsNext == ReaderNext \/ Change
ViewsSpec == ViewsInit /\ [][ViewsNext]_views

-----------------------------------------------------------------------------
(* Properties *)

\* Who follows the links from the first page to the last, while the tasks do
\* not change, has seen every task that matches, once and in order; no page of
\* a list that has tasks is empty, even when tasks have gone since its link was
\* made; and the counts above, which come from a query of their own, are those
\* of the tasks below (_helpers.py:333).
InOrder(i, j, form) ==
  CASE form.sort_by = "id"            -> i < j
    [] form.sort_by = "name"          -> Title[i] <= Title[j]
    [] form.sort_by = "executor"      -> Executor[i] <= Executor[j]
    [] form.sort_by = "next_run_time" -> listed[j] = None \/ (listed[i] # None /\ listed[i] <= listed[j])
    [] OTHER                          -> listed[i] = None \/ (listed[j] # None /\ listed[i] <= listed[j])
CountsAgree ==
  /\ answer.counts.scheduled + answer.counts.paused = answer.counts.total
  /\ answer.counts.total >= Len(answer.infos)
  /\ reader.form.state = "paused" => answer.counts.paused >= Len(answer.infos)
  /\ reader.form.view = "overview" => Len(answer.shown) = Min({Recent, answer.counts.total})
PagesCoverTheList ==
  /\ reader.pc = "shown" /\ Counting /\ answer.steady => CountsAgree
  /\ reader.pc = "shown" /\ reader.form.view = "table" =>
    /\ answer.infos # <<>> => answer.rows # <<>>
    /\ ~HasNext /\ answer.steady =>
         /\ ToSet(answer.shown) = Matching(reader.form)
         /\ Len(answer.shown) = Cardinality(Matching(reader.form))
         /\ \A m, n \in DOMAIN answer.shown : m < n =>
              IF reader.form.descending THEN InOrder(answer.shown[n], answer.shown[m], reader.form)
              ELSE InOrder(answer.shown[m], answer.shown[n], reader.form)

\* The timeline is in the order of time and says nothing of a task twice; no
\* run it found is earlier than the last it shows and left out; and while the
\* tasks do not change it has found the next PerTask runs of every task
\* (controllers/timeline.py:74).
TimelineShowsTheNext ==
  ~Counting /\ reader.pc = "shown" =>
    /\ \A m, n \in DOMAIN answer.shown : m < n =>
         answer.shown[m].time <= answer.shown[n].time /\ answer.shown[m] # answer.shown[n]
    /\ \A row \in ToSet(answer.rows) \ ToSet(answer.shown) :
         Len(answer.shown) >= Limit /\ row.time >= Last(answer.shown).time
    /\ answer.steady =>
         \A i \in IF reader.form.view = "detail" THEN {reader.form.page} ELSE DOMAIN listed :
           \A t \in Upcoming(i) :
             \/ [id |-> i, time |-> t] \in ToSet(answer.rows)
             \/ Cardinality({u \in Upcoming(i) : u < t}) >= PerTask
==============================================================================
