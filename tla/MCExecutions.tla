---------------------------- MODULE MCExecutions ----------------------------
(* Two run times, each sent by a round or by hand; two requests to the
   dashboard, of which one may name a task twice or none; one command, or
   asyncz start with two reloads; one reader of up to three tasks that change
   twice; or one reader of the logs of two runs.  The five share nothing, and
   the time of the run is their sum. *)
EXTENDS Executions, Dashboard, CommandLine, Views, RunLogs

MCIdLists  == {<<"x", "y", "x">>, <<>>}
MCTitle    == <<2, 1, 1>>
MCExecutor == <<1, 2, 1>>
MCInstants == <<{1, 3}, {2}, {1}>>
MCTaskOf   == [r \in Runs |-> "x"]
MCEvents   == {<<"r", "submission">>, <<"r", "execution">>, <<"s", "submission">>}

\* Machines that share nothing: the others are at rest.
NoExecution == state = "down" /\ kind = "pool" /\ wait = FALSE /\ Rest
NoRequest   == BoardStart([r \in Requests |-> [Handler("run", <<>>) EXCEPT !.pc = "over"]])
                 /\ remote = FALSE
NoCommands  == CommandStart([NoCommand EXCEPT !.pc = "over"], [j \in Jobs |-> "gone"]) /\ ServerStart("over", FALSE)
NoView      == ViewsStart([Request(Default) EXCEPT !.pc = "failed"], <<>>)
NoLogs      == LogsStart([Closed EXCEPT !.pc = "missing"], {})
MCInit == \/ Init /\ NoRequest /\ NoCommands /\ NoView /\ NoLogs
          \/ NoExecution /\ BoardInit /\ NoCommands /\ NoView /\ NoLogs
          \/ NoExecution /\ NoRequest /\ CliInit /\ NoView /\ NoLogs
          \/ NoExecution /\ NoRequest /\ NoCommands /\ ViewsInit /\ NoLogs
          \/ NoExecution /\ NoRequest /\ NoCommands /\ NoView /\ LogsInit
Executes  == Next /\ UNCHANGED <<board, cli, starter, views, logs>>
Requested == ~NoRequest /\ BoardNext /\ UNCHANGED <<vars, cli, starter, views, logs>>
Commands  == CliNext /\ UNCHANGED <<vars, board, views, logs>>
Reads     == reader.pc # "failed" /\ ViewsNext /\ UNCHANGED <<vars, board, cli, starter, logs>>
Logs      == LogsNext /\ UNCHANGED <<vars, board, cli, starter, views>>
MCSpec == /\ MCInit
          /\ [][Executes \/ Requested \/ Commands \/ Reads \/ Logs]_<<vars, board, cli, starter, views, logs>>
          /\ Fairness
==============================================================================
