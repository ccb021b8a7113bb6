---------------------------- MODULE CommandLine -----------------------------
(***************************************************************************)
(* The commands on tasks (cli/commands): each starts a scheduler on the    *)
(* shared store in an event loop of its own, makes one call, stops the     *)
(* scheduler and ends, and the callbacks it has queued run in the order in *)
(* which they came, until the loop stops; those that only ask are no       *)
(* different.  Beside them asyncz start, with its hooks, its reload and    *)
(* its end.                                                                *)
(***************************************************************************)
EXTENDS Sequences, SequencesExt, Integers, FiniteSets

CONSTANTS
  Jobs,        \* ids in the store and to be
  Coroutines,  \* those of Jobs that are coroutine functions
  MaxReloads   \* bound on the changes --watch sees

\* The callbacks of the loop that are no job's have names of their own.
ASSUME CommandLineAssumption ==
  /\ IsFiniteSet(Jobs) /\ Coroutines \subseteq Jobs
  /\ Jobs \cap {"wakeup", "shutdown", "stop"} = {}
  /\ MaxReloads \in Nat

VARIABLES
  rows,        \* the store: "due", "later", "paused" or "gone"
  command,     \* one command
  ready,       \* its event loop's callbacks, first in, first out
  futures,     \* of its executor: the jobs submitted and not done
  begun,       \* history: the jobs whose function the command has begun
  told,        \* what it says at its end
  server,      \* asyncz start: where it is, and its generation of scheduler
  asked,       \* the shutdowns in its event loop, by generation
  refs,        \* the reference counter of each generation, which is up while positive
  hooks        \* history: how often on_start was called, and on_stop

cli == <<rows, command, ready, futures, begun, told>>
starter == <<server, asked, refs, hooks>>

Asking == {"list", "status", "inspect", "preview"}
Names == {"add", "update", "run", "pause", "resume", "remove"} \cup Asking
Command(name, job, bootstrap) == [name |-> name, job |-> job, bootstrap |-> bootstrap, pc |-> "options"]
NoCommand == Command("run", CHOOSE j \in Jobs : TRUE, FALSE)

CommandStart(c, store) ==
  /\ command = c
  /\ rows = store
  /\ ready = <<>> /\ futures = {} /\ begun = {} /\ told = "nothing"
Generations == 1..(MaxReloads + 1)
Up == {g \in Generations : refs[g] > 0}
ServerStart(pc, bootstrap) ==
  /\ server = [pc |-> pc, bootstrap |-> bootstrap, generation |-> 0, reloads |-> 0]
  /\ asked = <<>> /\ refs = [g \in Generations |-> 0]
  /\ hooks = [on_start |-> 0, on_stop |-> 0]
CliInit ==
  \/ /\ \E name \in Names, j \in Jobs, b \in BOOLEAN, store \in [Jobs -> {"due", "later", "paused", "gone"}] :
          CommandStart(Command(name, j, b), store)
     /\ ServerStart("over", FALSE)
  \/ /\ CommandStart([NoCommand EXCEPT !.pc = "over"], [j \in Jobs |-> "gone"])
     /\ \E b \in BOOLEAN : ServerStart("boot", b)

-----------------------------------------------------------------------------
(* One command *)

Reaches(pc) == command' = [command EXCEPT !.pc = pc]
Temporary == ~command.bootstrap

\* A store, trigger, number or JSON that cannot be read, a bootstrap that is no
\* scheduler, an update of nothing: the command ends before it starts anything.
Rejects == Reaches("over") /\ UNCHANGED <<rows, ready, futures, begun, told>>
Accepts == Reaches("main") /\ UNCHANGED <<rows, ready, futures, begun, told>>
Options == command.pc = "options" /\ (Rejects \/ Accepts)

\* The call: what becomes of the row, the callbacks it queues (a wakeup if it
\* changes a run time), and the message.
Submits == IF command.job \in Coroutines THEN <<command.job>> ELSE <<>>
Outcome(row, queued, message) == [row |-> row, queued |-> queued, message |-> message]
Found == rows[command.job] # "gone"
Wakes == <<"wakeup">>
Listed     == {Outcome(rows[command.job], <<>>, "Listed")}
StatusTold == {Outcome(rows[command.job], <<>>, "Status")}
Inspected  == IF Found THEN {Outcome(rows[command.job], <<>>, "Inspected")} ELSE {}
Previewed  == IF Found THEN {Outcome(rows[command.job], <<>>, "Previewed")} ELSE {}
CallOutcomes ==
  CASE command.name = "add"    -> {Outcome(row, Wakes, "Added") : row \in IF Found THEN {} ELSE {"due", "later"}}
    [] command.name = "list"   -> Listed
    [] command.name = "status" -> StatusTold
    [] command.name = "inspect" -> Inspected
    [] command.name = "preview" -> Previewed
    [] command.name \notin Asking \cup {"add"} /\ ~Found -> {}
    [] command.name = "pause" /\ Found  -> {Outcome("paused", Wakes, "Paused")}
    [] command.name = "resume" /\ Found -> {Outcome("due", Wakes, "Resumed"), Outcome("later", Wakes, "Resumed"),
                                            Outcome("gone", <<>>, "Removed")}
    [] command.name = "remove" /\ Found -> {Outcome("gone", <<>>, "Removed")}
    [] command.name = "run" /\ Found    -> {Outcome(row, Submits, "Triggered") : row \in {"later", "gone"}}
    [] command.name = "update" /\ Found -> {Outcome(rows[command.job], Wakes, "Updated"),
                                            Outcome(rows[command.job], <<>>, "nothing")}

\* main has no await that waits: it starts the scheduler, makes the call and
\* asks for the shutdown in one go, and then the loop runs what is queued up to
\* the end of main.  A command whose call fails does not ask for the shutdown,
\* but update does and those that ask.  The status of a bootstrap starts
\* nothing.  A mutant stops the executors at once.
Starting == IF command.name = "status" /\ command.bootstrap THEN <<>> ELSE Wakes
Ending(asks) == (IF Temporary /\ asks THEN <<"shutdown">> ELSE <<>>) \o <<"stop">>
QueuedBehind(queued, asks) == Starting \o Ending(asks) \o queued
Queued(queued, asks) == Starting \o queued \o Ending(asks)
Succeeds ==
  \E o \in CallOutcomes :
    /\ rows' = [rows EXCEPT ![command.job] = o.row]
    /\ ready' = Queued(o.queued, TRUE)
    /\ futures' = IF o.message = "Triggered" THEN {command.job} ELSE {}
    /\ told' = o.message
Fails ==
  /\ CallOutcomes = {} \/ command.name \in {"add", "run", "update", "list", "preview"}
  /\ ready' = Queued(<<>>, command.name \in {"update"} \cup Asking)
  /\ UNCHANGED <<rows, futures, told>>
Main ==
  /\ command.pc = "main"
  /\ Succeeds \/ Fails
  /\ Reaches("loop")
  /\ UNCHANGED begun

\* A bootstrap ignores that its scheduler does not start: what is added is
\* pending then, and nothing else is found.
NotStarted ==
  /\ command.pc = "main" /\ command.bootstrap /\ command.name # "status"
  /\ told' = IF command.name = "add" THEN "Added tentatively" ELSE "nothing"
  /\ Reaches("over")
  /\ UNCHANGED <<rows, ready, futures, begun>>

\* A round of the command, without a lock on the store: every due task of the
\* store is submitted and moves on.  Its coroutines are queued behind the end.
Due == {j \in Jobs : rows[j] = "due"}
Wakeup ==
  /\ command.pc = "loop" /\ Head(ready) = "wakeup"
  /\ \E later \in [Due -> {"later", "gone"}] :
       rows' = [j \in Jobs |-> IF j \in Due THEN later[j] ELSE rows[j]]
  /\ futures' = futures \cup Due
  /\ ready' = Tail(ready) \o SetToSeq(Due \cap Coroutines)
  /\ UNCHANGED <<command, begun, told>>
CoroutineStep ==
  /\ command.pc = "loop" /\ Head(ready) \in Jobs
  /\ begun' = begun \cup ({Head(ready)} \cap futures)
  /\ ready' = Tail(ready)
  /\ UNCHANGED <<rows, command, futures, told>>
\* A thread of the loop's pool takes up a function, also while the process ends.
Thread ==
  \E j \in futures \ (Coroutines \cup begun) :
    begun' = begun \cup {j} /\ UNCHANGED <<rows, command, ready, futures, told>>
Shutdown ==
  /\ command.pc = "loop" /\ Head(ready) = "shutdown"
  /\ futures' = {}
  /\ ready' = Tail(ready)
  /\ UNCHANGED <<rows, command, begun, told>>
LoopStops ==
  /\ command.pc = "loop" /\ Head(ready) = "stop"
  /\ Reaches("over")
  /\ ready' = <<>>
  /\ UNCHANGED <<rows, futures, begun, told>>

CommandNext == Options \/ Main \/ NotStarted \/ Wakeup \/ CoroutineStep \/ Thread \/ Shutdown \/ LoopStops

-----------------------------------------------------------------------------
(* asyncz start *)

At(pc) == server' = [server EXCEPT !.pc = pc]
CallsHook(name) == hooks' = [hooks EXCEPT ![name] = @ + 1]

\* The jobs are loaded, which fails for a file that names any, since Task takes
\* no func; or the bootstrap is, which can fail only once since its scheduler is
\* kept.  A failure of the first boot ends the command at once, a later one by
\* way of the end.
BootFails == IF server.generation = 0 THEN "over" ELSE "finally"
LoadFails ==
  /\ server.pc = "boot"
  /\ server.bootstrap => server.generation = 0
  /\ At(BootFails)
  /\ UNCHANGED <<asked, refs, hooks>>
\* A bootstrap gives the same scheduler at every boot, and no hook is called.
Booted == IF server.bootstrap THEN 1 ELSE server.generation + 1
Boot ==
  /\ server.pc = "boot"
  /\ refs' = [refs EXCEPT ![Booted] = @ + 1]
  /\ \/ ~server.bootstrap /\ At("started")
     \/ server.bootstrap /\ server' = [server EXCEPT !.pc = "watching", !.generation = Booted]
  /\ UNCHANGED <<asked, hooks>>
\* The hook raises, or the new generation takes over.
StartHook ==
  /\ server.pc = "started"
  /\ CallsHook("on_start")
  /\ \/ server' = [server EXCEPT !.pc = "watching", !.generation = @ + 1]
     \/ At(BootFails)
  /\ UNCHANGED <<asked, refs>>

\* The old generation is only asked to stop when the new one boots; a hook that
\* raises leads to the end instead, which calls it once more.
Asks == asked' = Append(asked, server.generation)
Changed ==
  /\ server.pc = "watching" /\ server.reloads < MaxReloads
  /\ CallsHook("on_stop")
  /\ \/ Asks /\ server' = [server EXCEPT !.pc = "reload", !.reloads = @ + 1]
     \/ UNCHANGED asked /\ server' = [server EXCEPT !.pc = "finally", !.reloads = @ + 1]
  /\ UNCHANGED refs
\* The import of the module that changed may raise.
Reload ==
  /\ server.pc = "reload"
  /\ At("boot") \/ At("finally")
  /\ UNCHANGED <<asked, refs, hooks>>
\* Neither --watch nor --standalone, or an interrupt inside main; one that meets
\* the loop itself leaves it, and no callback runs any more.
Interrupt ==
  /\ server.pc = "watching"
  /\ At("finally") \/ At("left")
  /\ UNCHANGED <<asked, refs, hooks>>
Finally ==
  /\ server.pc = "finally"
  /\ CallsHook("on_stop")
  /\ Asks \/ UNCHANGED asked
  /\ At("over")
  /\ UNCHANGED refs

\* The loop runs while main sleeps or awaits a hook.  Of a scheduler that is
\* down already the shutdown raises, into the loop, but has counted.
Down ==
  /\ server.pc \in {"started", "watching", "over"} /\ asked # <<>>
  /\ refs' = [refs EXCEPT ![Head(asked)] = @ - 1]
  /\ asked' = Tail(asked)
  /\ UNCHANGED <<server, hooks>>

ServerNext == \/ LoadFails \/ Boot \/ StartHook \/ Changed \/ Reload \/ Interrupt
              \/ Finally \/ Down

CliNext == (CommandNext /\ UNCHANGED starter) \/ (ServerNext /\ UNCHANGED cli)
CliSpec == CliInit /\ [][CliNext]_<<cli, starter>>

-----------------------------------------------------------------------------
(* Properties *)

\* A command keeps its word: a coroutine that run says it has triggered has
\* begun when the command ends, although the shutdown cancels what is not done
\* (run.py:58, executors/asyncio.py:28), and a job it says it paused is still
\* so after the round it makes.  And asyncz start leaves no generation behind
\* that it replaced, nor stops the scheduler of a bootstrap, which each reload
\* both starts and shuts down (start.py:135, 144); and it calls on_stop at most
\* once more than on_start, or with a bootstrap, whose on_start is never called,
\* than it reloads: the last call comes after all others (start.py:134, 155).
Starts == IF server.bootstrap THEN server.reloads ELSE hooks.on_start
CommandsKeepTheirWord ==
  /\ command.pc = "over" /\ told = "Triggered" /\ command.job \in Coroutines => command.job \in begun
  /\ told = "Paused" => rows[command.job] = "paused"
  /\ server.pc = "watching" /\ asked = <<>> => Up = {server.generation}
  /\ hooks.on_stop <= Starts + 1
==============================================================================
