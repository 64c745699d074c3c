------------------------------ MODULE Lifecycle ------------------------------
(***************************************************************************)
(* main of main.c: the configuration it owns, the two sets of signal       *)
(* handlers, and every way the process ends.  main.c's handler releases    *)
(* the configuration itself; run_server replaces it by one that only       *)
(* clears server_running.  A handler may interrupt main, or the handler of *)
(* the other signal, between any two steps; while a handler runs its own   *)
(* signal is blocked (signal() in a gnu99 build).                          *)
(***************************************************************************)
EXTENDS Naturals, Sequences

CONSTANT MaxOptions   \* bound: options on the command line

ASSUME Bounded == MaxOptions \in Nat

VARIABLES mpc,             \* where main is
          todo,            \* what main's cleanup still has to free
          objects,         \* what g_config and its fields point to
          options,         \* options read so far
          helped,          \* history: the help text was asked for
          disposition,     \* what each signal does
          server_running,
          handlers,        \* running handlers, the interrupting one last
          served,          \* history: the loop of run_server was entered
          misused          \* history: freed memory was read or freed again

main == <<mpc, todo, options, helped, served>>
vars == <<main, objects, disposition, server_running, handlers, misused>>

Signal == {"SIGINT", "SIGTERM"}
Object == {"config", "upstream_server", "filter_file", "filter_root"}
Ended == {"killed", "exited"}

TypeOK ==
  /\ mpc \in {"start", "args", "load", "sigint", "sigterm", "bind", "sigint2", "sigterm2",
              "serve", "cleanup"} \cup Ended
  /\ todo \in Seq(Object) /\ Len(todo) <= 4
  /\ objects \in [Object -> {"null", "live", "freed"}]
  /\ options \in 0..MaxOptions
  /\ disposition \in [Signal -> {"default", "exit", "stop"}]
  /\ handlers \in Seq([signal : Signal, todo : Seq(Object)]) /\ Len(handlers) <= 2
  /\ helped \in BOOLEAN /\ server_running \in BOOLEAN
  /\ served \in BOOLEAN /\ misused \in BOOLEAN

Init ==
  /\ mpc = "start"
  /\ todo = << >>
  /\ objects = [o \in Object |-> "null"]
  /\ options = 0 /\ helped = FALSE
  /\ disposition = [s \in Signal |-> "default"]
  /\ server_running = TRUE
  /\ handlers = << >>
  /\ served = FALSE /\ misused = FALSE

-----------------------------------------------------------------------------
(* main up to run_server.  It stands still while a handler runs. *)

At(place) == mpc = place /\ handlers = << >>

GoTo(place) ==
  /\ mpc' = place
  /\ UNCHANGED <<todo, options, helped, served>>

CleanUp(order) ==
  /\ mpc' = "cleanup"
  /\ todo' = order
  /\ UNCHANGED <<options, served>>

\* Mutant: the structure is freed before its fields.
Strings_ConfigFirst == <<"config", "upstream_server", "filter_file">>

Strings == <<"upstream_server", "filter_file", "config">>

init_config ==
  /\ At("start")
  /\ \/ /\ objects' = [objects EXCEPT !["config"] = "live"]
        /\ GoTo("args")
     \/ /\ GoTo("exited")
        /\ UNCHANGED objects
  /\ UNCHANGED <<disposition, server_running, handlers, misused>>

\* -s and -f: strdup of the argument.
StringOption(o) ==
  /\ At("args") /\ options < MaxOptions
  /\ objects[o] = "null"
  /\ objects' = [objects EXCEPT ![o] = "live"]
  /\ options' = options + 1
  /\ UNCHANGED <<mpc, todo, helped, served, disposition, server_running, handlers, misused>>

\* -v, or -p with a good port.
PlainOption ==
  /\ At("args") /\ options < MaxOptions
  /\ options' = options + 1
  /\ UNCHANGED <<mpc, todo, helped, served, objects, disposition, server_running,
                 handlers, misused>>

\* Mutant: the error path forgets the filter file's name.
BadArguments_Leaks ==
  /\ At("args")
  /\ CleanUp(<<"upstream_server", "config">>)
  /\ UNCHANGED <<helped, objects, disposition, server_running, handlers, misused>>

\* An option twice, unknown, empty or out of range, no memory for it, an extra
\* argument, or a required option missing at the end.
BadArguments ==
  /\ At("args")
  /\ CleanUp(Strings)
  /\ UNCHANGED <<helped, objects, disposition, server_running, handlers, misused>>

\* -h: only the structure is freed.
Help ==
  /\ At("args") /\ options < MaxOptions
  /\ CleanUp(<<"config">>)
  /\ helped' = TRUE
  /\ UNCHANGED <<objects, disposition, server_running, handlers, misused>>

GoodArguments ==
  /\ At("args")
  /\ objects["upstream_server"] = "live" /\ objects["filter_file"] = "live"
  /\ GoTo("load")
  /\ UNCHANGED <<objects, disposition, server_running, handlers, misused>>

\* load_filter_file (module Loader).
LoadFilter ==
  /\ At("load")
  /\ objects' = [objects EXCEPT !["filter_root"] = "live"]
  /\ GoTo("sigint")
  /\ UNCHANGED <<disposition, server_running, handlers, misused>>

LoadFails ==
  /\ At("load")
  /\ CleanUp(Strings)
  /\ UNCHANGED <<helped, objects, disposition, server_running, handlers, misused>>

\* One call of signal().
Install(place, s, handler, next) ==
  /\ At(place)
  /\ disposition' = [disposition EXCEPT ![s] = handler]
  /\ GoTo(next)
  /\ UNCHANGED <<objects, server_running, handlers, misused>>

InstallExitHandlers ==
  \/ Install("sigint", "SIGINT", "exit", "sigterm")
  \/ Install("sigterm", "SIGTERM", "exit", "bind")

-----------------------------------------------------------------------------
(* run_server, as far as it concerns the process, and main's cleanup. *)

WholeConfig == <<"filter_root", "upstream_server", "filter_file", "config">>

Bind ==
  /\ At("bind")
  /\ GoTo("sigint2")
  /\ UNCHANGED <<objects, disposition, server_running, handlers, misused>>

\* init_udp_server fails: main cleans up, with its own handlers in place.
BindFails ==
  /\ At("bind")
  /\ CleanUp(WholeConfig)
  /\ UNCHANGED <<helped, objects, disposition, server_running, handlers, misused>>

\* Mutant: run_server takes over SIGINT only.
InstallStopHandlers_IntOnly ==
  \/ Install("sigint2", "SIGINT", "stop", "sigterm2")
  \/ Install("sigterm2", "SIGINT", "stop", "serve")

InstallStopHandlers ==
  \/ Install("sigint2", "SIGINT", "stop", "sigterm2")
  \/ Install("sigterm2", "SIGTERM", "stop", "serve")

\* The loop of run_server (module Server); its first turn is remembered.
Serve ==
  /\ At("serve") /\ server_running
  /\ served' = TRUE
  /\ UNCHANGED <<mpc, todo, options, helped, objects, disposition, server_running,
                 handlers, misused>>

ServerReturns ==
  /\ At("serve") /\ ~server_running
  /\ CleanUp(WholeConfig)
  /\ UNCHANGED <<helped, objects, disposition, server_running, handlers, misused>>

\* if (g_config->field != NULL) free(g_config->field), or free(g_config).
\* The pointer stays what it was.
Free(o) ==
  /\ objects' = [objects EXCEPT ![o] = IF @ = "null" THEN "null" ELSE "freed"]
  /\ misused' = (misused \/ "freed" \in {objects["config"], objects[o]})

CleanUpStep ==
  /\ At("cleanup") /\ todo # << >>
  /\ Free(Head(todo))
  /\ todo' = Tail(todo)
  /\ UNCHANGED <<mpc, options, helped, served, disposition, server_running, handlers>>

Return ==
  /\ At("cleanup") /\ todo = << >>
  /\ GoTo("exited")
  /\ UNCHANGED <<objects, disposition, server_running, handlers, misused>>

-----------------------------------------------------------------------------
(* Signals. *)

\* Mutant: the handler does not end the process.
HandlerExits_Returns ==
  /\ mpc \notin Ended /\ handlers # << >>
  /\ handlers[Len(handlers)].todo = << >>
  /\ handlers' = SubSeq(handlers, 1, Len(handlers) - 1)
  /\ UNCHANGED <<main, objects, disposition, server_running, misused>>

\* exit(0) at the end of main.c's handler.
HandlerExits ==
  /\ mpc \notin Ended /\ handlers # << >>
  /\ handlers[Len(handlers)].todo = << >>
  /\ GoTo("exited")
  /\ UNCHANGED <<objects, disposition, server_running, handlers, misused>>

\* main.c's handler, one object at a time.
HandlerStep ==
  /\ mpc \notin Ended /\ handlers # << >>
  /\ LET n == Len(handlers)
     IN  /\ handlers[n].todo # << >>
         /\ Free(Head(handlers[n].todo))
         /\ handlers' = [handlers EXCEPT ![n].todo = Tail(@)]
  /\ UNCHANGED <<main, disposition, server_running>>

\* Mutant: a handler can be interrupted by its own signal.
Arrives_Unblocked(s) ==
  /\ mpc \notin Ended
  /\ disposition[s] = "exit"
  /\ handlers' = Append(handlers, [signal |-> s, todo |-> WholeConfig])
  /\ UNCHANGED <<main, server_running, objects, disposition, misused>>

\* The process gets a signal that is not blocked.
Arrives(s) ==
  /\ mpc \notin Ended
  /\ \A i \in DOMAIN handlers : handlers[i].signal # s
  /\ \/ /\ disposition[s] = "default"
        /\ GoTo("killed")
        /\ UNCHANGED <<handlers, server_running>>
     \/ /\ disposition[s] = "exit"
        /\ handlers' = Append(handlers, [signal |-> s, todo |-> WholeConfig])
        /\ UNCHANGED <<main, server_running>>
     \/ /\ disposition[s] = "stop"
        /\ server_running' = FALSE
        /\ UNCHANGED <<main, handlers>>
  /\ UNCHANGED <<objects, disposition, misused>>

\* Once freed memory was touched the allocator may notice and abort.
HeapAborts ==
  /\ mpc \notin Ended /\ misused
  /\ GoTo("killed")
  /\ UNCHANGED <<objects, disposition, server_running, handlers, misused>>

Terminated ==
  /\ mpc \in Ended
  /\ UNCHANGED vars

-----------------------------------------------------------------------------
Process ==
  \/ init_config
  \/ \E o \in {"upstream_server", "filter_file"} : StringOption(o)
  \/ PlainOption \/ BadArguments \/ Help \/ GoodArguments
  \/ LoadFilter \/ LoadFails
  \/ InstallExitHandlers \/ Bind \/ BindFails \/ InstallStopHandlers
  \/ Serve \/ ServerReturns \/ CleanUpStep \/ Return
  \/ HandlerStep \/ HandlerExits

Next == Process \/ (\E s \in Signal : Arrives(s)) \/ HeapAborts \/ Terminated

Spec == Init /\ [][Next]_vars

\* The process is scheduled; signals come when they come.
FairSpec == Spec /\ WF_vars(Process)

-----------------------------------------------------------------------------
\* Freed memory is touched only where a handler interrupts a cleanup: main's
\* after a failed bind, or that of the other signal's handler.
MisuseNeedsTwoCleanups ==
  misused => /\ handlers # << >>
             /\ mpc = "cleanup" \/ Len(handlers) = 2 \/ mpc \in Ended

\* From the first datagram on no signal, nor two, in the loop or in the
\* cleanup after it, can make main.c's handler run on the configuration.
ServingIsSafe == served => handlers = << >> /\ ~misused

\* Whatever way the process exits by itself, it has released all it owned,
\* the two option strings of a command line with -h excepted.
ExitReleasesAll ==
  mpc = "exited" =>
    \A o \in Object :
      objects[o] = "live" => helped /\ o \in {"upstream_server", "filter_file"}

\* A signal ends the process, wherever it falls: when the second set of
\* handlers is half installed, or before the loop tests its flag; only after
\* a misuse of the heap nothing can be promised.
SignalEndsProcess ==
  (handlers # << >> \/ ~server_running) ~> (mpc \in Ended \/ misused)

\* README: termination by SIGINT and SIGTERM is handled correctly; signals are
\* a graceful shutdown.  No memory is freed twice or read after it was freed.
ShutdownIsGraceful == ~misused
=============================================================================
