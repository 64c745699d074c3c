-------------------------- MODULE LifecycleProofs --------------------------
(***************************************************************************)
(* For any number of options and any signals at any point: the heap can be *)
(* misused only where two cleanups overlap, never once the server serves,  *)
(* and whoever exits has released what main allocated.  Every cleanup, of  *)
(* main or of a handler, frees the rest of one and the same list.  Once a  *)
(* handler began, the process has a bounded number of steps left.          *)
(***************************************************************************)
EXTENDS Lifecycle, SequenceTheorems, TLAPS

\* What is left of a cleanup: main.c frees in one order everywhere.
Plans == {WholeConfig, Strings, <<"filter_file", "config">>, <<"config">>, << >>}

Pending(plan) == {plan[i] : i \in DOMAIN plan}

Handler == [signal : Signal, todo : Plans]

\* Main and the handlers free along these lists, each signal has one handler.
Cleanups ==
  /\ todo \in Plans
  /\ handlers \in Seq(Handler)
  /\ \A i, j \in DOMAIN handlers : handlers[i].signal = handlers[j].signal => i = j

\* What main holds on its way, and what it still has to free in its cleanup.
MainOwns ==
  /\ mpc = "start" => \A o \in Object : objects[o] = "null"
  /\ mpc \in {"start", "args", "load"} => objects["filter_root"] = "null"
  /\ mpc = "cleanup" =>
       \A o \in Object :
         objects[o] = "live" =>
           o \in Pending(todo) \/ (helped /\ o \in {"upstream_server", "filter_file"})

\* A handler leaves nothing allocated but what it is still to free.
HandlersOwn ==
  \A i \in DOMAIN handlers, o \in Object :
    objects[o] = "live" => o \in Pending(handlers[i].todo)

\* What is freed was freed by the one cleanup that runs, which will not come
\* to it again.
FreedOnce ==
  mpc \notin Ended =>
    /\ handlers = << >> =>
         \A o \in Object : objects[o] = "freed" => mpc = "cleanup" /\ o \notin Pending(todo)
    /\ Len(handlers) = 1 /\ mpc # "cleanup" =>
         \A o \in Object : objects[o] = "freed" => o \notin Pending(handlers[1].todo)

\* run_server's handlers have replaced main's before the loop begins.
StopHandlers ==
  /\ mpc = "sigterm2" => disposition["SIGINT"] = "stop"
  /\ mpc = "serve" \/ served => disposition = [s \in Signal |-> "stop"]
  /\ served => mpc \in {"serve", "cleanup"} \cup Ended

IInv == /\ TypeOK /\ Cleanups /\ MainOwns /\ HandlersOwn /\ FreedOnce /\ StopHandlers
        /\ MisuseNeedsTwoCleanups /\ ServingIsSafe /\ ExitReleasesAll

-----------------------------------------------------------------------------
(* The lists. *)

\* What each of the lists of frees still has to free.
LEMMA PendingOf ==
  /\ Pending(WholeConfig) = Object
  /\ Pending(Strings) = {"upstream_server", "filter_file", "config"}
  /\ Pending(<<"filter_file", "config">>) = {"filter_file", "config"}
  /\ Pending(<<"config">>) = {"config"}
  /\ Pending(<< >>) = {}
<1>1. /\ DOMAIN WholeConfig = {1, 2, 3, 4} /\ DOMAIN Strings = {1, 2, 3}
      /\ DOMAIN <<"filter_file", "config">> = {1, 2} /\ DOMAIN <<"config">> = {1}
      /\ DOMAIN << >> = {}
  BY DEF WholeConfig, Strings
<1>2. QED
  BY <1>1 DEF Pending, WholeConfig, Strings, Object

\* One more object is freed: what remains is again the rest of the list.
LEMMA PlanShrinks ==
  ASSUME NEW plan \in Plans, plan # << >>
  PROVE  /\ Head(plan) \in Object /\ Tail(plan) \in Plans
         /\ "config" \in Pending(plan) /\ Head(plan) \in Pending(plan)
         /\ Pending(Tail(plan)) = Pending(plan) \ {Head(plan)}
<1>1. CASE plan = WholeConfig
  <2>1. Head(plan) = "filter_root" /\ Tail(plan) = Strings
    BY <1>1 DEF WholeConfig, Strings
  <2>2. QED
    BY <1>1, <2>1, PendingOf DEF Object, Plans
<1>2. CASE plan = Strings
  <2>1. Head(plan) = "upstream_server" /\ Tail(plan) = <<"filter_file", "config">>
    BY <1>2 DEF Strings
  <2>2. QED
    BY <1>2, <2>1, PendingOf DEF Object, Plans
<1>3. CASE plan = <<"filter_file", "config">>
  <2>1. Head(plan) = "filter_file" /\ Tail(plan) = <<"config">>
    BY <1>3
  <2>2. QED
    BY <1>3, <2>1, PendingOf DEF Object, Plans
<1>4. CASE plan = <<"config">>
  <2>1. Head(plan) = "config" /\ Tail(plan) = << >>
    BY <1>4
  <2>2. QED
    BY <1>4, <2>1, PendingOf DEF Object, Plans
<1>5. QED
  BY <1>1, <1>2, <1>3, <1>4 DEF Plans

\* The lists are short sequences of what is freed.
LEMMA PlanTyped ==
  ASSUME NEW plan \in Plans
  PROVE  plan \in Seq(Object) /\ Len(plan) <= 4
<1> DEFINE typed(p) == p \in Seq(Object) /\ Len(p) <= 4
<1> USE DEF Object
<1>1. typed(WholeConfig)
  BY DEF WholeConfig
<1>2. typed(Strings)
  BY DEF Strings
<1>3. typed(<<"filter_file", "config">>) /\ typed(<<"config">>) /\ typed(<< >>)
  OBVIOUS
<1>4. QED
  BY <1>1, <1>2, <1>3 DEF Plans

\* Two signals have at most two handlers between them.
LEMMA TwoHandlers ==
  ASSUME NEW hs \in Seq(Handler),
         \A i, j \in DOMAIN hs : hs[i].signal = hs[j].signal => i = j
  PROVE  /\ Len(hs) \in {0, 1, 2}
         /\ Len(hs) = 2 => \A s \in Signal : \E i \in DOMAIN hs : hs[i].signal = s
<1>1. /\ Len(hs) \in Nat /\ DOMAIN hs = 1..Len(hs)
      /\ \A i \in 1..Len(hs) : hs[i].signal \in {"SIGINT", "SIGTERM"}
  <2>1. Len(hs) \in Nat /\ DOMAIN hs = 1..Len(hs) /\ \A i \in 1..Len(hs) : hs[i] \in Handler
    OBVIOUS
  <2>2. QED
    BY <2>1 DEF Handler, Signal
<1>2. ASSUME Len(hs) > 2
      PROVE  FALSE
  <2>1. 1 \in DOMAIN hs /\ 2 \in DOMAIN hs /\ 3 \in DOMAIN hs
    BY <1>1, <1>2
  <2>2. hs[1].signal # hs[2].signal /\ hs[1].signal # hs[3].signal /\ hs[2].signal # hs[3].signal
    BY <2>1
  <2>3. QED
    BY <1>1, <2>1, <2>2
<1>3. ASSUME Len(hs) = 2
      PROVE  \A s \in Signal : \E i \in DOMAIN hs : hs[i].signal = s
  <2>1. 1 \in DOMAIN hs /\ 2 \in DOMAIN hs
    BY <1>1, <1>3
  <2>2. hs[1].signal # hs[2].signal
    BY <2>1
  <2>3. QED
    BY <1>1, <2>1, <2>2 DEF Signal
<1>4. QED
  BY <1>1, <1>2, <1>3

-----------------------------------------------------------------------------
\* The lists and handlers have their types by the way they come about.
LEMMA CleanupsTyped ==
  ASSUME NEW plan \in Plans, NEW hs \in Seq(Handler),
         \A i, j \in DOMAIN hs : hs[i].signal = hs[j].signal => i = j
  PROVE  /\ plan \in Seq(Object) /\ Len(plan) <= 4
         /\ hs \in Seq([signal : Signal, todo : Seq(Object)]) /\ Len(hs) <= 2
<1>1. Handler \subseteq [signal : Signal, todo : Seq(Object)]
  BY PlanTyped DEF Handler
<1>2. hs \in Seq([signal : Signal, todo : Seq(Object)])
  BY <1>1, SeqMonotonic
<1>3. Len(hs) <= 2
  BY TwoHandlers
<1>4. plan \in Seq(Object) /\ Len(plan) <= 4
  BY PlanTyped
<1>5. QED
  BY <1>2, <1>3, <1>4

\* When the process starts, nothing is held and no cleanup is due.
LEMMA LifecycleInit == Init => IInv
<1> SUFFICES ASSUME Init
             PROVE  IInv
  OBVIOUS
<1>1. Cleanups
  BY DEF Init, Cleanups, Plans
<1>2. TypeOK
  <2>1. objects \in [Object -> {"null", "live", "freed"}]
        /\ disposition \in [Signal -> {"default", "exit", "stop"}]
    BY DEF Init
  <2>2. /\ todo \in Seq(Object) /\ Len(todo) <= 4
        /\ handlers \in Seq([signal : Signal, todo : Seq(Object)]) /\ Len(handlers) <= 2
    BY DEF Init
  <2>3. /\ mpc \in {"start", "args", "load", "sigint", "sigterm", "bind", "sigint2", "sigterm2",
                   "serve", "cleanup"} \cup Ended
    BY DEF Init
  <2>4. options \in 0..MaxOptions
    BY Bounded DEF Init
  <2>5. /\ helped \in BOOLEAN /\ server_running \in BOOLEAN
        /\ served \in BOOLEAN /\ misused \in BOOLEAN
    BY Zenon DEF Init
  <2>6. QED
    BY <2>1, <2>2, <2>3, <2>4, <2>5 DEF TypeOK
<1>3. MainOwns /\ HandlersOwn /\ FreedOnce
  BY DEF Init, MainOwns, HandlersOwn, FreedOnce, Object
<1>4. StopHandlers /\ MisuseNeedsTwoCleanups /\ ServingIsSafe /\ ExitReleasesAll
  BY DEF Init, StopHandlers, MisuseNeedsTwoCleanups, ServingIsSafe, ExitReleasesAll, Ended
<1>5. QED
  BY <1>1, <1>2, <1>3, <1>4 DEF IInv

-----------------------------------------------------------------------------
\* Steps of main outside its cleanup.
MainStep ==
  \/ init_config
  \/ \E o \in {"upstream_server", "filter_file"} : StringOption(o)
  \/ PlainOption \/ BadArguments \/ Help \/ GoodArguments \/ LoadFilter \/ LoadFails
  \/ InstallExitHandlers \/ Bind \/ BindFails \/ InstallStopHandlers \/ Serve \/ ServerReturns

\* When main takes one, no handler has run and nothing has been freed.
LEMMA MainRunsAlone ==
  ASSUME IInv, MainStep
  PROVE  /\ handlers = << >> /\ handlers' = << >>
         /\ misused = FALSE /\ misused' = FALSE
         /\ mpc \notin {"cleanup"} \cup Ended
         /\ objects \in [Object -> {"null", "live"}]
<1>1. /\ handlers = << >> /\ UNCHANGED <<handlers, misused>>
      /\ mpc \notin {"cleanup"} \cup Ended
  BY DEF At, Install, MainStep, init_config, StringOption, PlainOption, BadArguments, Help,
         GoodArguments, LoadFilter, LoadFails, InstallExitHandlers, Bind, BindFails,
         InstallStopHandlers, Serve, ServerReturns, Ended
<1>2. misused = FALSE
  BY <1>1 DEF IInv, TypeOK, MisuseNeedsTwoCleanups
<1>3. \A o \in Object : objects[o] # "freed"
  BY <1>1 DEF IInv, FreedOnce
<1>4. objects \in [Object -> {"null", "live"}]
  BY <1>3 DEF IInv, TypeOK
<1>5. QED
  BY <1>1, <1>2, <1>4

\* Each step of main keeps the invariant: it calls filter_cleanup and
\* args_free only with a whole list to free before it.
LEMMA MainKeepsInvariant ==
  ASSUME IInv, MainStep
  PROVE  IInv'
<1> DEFINE place == mpc' \in {"start", "args", "load", "sigint", "sigterm", "bind", "sigint2",
                              "sigterm2", "serve", "cleanup", "exited"}
           values == /\ todo' \in Plans
                     /\ objects' \in [Object -> {"null", "live"}]
                     /\ options' \in 0..MaxOptions
                     /\ disposition' \in [Signal -> {"default", "exit", "stop"}]
                     /\ helped' \in BOOLEAN /\ server_running' \in BOOLEAN /\ served' \in BOOLEAN
           Kept == place /\ values /\ MainOwns' /\ StopHandlers' /\ ExitReleasesAll'
<1>1. /\ handlers = << >> /\ handlers' = << >>
      /\ misused = FALSE /\ misused' = FALSE
      /\ objects \in [Object -> {"null", "live"}]
      /\ todo \in Plans /\ options \in 0..MaxOptions
      /\ disposition \in [Signal -> {"default", "exit", "stop"}]
      /\ helped \in BOOLEAN /\ server_running \in BOOLEAN /\ served \in BOOLEAN
  BY MainRunsAlone DEF IInv, TypeOK, Cleanups
<1>2. Strings \in Plans /\ <<"config">> \in Plans /\ WholeConfig \in Plans
  BY DEF Plans
<1>3. MainOwns /\ StopHandlers
  BY DEF IInv
<1>4. ASSUME Kept
      PROVE  IInv'
  <2>1. Cleanups'
    BY <1>1, <1>4 DEF Cleanups
  <2>2. /\ todo' \in Seq(Object) /\ Len(todo') <= 4
        /\ handlers' \in Seq([signal : Signal, todo : Seq(Object)]) /\ Len(handlers') <= 2
    BY <1>1, <1>4, PlanTyped
  <2>3. objects' \in [Object -> {"null", "live", "freed"}]
    BY <1>4
  <2>4. TypeOK'
    BY <1>1, <1>4, <2>2, <2>3 DEF TypeOK, Ended
  <2>5. HandlersOwn' /\ MisuseNeedsTwoCleanups' /\ ServingIsSafe'
    BY <1>1 DEF HandlersOwn, MisuseNeedsTwoCleanups, ServingIsSafe
  <2>6. FreedOnce'
    BY <1>1, <1>4 DEF FreedOnce
  <2>7. QED
    BY <1>4, <2>1, <2>4, <2>5, <2>6 DEF IInv
<1> SUFFICES Kept
  BY <1>4
<1> USE DEF At, GoTo, CleanUp, MainOwns, StopHandlers, ExitReleasesAll, Ended
<1>5. CASE init_config
  <2>1. /\ objects' \in [Object -> {"null", "live"}] /\ objects'["filter_root"] = "null"
        /\ mpc' = "exited" => \A o \in Object : objects'[o] = "null"
    BY <1>1, <1>3, <1>5 DEF init_config, Object
  <2>2. /\ mpc' \in {"args", "exited"} /\ served' = served /\ ~served
        /\ todo' = todo /\ options' = options /\ disposition' = disposition
        /\ helped' = helped /\ server_running' = server_running
    BY <1>1, <1>3, <1>5 DEF init_config
  <2>3. QED
    BY <1>1, <2>1, <2>2
<1>6. ASSUME NEW o \in {"upstream_server", "filter_file"}, StringOption(o)
      PROVE  Kept
  <2>1. objects' \in [Object -> {"null", "live"}] /\ objects'["filter_root"] = "null"
    BY <1>1, <1>3, <1>6 DEF StringOption, Object
  <2>2. QED
    BY <1>1, <1>3, <1>6, <2>1, Bounded DEF StringOption
<1>7. CASE PlainOption
  BY <1>1, <1>3, <1>7, Bounded DEF PlainOption
<1>8. CASE BadArguments
  BY <1>1, <1>2, <1>3, <1>8, PendingOf DEF BadArguments, Object
<1>9. CASE Help
  BY <1>1, <1>2, <1>3, <1>9, PendingOf DEF Help, Object
<1>10. CASE GoodArguments
  BY <1>1, <1>3, <1>10 DEF GoodArguments
<1>11. CASE LoadFilter
  BY <1>1, <1>3, <1>11 DEF LoadFilter
<1>12. CASE LoadFails
  BY <1>1, <1>2, <1>3, <1>12, PendingOf DEF LoadFails, Object
<1>13. CASE InstallExitHandlers
  BY <1>1, <1>3, <1>13 DEF InstallExitHandlers, Install, Signal
<1>14. CASE Bind
  BY <1>1, <1>3, <1>14 DEF Bind
<1>15. CASE BindFails
  BY <1>1, <1>2, <1>3, <1>15, PendingOf DEF BindFails
<1>16. CASE InstallStopHandlers
  BY <1>1, <1>3, <1>16 DEF InstallStopHandlers, Install, Signal
<1>17. CASE Serve
  BY <1>1, <1>3, <1>17 DEF Serve
<1>18. CASE ServerReturns
  BY <1>1, <1>2, <1>3, <1>18, PendingOf DEF ServerReturns
<1>19. QED
  BY <1>5, <1>6, <1>7, <1>8, <1>9, <1>10, <1>11, <1>12, <1>13, <1>14, <1>15, <1>16, <1>17,
     <1>18 DEF MainStep

-----------------------------------------------------------------------------
\* One object is freed: what was null stays null, and memory is misused only
\* if the object, or the structure its pointer is read from, was freed before.
LEMMA FreeOne ==
  ASSUME TypeOK, NEW o \in Object, Free(o)
  PROVE  /\ objects' \in [Object -> {"null", "live", "freed"}]
         /\ \A p \in Object : /\ objects'[p] = "live" => objects[p] = "live" /\ p # o
                              /\ objects'[p] = "freed" => objects[p] = "freed" \/ p = o
                              /\ objects[p] = "null" => objects'[p] = "null"
         /\ misused' \in BOOLEAN
         /\ misused' => misused \/ objects["config"] = "freed" \/ objects[o] = "freed"
<1>1. objects \in [Object -> {"null", "live", "freed"}] /\ misused \in BOOLEAN
  BY DEF TypeOK
<1>2. objects' = [objects EXCEPT ![o] = IF @ = "null" THEN "null" ELSE "freed"]
  BY DEF Free
<1>3. misused' = (misused \/ "freed" \in {objects["config"], objects[o]})
  BY DEF Free
<1>4. misused' \in BOOLEAN /\ (misused' => misused \/ "freed" \in {objects["config"], objects[o]})
  BY <1>1, <1>3
<1>5. QED
  BY <1>1, <1>2, <1>4

\* main's cleanup.
LEMMA CleanUpKeepsInvariant ==
  ASSUME IInv, CleanUpStep
  PROVE  IInv'
<1>1. /\ mpc = "cleanup" /\ handlers = << >> /\ todo # << >> /\ Free(Head(todo))
      /\ todo' = Tail(todo) /\ mpc' = "cleanup" /\ handlers' = << >>
      /\ options' = options /\ helped' = helped /\ served' = served
      /\ disposition' = disposition /\ server_running' = server_running
  BY DEF CleanUpStep, At
<1>2. /\ TypeOK /\ todo \in Plans /\ MainOwns /\ FreedOnce /\ StopHandlers
      /\ MisuseNeedsTwoCleanups
  BY DEF IInv, Cleanups
<1>3. /\ Head(todo) \in Object /\ Tail(todo) \in Plans
      /\ "config" \in Pending(todo) /\ Head(todo) \in Pending(todo)
      /\ Pending(Tail(todo)) = Pending(todo) \ {Head(todo)}
  BY <1>1, <1>2, PlanShrinks
<1>4. /\ objects' \in [Object -> {"null", "live", "freed"}]
      /\ \A p \in Object :
           /\ objects'[p] = "live" => objects[p] = "live" /\ p # Head(todo)
           /\ objects'[p] = "freed" => objects[p] = "freed" \/ p = Head(todo)
      /\ misused' \in BOOLEAN
      /\ misused' => misused \/ objects["config"] = "freed" \/ objects[Head(todo)] = "freed"
  BY <1>1, <1>2, <1>3, FreeOne
<1>5. ~misused'
  <2>1. ~misused
    BY <1>1, <1>2 DEF MisuseNeedsTwoCleanups
  <2>2. \A o \in Object : objects[o] = "freed" => o \notin Pending(todo)
    BY <1>1, <1>2 DEF FreedOnce, Ended
  <2>3. QED
    BY <1>3, <1>4, <2>1, <2>2 DEF Object
<1>6. Cleanups'
  BY <1>1, <1>3 DEF Cleanups
<1>7. TypeOK'
  <2>1. todo' \in Seq(Object) /\ Len(todo') <= 4
    BY <1>1, <1>3, PlanTyped
  <2>2. handlers' \in Seq([signal : Signal, todo : Seq(Object)]) /\ Len(handlers') <= 2
    BY <1>1
  <2>3. QED
    BY <1>1, <1>2, <1>4, <2>1, <2>2 DEF TypeOK
<1>8. MainOwns'
  BY <1>1, <1>2, <1>3, <1>4 DEF MainOwns
<1>9. FreedOnce'
  BY <1>1, <1>2, <1>3, <1>4 DEF FreedOnce, Ended
<1>10. StopHandlers'
  BY <1>1, <1>2 DEF StopHandlers
<1>11. HandlersOwn' /\ MisuseNeedsTwoCleanups' /\ ServingIsSafe' /\ ExitReleasesAll'
  BY <1>1, <1>5 DEF HandlersOwn, MisuseNeedsTwoCleanups, ServingIsSafe, ExitReleasesAll
<1>12. QED
  BY <1>6, <1>7, <1>8, <1>9, <1>10, <1>11 DEF IInv

\* The process ends: nothing but the place changes, and one that exits has
\* nothing left that is live, the strings of -h excepted.
LEMMA EndKeepsInvariant ==
  ASSUME IInv, mpc' \in Ended,
         UNCHANGED <<todo, options, helped, served, objects, disposition, server_running,
                     handlers, misused>>,
         mpc' = "exited" =>
           \A o \in Object :
             objects[o] = "live" => helped /\ o \in {"upstream_server", "filter_file"}
  PROVE  IInv'
<1>1. TypeOK'
  BY DEF IInv, TypeOK
<1>2. Cleanups' /\ HandlersOwn'
  BY DEF IInv, Cleanups, HandlersOwn
<1>3. MainOwns' /\ FreedOnce' /\ StopHandlers'
  BY DEF IInv, MainOwns, FreedOnce, StopHandlers, Ended
<1>4. MisuseNeedsTwoCleanups' /\ ServingIsSafe' /\ ExitReleasesAll'
  BY DEF IInv, MisuseNeedsTwoCleanups, ServingIsSafe, ExitReleasesAll
<1>5. QED
  BY <1>1, <1>2, <1>3, <1>4 DEF IInv

\* The end of main and the end of a handler.
LEMMA ExitKeepsInvariant ==
  ASSUME IInv, Return \/ HandlerExits
  PROVE  IInv'
<1>1. CASE Return
  <2>1. Pending(todo) = {} /\ mpc = "cleanup"
    BY <1>1, PendingOf DEF Return, At
  <2>2. \A o \in Object :
          objects[o] = "live" => helped /\ o \in {"upstream_server", "filter_file"}
    BY <2>1 DEF IInv, MainOwns
  <2>3. QED
    BY <1>1, <2>2, EndKeepsInvariant DEF Return, GoTo, Ended
<1>2. CASE HandlerExits
  <2>1. /\ handlers \in Seq(Handler) /\ handlers # << >>
        /\ Pending(handlers[Len(handlers)].todo) = {}
    BY <1>2, PendingOf DEF HandlerExits, IInv, Cleanups
  <2>2. Len(handlers) \in DOMAIN handlers
    BY <2>1
  <2>3. \A o \in Object : objects[o] # "live"
    BY <2>1, <2>2 DEF IInv, HandlersOwn
  <2>4. QED
    BY <1>2, <2>3, EndKeepsInvariant DEF HandlerExits, GoTo, Ended
<1>3. QED
  BY <1>1, <1>2

\* One object freed in a handler, which may have interrupted main's cleanup or
\* the other handler.
LEMMA HandlerKeepsInvariant ==
  ASSUME IInv, HandlerStep
  PROVE  IInv'
<1> DEFINE n == Len(handlers)
           plan == handlers[n].todo
<1>1. /\ mpc \notin Ended /\ handlers # << >> /\ plan # << >> /\ Free(Head(plan))
      /\ handlers' = [handlers EXCEPT ![n].todo = Tail(@)]
      /\ mpc' = mpc /\ todo' = todo /\ options' = options /\ helped' = helped
      /\ served' = served /\ disposition' = disposition /\ server_running' = server_running
  BY DEF HandlerStep, main
<1>2. /\ TypeOK /\ Cleanups /\ MainOwns /\ HandlersOwn /\ FreedOnce /\ StopHandlers
      /\ MisuseNeedsTwoCleanups /\ ServingIsSafe
  BY DEF IInv
<1>3. /\ handlers \in Seq(Handler) /\ n \in {1, 2} /\ DOMAIN handlers = 1..n
      /\ n \in DOMAIN handlers /\ plan \in Plans
  <2>1. handlers \in Seq(Handler) /\ n \in {0, 1, 2}
    BY <1>2, TwoHandlers DEF Cleanups
  <2>2. n # 0
    BY <1>1, <2>1
  <2>3. n \in DOMAIN handlers /\ handlers[n] \in Handler /\ DOMAIN handlers = 1..n
    BY <2>1, <2>2
  <2>4. QED
    BY <2>1, <2>2, <2>3 DEF Handler
<1> HIDE DEF n, plan
<1>4. /\ Head(plan) \in Object /\ Tail(plan) \in Plans
      /\ "config" \in Pending(plan) /\ Head(plan) \in Pending(plan)
      /\ Pending(Tail(plan)) = Pending(plan) \ {Head(plan)}
  BY <1>1, <1>3, PlanShrinks
<1>5. /\ objects' \in [Object -> {"null", "live", "freed"}]
      /\ \A p \in Object : /\ objects'[p] = "live" => objects[p] = "live" /\ p # Head(plan)
                           /\ objects'[p] = "freed" => objects[p] = "freed" \/ p = Head(plan)
                           /\ objects[p] = "null" => objects'[p] = "null"
      /\ misused' \in BOOLEAN
      /\ misused' => misused \/ objects["config"] = "freed" \/ objects[Head(plan)] = "freed"
  BY <1>1, <1>2, <1>4, FreeOne
<1>6. /\ handlers' \in Seq(Handler) /\ Len(handlers') = n /\ DOMAIN handlers' = 1..n
      /\ handlers'[n].todo = Tail(plan)
      /\ \A i \in 1..n : handlers'[i].signal = handlers[i].signal
      /\ \A i \in 1..n : i # n => handlers'[i].todo = handlers[i].todo
  <2>1. handlers[n] \in Handler
    BY <1>3
  <2>2. [handlers[n] EXCEPT !.todo = Tail(plan)] \in Handler
    BY <1>4, <2>1 DEF Handler
  <2>3. handlers' = [handlers EXCEPT ![n] = [handlers[n] EXCEPT !.todo = Tail(plan)]]
    BY <1>1 DEF plan
  <2>4. /\ handlers' \in Seq(Handler) /\ Len(handlers') = n /\ DOMAIN handlers' = 1..n
        /\ handlers'[n] = [handlers[n] EXCEPT !.todo = Tail(plan)]
        /\ \A i \in 1..n : i # n => handlers'[i] = handlers[i]
    BY <1>3, <2>2, <2>3
  <2>5. handlers'[n].signal = handlers[n].signal /\ handlers'[n].todo = Tail(plan)
    BY <2>1, <2>4 DEF Handler
  <2>6. QED
    BY <1>3, <2>4, <2>5
<1>7. Cleanups'
  BY <1>1, <1>2, <1>3, <1>6 DEF Cleanups
<1>8. TypeOK'
  <2>1. handlers' \in Seq([signal : Signal, todo : Seq(Object)]) /\ Len(handlers') <= 2
    BY <1>7, CleanupsTyped DEF Cleanups
  <2>2. QED
    BY <1>1, <1>2, <1>5, <2>1 DEF TypeOK
<1>9. MainOwns'
  BY <1>1, <1>2, <1>5 DEF MainOwns, Object
<1>10. HandlersOwn'
  <2> SUFFICES ASSUME NEW i \in 1..n, NEW o \in Object, objects'[o] = "live"
               PROVE  o \in Pending(handlers'[i].todo)
    BY <1>6 DEF HandlersOwn
  <2>1. o \in Pending(handlers[i].todo) /\ o # Head(plan)
    BY <1>2, <1>3, <1>5 DEF HandlersOwn
  <2>2. QED
    BY <1>4, <1>6, <2>1 DEF plan
<1>11. n = 1 /\ mpc # "cleanup" =>
         /\ \A o \in Object : objects[o] = "freed" => o \notin Pending(plan)
         /\ ~misused
  <2>1. n = 1 => Len(handlers) = 1 /\ plan = handlers[1].todo
    BY DEF n, plan
  <2>2. QED
    BY <1>1, <1>2, <2>1 DEF FreedOnce, MisuseNeedsTwoCleanups
<1>12. handlers' # << >>
  <2>1. Len(handlers') # 0
    BY <1>3, <1>6
  <2>2. QED
    BY <2>1
<1>13. FreedOnce'
  <2>1. handlers' # << >>
    BY <1>12
  <2>2. ASSUME Len(handlers') = 1, mpc' # "cleanup", NEW o \in Object, objects'[o] = "freed"
        PROVE  o \notin Pending(handlers'[1].todo)
    <3>1. n = 1 /\ mpc # "cleanup"
      BY <1>1, <1>6, <2>2
    <3>2. handlers'[1].todo = Tail(plan)
      BY <1>6, <3>1
    <3>3. QED
      BY <1>4, <1>5, <1>11, <2>2, <3>1, <3>2
  <2>3. QED
    BY <2>1, <2>2 DEF FreedOnce
<1>14. MisuseNeedsTwoCleanups'
  <2>1. n = 1 /\ mpc # "cleanup" => ~misused'
    BY <1>4, <1>5, <1>11 DEF Object
  <2>2. handlers' # << >>
    BY <1>12
  <2>3. QED
    BY <1>1, <1>3, <1>6, <2>1, <2>2 DEF MisuseNeedsTwoCleanups
<1>15. StopHandlers' /\ ServingIsSafe' /\ ExitReleasesAll'
  BY <1>1, <1>2 DEF StopHandlers, ServingIsSafe, ExitReleasesAll, Ended
<1>16. QED
  BY <1>7, <1>8, <1>9, <1>10, <1>13, <1>14, <1>15 DEF IInv

\* A signal arrives: it ends the process, or starts a handler that has the
\* whole configuration before it, or tells the loop to stop.
LEMMA SignalKeepsInvariant ==
  ASSUME IInv, NEW s \in Signal, Arrives(s)
  PROVE  IInv'
<1>1. /\ mpc \notin Ended /\ \A i \in DOMAIN handlers : handlers[i].signal # s
      /\ objects' = objects /\ disposition' = disposition /\ misused' = misused
  BY DEF Arrives
<1>2. CASE disposition[s] = "default" /\ GoTo("killed") /\ UNCHANGED <<handlers, server_running>>
  BY <1>1, <1>2, EndKeepsInvariant DEF GoTo, Ended
<1>3. CASE disposition[s] = "stop" /\ server_running' = FALSE /\ UNCHANGED <<main, handlers>>
  <2>1. /\ mpc' = mpc /\ todo' = todo /\ options' = options /\ helped' = helped
        /\ served' = served /\ handlers' = handlers /\ server_running' \in BOOLEAN
    BY <1>3 DEF main
  <2>2. TypeOK' /\ Cleanups'
    BY <1>1, <2>1 DEF IInv, TypeOK, Cleanups
  <2>3. MainOwns' /\ HandlersOwn' /\ FreedOnce' /\ StopHandlers'
    BY <1>1, <2>1 DEF IInv, MainOwns, HandlersOwn, FreedOnce, StopHandlers
  <2>4. MisuseNeedsTwoCleanups' /\ ServingIsSafe' /\ ExitReleasesAll'
    BY <1>1, <2>1 DEF IInv, MisuseNeedsTwoCleanups, ServingIsSafe, ExitReleasesAll
  <2>5. QED
    BY <2>2, <2>3, <2>4 DEF IInv
<1>4. CASE /\ disposition[s] = "exit"
           /\ handlers' = Append(handlers, [signal |-> s, todo |-> WholeConfig])
           /\ UNCHANGED <<main, server_running>>
  <2>1. /\ mpc' = mpc /\ todo' = todo /\ options' = options /\ helped' = helped
        /\ served' = served /\ server_running' = server_running
    BY <1>4 DEF main
  <2>2. /\ handlers \in Seq(Handler) /\ Len(handlers) \in Nat
        /\ DOMAIN handlers = 1..Len(handlers)
        /\ [signal |-> s, todo |-> WholeConfig] \in Handler
    BY DEF IInv, Cleanups, Handler, Plans
  <2>3. /\ handlers' \in Seq(Handler) /\ Len(handlers') = Len(handlers) + 1
        /\ DOMAIN handlers' = 1..Len(handlers) + 1
        /\ \A i \in 1..Len(handlers) : handlers'[i] = handlers[i]
        /\ handlers'[Len(handlers) + 1] = [signal |-> s, todo |-> WholeConfig]
    BY <1>4, <2>2
  <2>4. Cleanups'
    BY <1>1, <2>1, <2>2, <2>3 DEF IInv, Cleanups
  <2>5. Len(handlers') \in {1, 2} /\ handlers' # << >>
    BY <2>2, <2>3, <2>4, TwoHandlers DEF Cleanups
  <2>6. TypeOK'
    <3>1. handlers' \in Seq([signal : Signal, todo : Seq(Object)]) /\ Len(handlers') <= 2
      BY <2>4, CleanupsTyped DEF Cleanups
    <3>2. QED
      BY <1>1, <2>1, <3>1 DEF IInv, TypeOK
  <2>7. MainOwns' /\ StopHandlers'
    BY <1>1, <2>1 DEF IInv, MainOwns, StopHandlers
  <2>8. HandlersOwn'
    BY <1>1, <2>2, <2>3, PendingOf DEF IInv, HandlersOwn
  <2>9. ~served
    BY <1>4 DEF IInv, StopHandlers
  <2>10. FreedOnce'
    <3>1. Len(handlers') = 1 => handlers = << >>
      BY <2>2, <2>3
    <3>2. Len(handlers') = 1 /\ mpc' # "cleanup" => \A o \in Object : objects'[o] # "freed"
      BY <1>1, <2>1, <3>1 DEF IInv, FreedOnce
    <3>3. QED
      BY <2>5, <3>2 DEF FreedOnce
  <2>11. MisuseNeedsTwoCleanups'
    <3>1. misused => Len(handlers') = 2
      BY <2>2, <2>3, <2>5 DEF IInv, MisuseNeedsTwoCleanups
    <3>2. QED
      BY <1>1, <2>5, <3>1 DEF MisuseNeedsTwoCleanups
  <2>12. ServingIsSafe' /\ ExitReleasesAll'
    BY <1>1, <2>1, <2>9 DEF ServingIsSafe, ExitReleasesAll, Ended
  <2>13. QED
    BY <2>4, <2>6, <2>7, <2>8, <2>10, <2>11, <2>12 DEF IInv
<1>5. QED
  BY <1>2, <1>3, <1>4 DEF Arrives

\* Every step keeps the invariant.
LEMMA LifecycleStep == IInv /\ [Next]_vars => IInv'
<1> SUFFICES ASSUME IInv, [Next]_vars
             PROVE  IInv'
  OBVIOUS
<1>1. CASE Process
  <2>1. CASE MainStep
    BY <2>1, MainKeepsInvariant
  <2>2. CASE CleanUpStep
    BY <2>2, CleanUpKeepsInvariant
  <2>3. CASE HandlerStep
    BY <2>3, HandlerKeepsInvariant
  <2>4. CASE Return \/ HandlerExits
    BY <2>4, ExitKeepsInvariant
  <2>5. QED
    BY <1>1, <2>1, <2>2, <2>3, <2>4 DEF Process, MainStep
<1>2. ASSUME NEW s \in Signal, Arrives(s)
      PROVE  IInv'
  BY <1>2, SignalKeepsInvariant
<1>3. CASE HeapAborts
  BY <1>3, EndKeepsInvariant DEF HeapAborts, GoTo, Ended
<1>4. CASE UNCHANGED vars
  <2>1. UNCHANGED <<mpc, todo, options, helped, served, objects, disposition, server_running,
                    handlers, misused>>
    BY <1>4 DEF vars, main
  <2>2. TypeOK' /\ Cleanups' /\ MainOwns' /\ HandlersOwn'
    BY <2>1 DEF IInv, TypeOK, Cleanups, MainOwns, HandlersOwn
  <2>3. FreedOnce' /\ StopHandlers'
    BY <2>1 DEF IInv, FreedOnce, StopHandlers
  <2>4. MisuseNeedsTwoCleanups' /\ ServingIsSafe' /\ ExitReleasesAll'
    BY <2>1 DEF IInv, MisuseNeedsTwoCleanups, ServingIsSafe, ExitReleasesAll
  <2>5. QED
    BY <2>2, <2>3, <2>4 DEF IInv
<1>5. QED
  BY <1>1, <1>2, <1>3, <1>4 DEF Next, Terminated

-----------------------------------------------------------------------------
\* All the parts hold together in every state of every run.
THEOREM LifecycleInvariant == Spec => []IInv
BY LifecycleInit, LifecycleStep, PTL DEF Spec

\* Every variable has its type: at most two handlers run at once, and none
\* has more than the four objects to free.
THEOREM LifecycleTypeCorrect == Spec => []TypeOK
<1>1. IInv => TypeOK
  BY DEF IInv
<1>2. QED
  BY <1>1, LifecycleInvariant, PTL

\* The heap is misused only where one cleanup interrupts another.
THEOREM MisuseIsBounded == Spec => []MisuseNeedsTwoCleanups
<1>1. IInv => MisuseNeedsTwoCleanups
  BY DEF IInv
<1>2. QED
  BY <1>1, LifecycleInvariant, PTL

\* Once the server serves, main.c's handler can no longer run and the heap
\* stays sound, whatever signals arrive before the process has ended.
THEOREM ServingStaysSafe == Spec => []ServingIsSafe
<1>1. IInv => ServingIsSafe
  BY DEF IInv
<1>2. QED
  BY <1>1, LifecycleInvariant, PTL

\* A process that exits by itself leaves nothing allocated, the strings read
\* before -h excepted: on every error path, after the loop, and by a handler
\* wherever it interrupted main.
THEOREM ExitReleases == Spec => []ExitReleasesAll
<1>1. IInv => ExitReleasesAll
  BY DEF IInv
<1>2. QED
  BY <1>1, LifecycleInvariant, PTL
-----------------------------------------------------------------------------
(* The end is near once a signal was handled. *)

Ending == handlers # << >> \/ ~server_running

\* A bound on the process's own steps to its end: the last handler frees what
\* is before it and exits; without one, run_server installs its second handler,
\* its loop ends and main cleans up.
EndLeft ==
  IF mpc \in Ended THEN 0
  ELSE CASE Len(handlers) = 2                      -> Len(handlers[2].todo) + 1
         [] Len(handlers) = 1                      -> Len(handlers[1].todo) + 6
         [] Len(handlers) = 0 /\ mpc = "cleanup"   -> Len(todo) + 1
         [] Len(handlers) = 0 /\ mpc = "serve"     -> 6
         [] OTHER                                  -> 11

\* It counts down, and no further signal puts the end off.
EndRunsDown ==
  Ending =>
    /\ EndLeft \in 0..11
    /\ EndLeft = 0 <=> mpc \in Ended
    /\ Process => EndLeft' < EndLeft
    /\ Ending' /\ EndLeft' <= EndLeft

\* Only run_server installs a handler that clears the flag, and both before
\* its loop and the cleanup behind it.
StopPlaces ==
  /\ ~server_running => \E s \in Signal : disposition[s] = "stop"
  /\ (\E s \in Signal : disposition[s] = "stop") =>
       /\ mpc \in {"sigterm2", "serve", "cleanup"} \cup Ended
       /\ mpc = "cleanup" => \A s \in Signal : disposition[s] = "stop"

\* They are installed one after the other, and never removed.
LEMMA StopPlacesKept == IInv /\ StopPlaces /\ [Next]_vars => StopPlaces'
<1> SUFFICES ASSUME IInv, StopPlaces, [Next]_vars
             PROVE  StopPlaces'
  OBVIOUS
<1>1. /\ disposition \in [Signal -> {"default", "exit", "stop"}]
      /\ mpc = "serve" => \A s \in Signal : disposition[s] = "stop"
  BY DEF IInv, TypeOK, StopHandlers
<1>2. CASE init_config \/ (\E o \in {"upstream_server", "filter_file"} : StringOption(o))
           \/ PlainOption \/ BadArguments \/ Help \/ GoodArguments \/ LoadFilter \/ LoadFails
           \/ Bind \/ BindFails
  BY <1>2 DEF init_config, StringOption, PlainOption, BadArguments, Help, GoodArguments,
     LoadFilter, LoadFails, Bind, BindFails, At, GoTo, CleanUp, StopPlaces, Ended
<1>3. CASE InstallExitHandlers
  BY <1>1, <1>3 DEF InstallExitHandlers, Install, At, GoTo, StopPlaces, Ended, Signal
<1>4. CASE InstallStopHandlers
  BY <1>1, <1>4 DEF InstallStopHandlers, Install, At, GoTo, StopPlaces, Ended, Signal
<1>5. CASE Serve \/ ServerReturns
  BY <1>1, <1>5 DEF Serve, ServerReturns, At, CleanUp, StopPlaces
<1>6. CASE CleanUpStep \/ Return \/ HandlerStep \/ HandlerExits \/ HeapAborts
  BY <1>6 DEF CleanUpStep, Return, HandlerStep, HandlerExits, HeapAborts, At, GoTo, main,
     StopPlaces, Ended
<1>7. ASSUME NEW s \in Signal, Arrives(s)
      PROVE  StopPlaces'
  BY <1>7 DEF Arrives, GoTo, main, StopPlaces, Ended
<1>8. CASE UNCHANGED vars
  BY <1>8 DEF vars, main, StopPlaces
<1>9. QED
  BY <1>2, <1>3, <1>4, <1>5, <1>6, <1>7, <1>8 DEF Next, Process, Terminated

\* What the handlers and main's cleanup have left, as numbers.
LEMMA EndTypes ==
  ASSUME IInv
  PROVE  /\ handlers \in Seq(Handler) /\ Len(handlers) \in {0, 1, 2}
         /\ Len(handlers) = 0 <=> handlers = << >>
         /\ \A i \in 1..Len(handlers) : Len(handlers[i].todo) \in 0..4
         /\ Len(handlers) = 2 => \A s \in Signal : \E i \in DOMAIN handlers :
                                   handlers[i].signal = s
         /\ Len(todo) \in 0..4
<1>1. /\ handlers \in Seq(Handler) /\ todo \in Plans
      /\ \A i, j \in DOMAIN handlers : handlers[i].signal = handlers[j].signal => i = j
  BY DEF IInv, Cleanups
<1>2. \A plan \in Plans : Len(plan) \in 0..4
  <2> TAKE plan \in Plans
  <2>1. plan \in Seq(Object) /\ Len(plan) <= 4
    BY PlanTyped
  <2>2. Len(plan) \in Nat
    BY <2>1, LenProperties
  <2> DEFINE l == Len(plan)
  <2>3. l \in Nat /\ l <= 4
    BY <2>1, <2>2
  <2> HIDE DEF l
  <2>4. l \in 0..4
    BY <2>3
  <2>5. QED
    BY <2>4 DEF l
<1>3. ASSUME NEW i \in 1..Len(handlers)
      PROVE  Len(handlers[i].todo) \in 0..4
  <2>1. handlers[i] \in Handler
    BY <1>1
  <2>2. handlers[i].todo \in Plans
    BY <2>1 DEF Handler
  <2>3. QED
    BY <1>2, <2>2
<1>4. QED
  BY <1>1, <1>3, <1>2, TwoHandlers

\* Each step of the process brings the end nearer.
LEMMA EndCountsDown ==
  ASSUME IInv, StopPlaces, Next, Ending
  PROVE  /\ EndLeft \in 0..11
         /\ EndLeft = 0 <=> mpc \in Ended
         /\ Process => EndLeft' < EndLeft
         /\ Ending' /\ EndLeft' <= EndLeft
<1> DEFINE n == Len(handlers)
           last == handlers[n].todo
<1>1. /\ handlers \in Seq(Handler) /\ n \in {0, 1, 2} /\ (n = 0 <=> handlers = << >>)
      /\ \A i \in 1..n : Len(handlers[i].todo) \in 0..4
      /\ n = 2 => \A s \in Signal : \E i \in DOMAIN handlers : handlers[i].signal = s
      /\ Len(todo) \in 0..4
  BY EndTypes
<1>2. n \in {1, 2} => Len(last) \in 0..4
  BY <1>1
<1>3. EndLeft \in 0..11 /\ (EndLeft = 0 <=> mpc \in Ended)
  <2> DEFINE t == Len(todo)
             a == Len(handlers[1].todo)
             b == Len(handlers[2].todo)
             left == EndLeft
  <2>1. left = IF mpc \in Ended THEN 0
               ELSE CASE n = 2 -> b + 1
                      [] n = 1 -> a + 6
                      [] n = 0 /\ mpc = "cleanup" -> t + 1
                      [] n = 0 /\ mpc = "serve" -> 6
                      [] OTHER -> 11
    BY DEF EndLeft
  <2>2. t \in 0..4 /\ (n = 2 => b \in 0..4) /\ (n = 1 => a \in 0..4) /\ n \in {0, 1, 2}
    BY <1>1
  <2> HIDE DEF t, a, b, n, left
  <2>3. left \in 0..11 /\ (left = 0 <=> mpc \in Ended)
    BY <2>1, <2>2
  <2>4. QED
    BY <2>3 DEF left
<1>4. handlers = << >> /\ mpc \notin Ended =>
        /\ ~server_running /\ mpc \in {"sigterm2", "serve", "cleanup"}
        /\ mpc \in {"serve", "cleanup"} => \A s \in Signal : disposition[s] = "stop"
  BY DEF Ending, StopPlaces, IInv, StopHandlers
<1>5. ASSUME mpc' \in Ended, mpc \notin Ended, handlers' = handlers,
             server_running' = server_running
      PROVE  Ending' /\ EndLeft' < EndLeft /\ EndLeft' = 0
  <2>1. EndLeft' = 0
    BY <1>5 DEF EndLeft
  <2>2. EndLeft # 0
    BY <1>3, <1>5
  <2>3. QED
    BY <1>3, <1>5, <2>1, <2>2 DEF Ending
<1>6. ASSUME Process
      PROVE  Ending' /\ EndLeft' < EndLeft /\ EndLeft' <= EndLeft
  <2>1. CASE Return \/ HandlerExits
    <3>1. mpc' \in Ended /\ mpc \notin Ended /\ handlers' = handlers
          /\ server_running' = server_running
      BY <2>1 DEF Return, HandlerExits, At, GoTo, Ended
    <3>2. QED
      BY <1>3, <1>5, <3>1
  <2>2. CASE HandlerStep
    <3>1. /\ mpc \notin Ended /\ mpc' = mpc /\ n # 0 /\ last # << >>
          /\ handlers' = [handlers EXCEPT ![n].todo = Tail(@)]
      BY <1>1, <2>2 DEF HandlerStep, main
    <3>2. handlers[n] \in Handler /\ n \in DOMAIN handlers /\ last \in Seq(Object)
      <4>1. n \in DOMAIN handlers /\ handlers[n] \in Handler
        BY <1>1, <3>1
      <4>2. QED
        BY <4>1, PlanTyped DEF Handler
    <3>3. Len(handlers') = n /\ handlers'[n].todo = Tail(last)
      BY <1>1, <3>1, <3>2 DEF Handler
    <3>4. Len(Tail(last)) = Len(last) - 1
      BY <3>1, <3>2
    <3> HIDE DEF n, last
    <3>5. EndLeft = (IF n = 2 THEN Len(last) + 1 ELSE Len(last) + 6)
      BY <1>1, <3>1 DEF EndLeft, n, last
    <3>6. EndLeft' = (IF n = 2 THEN Len(Tail(last)) + 1 ELSE Len(Tail(last)) + 6)
      BY <1>1, <3>1, <3>3 DEF EndLeft
    <3>7. Ending'
      <4>1. Len(<< >>) = 0
        OBVIOUS
      <4>2. QED
        BY <3>1, <3>3, <4>1 DEF Ending
    <3>8. n \in {1, 2}
      BY <1>1, <3>1
    <3>9. QED
      BY <1>2, <1>3, <3>4, <3>5, <3>6, <3>7, <3>8
  <2>3. CASE CleanUpStep
    <3>1. /\ mpc = "cleanup" /\ mpc' = mpc /\ handlers = << >> /\ handlers' = handlers
          /\ todo # << >> /\ todo' = Tail(todo) /\ server_running' = server_running
      BY <2>3 DEF CleanUpStep, At
    <3>2. todo \in Seq(Object)
      BY DEF IInv, TypeOK
    <3>3. Len(Tail(todo)) = Len(todo) - 1
      BY <3>1, <3>2
    <3>4. EndLeft = Len(todo) + 1 /\ EndLeft' = Len(Tail(todo)) + 1
      BY <1>1, <3>1 DEF EndLeft, Ended
    <3>5. Ending'
      BY <3>1 DEF Ending
    <3>6. QED
      BY <1>1, <3>3, <3>4, <3>5
  <2>4. CASE MainStep
    <3>1. handlers = << >> /\ handlers' = << >> /\ mpc \notin {"cleanup"} \cup Ended
      BY <2>4, MainRunsAlone
    <3>2. ~server_running /\ mpc \in {"sigterm2", "serve"}
      BY <1>4, <3>1
    <3>3. \/ mpc = "sigterm2" /\ mpc' = "serve" /\ server_running' = server_running
          \/ /\ mpc = "serve" /\ mpc' = "cleanup" /\ todo' = WholeConfig
             /\ server_running' = server_running
      BY <2>4, <3>2 DEF MainStep, init_config, StringOption, PlainOption, BadArguments, Help,
         GoodArguments, LoadFilter, LoadFails, InstallExitHandlers, Bind, BindFails,
         InstallStopHandlers, Install, Serve, ServerReturns, At, GoTo, CleanUp
    <3>4. Len(WholeConfig) = 4 /\ Len(<< >>) = 0
      BY DEF WholeConfig
    <3>5. Len(handlers) = 0 /\ Len(handlers') = 0 /\ mpc \notin Ended /\ mpc' \notin Ended
      BY <3>1, <3>3, <3>4 DEF Ended
    <3>6. CASE mpc = "sigterm2"
      <4>1. EndLeft = 11 /\ EndLeft' = 6
        BY <3>3, <3>5, <3>6 DEF EndLeft
      <4>2. QED
        BY <3>2, <3>3, <4>1 DEF Ending
    <3>7. CASE mpc = "serve"
      <4>1. EndLeft = 6 /\ EndLeft' = Len(WholeConfig) + 1
        BY <3>3, <3>5, <3>7 DEF EndLeft
      <4>2. EndLeft' = 5
        BY <3>4, <4>1
      <4>3. QED
        BY <3>2, <3>3, <4>1, <4>2 DEF Ending
    <3>8. QED
      BY <3>2, <3>6, <3>7
  <2>5. QED
    BY <1>6, <2>1, <2>2, <2>3, <2>4 DEF Process, MainStep
<1>7. ASSUME NEW s \in Signal, Arrives(s)
      PROVE  Ending' /\ EndLeft' <= EndLeft
  <2>1. /\ mpc \notin Ended /\ \A i \in DOMAIN handlers : handlers[i].signal # s
        /\ n # 2
    BY <1>1, <1>7 DEF Arrives
  <2>2. CASE GoTo("killed") /\ UNCHANGED <<handlers, server_running>>
    BY <1>3, <1>5, <2>1, <2>2 DEF GoTo, Ended
  <2>3. CASE disposition[s] = "stop" /\ server_running' = FALSE /\ UNCHANGED <<main, handlers>>
    <3>1. mpc' = mpc /\ todo' = todo /\ handlers' = handlers /\ ~server_running'
      BY <2>3 DEF main
    <3>2. EndLeft' = EndLeft
      BY <3>1 DEF EndLeft
    <3>3. QED
      BY <1>3, <3>1, <3>2 DEF Ending
  <2>4. CASE /\ disposition[s] = "exit"
             /\ handlers' = Append(handlers, [signal |-> s, todo |-> WholeConfig])
             /\ UNCHANGED <<main, server_running>>
    <3> DEFINE new == [signal |-> s, todo |-> WholeConfig]
    <3>1. mpc' = mpc /\ new \in Handler /\ new.todo = WholeConfig /\ Len(WholeConfig) = 4
      BY <2>4 DEF main, Handler, Plans, WholeConfig
    <3>2. Len(handlers') = n + 1 /\ handlers'[n + 1] = new
      BY <1>1, <2>4, <3>1
    <3>3. Ending'
      <4>1. Len(<< >>) = 0
        OBVIOUS
      <4>2. QED
        BY <1>1, <3>2, <4>1 DEF Ending
    <3> HIDE DEF new
    <3>4. CASE n = 1
      <4>1. Len(handlers') = 2 /\ handlers'[2].todo = WholeConfig
        BY <3>1, <3>2, <3>4
      <4>2. EndLeft' = Len(handlers'[2].todo) + 1
        <5>1. mpc' \notin Ended
          BY <2>1, <3>1
        <5>2. QED
          BY <4>1, <5>1 DEF EndLeft
      <4>3. EndLeft' = 5
        BY <3>1, <4>1, <4>2
      <4>4. EndLeft = Len(handlers[1].todo) + 6 /\ Len(handlers[1].todo) \in 0..4
        BY <1>1, <2>1, <3>4 DEF EndLeft
      <4>5. QED
        BY <3>3, <4>3, <4>4
    <3>5. CASE n = 0
      <4>1. Len(handlers') = 1 /\ handlers'[1].todo = WholeConfig
        BY <3>1, <3>2, <3>5
      <4>2. EndLeft' = Len(handlers'[1].todo) + 6
        <5>1. mpc' \notin Ended
          BY <2>1, <3>1
        <5>2. QED
          BY <4>1, <5>1 DEF EndLeft
      <4>3. EndLeft' = 10
        BY <3>1, <4>1, <4>2
      <4>4. mpc = "sigterm2"
        BY <1>1, <1>4, <2>1, <2>4, <3>5
      <4>5. EndLeft = 11
        BY <2>1, <3>5, <4>4 DEF EndLeft
      <4>6. QED
        BY <3>3, <4>3, <4>5
    <3>6. QED
      BY <1>1, <2>1, <3>4, <3>5
  <2>5. QED
    BY <1>7, <2>2, <2>3, <2>4 DEF Arrives
<1>8. CASE HeapAborts
  BY <1>3, <1>5, <1>8 DEF HeapAborts, GoTo, Ended
<1>9. CASE Terminated
  <2>1. mpc' = mpc /\ handlers' = handlers /\ server_running' = server_running /\ mpc \in Ended
    BY <1>9 DEF Terminated, vars, main
  <2>2. EndLeft' = 0 /\ EndLeft = 0
    BY <2>1 DEF EndLeft
  <2>3. QED
    BY <1>3, <1>6, <2>1, <2>2 DEF Ending
<1>10. (Process => EndLeft' < EndLeft) /\ Ending' /\ EndLeft' <= EndLeft
  BY <1>6, <1>7, <1>8, <1>9 DEF Next
<1> HIDE DEF n, last
<1>11. QED
  BY <1>3, <1>10

\* A process in which main.c's handler runs, or in which run_server's handler
\* cleared the flag, ends after at most eleven steps of its own, however many
\* signals still come.
THEOREM EndingRunsDown == Spec => [][EndRunsDown]_vars
<1>1. Init => StopPlaces
  BY DEF Init, StopPlaces
<1>2. IInv /\ StopPlaces /\ [Next]_vars => [EndRunsDown]_vars
  BY LifecycleStep, EndCountsDown DEF EndRunsDown
<1>3. QED
  BY <1>1, <1>2, StopPlacesKept, LifecycleInvariant, PTL DEF Spec
=============================================================================
