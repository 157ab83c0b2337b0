------------------------------ MODULE BlockApp ------------------------------
(***************************************************************************)
(* wfp.BlockApp: the traffic block of one executable, from the layout      *)
(* checks to the deferred clean-up, in several processes of the tool at    *)
(* once (a -once run beside the monitor) and with a crash at any step.     *)
(* The Base Filtering Engine is external: it keeps the filters of each     *)
(* session and drops those of a dynamic one when its handle goes away.     *)
(***************************************************************************)
EXTENDS Naturals, Sequences

CONSTANTS
  Tool  \* processes of the tool; one started after a crash is another one

VARIABLES
  pc,       \* where BlockApp is in each process
  blob,     \* the application id is allocated
  engine,   \* the engine handle is open
  filters   \* what the Base Filtering Engine enforces for the session

vars == <<pc, blob, engine, filters>>

Layers == <<"ALE_AUTH_CONNECT_V4", "ALE_AUTH_CONNECT_V6",
            "ALE_AUTH_RECV_ACCEPT_V4", "ALE_AUTH_RECV_ACCEPT_V6">>
AllLayers == {Layers[i] : i \in 1 .. 4}

Pc == {"idle", "appId", "open", "add", "window", "close", "free", "returned",
       "dead"}

Init ==
  /\ pc = [t \in Tool |-> "idle"]
  /\ blob = [t \in Tool |-> FALSE] /\ engine = [t \in Tool |-> FALSE]
  /\ filters = [t \in Tool |-> {}]

Goto(t, from, to) == pc[t] = from /\ pc' = [pc EXCEPT ![t] = to]

-----------------------------------------------------------------------------
(* BlockApp, statement by statement.                                        *)

\* A call: the layout checks, the path conversion and the load of the DLL,
\* any of which returns an error with nothing acquired.
Call(t) ==
  /\ \/ Goto(t, "idle", "appId") \/ Goto(t, "idle", "returned")
     \/ Goto(t, "returned", "appId")
  /\ UNCHANGED <<blob, engine, filters>>

AppIDFromPath(t) ==
  /\ \/ Goto(t, "appId", "open") /\ blob' = [blob EXCEPT ![t] = TRUE]
     \/ Goto(t, "appId", "returned") /\ UNCHANGED blob
  /\ UNCHANGED <<engine, filters>>

OpenDynamicEngine(t) ==
  /\ \/ Goto(t, "open", "add") /\ engine' = [engine EXCEPT ![t] = TRUE]
     \/ Goto(t, "open", "free") /\ UNCHANGED engine
  /\ UNCHANGED <<blob, filters>>

Missing(t) == {i \in 1 .. 4 : Layers[i] \notin filters[t]}

\* Fault: a layer that cannot be filtered is passed over.
AddFilterBestEffort(t) ==
  /\ \E i \in Missing(t) :
       /\ \A j \in Missing(t) : i <= j
       /\ Goto(t, "add", IF i = 4 THEN "window" ELSE "add")
       /\ filters' \in {filters, [filters EXCEPT ![t] = @ \cup {Layers[i]}]}
  /\ UNCHANGED <<blob, engine>>

\* The loop of addBlockFilters: the first layer not yet filtered, or its error.
AddFilter(t) ==
  /\ \E i \in Missing(t) :
       /\ \A j \in Missing(t) : i <= j
       /\ \/ /\ Goto(t, "add", IF i = 4 THEN "window" ELSE "add")
             /\ filters' = [filters EXCEPT ![t] = @ \cup {Layers[i]}]
          \/ Goto(t, "add", "close") /\ UNCHANGED filters
  /\ UNCHANGED <<blob, engine>>

\* The select that waits out the window: <-timer.C is picked.
TimerEnds(t) ==
  /\ Goto(t, "window", "close")
  /\ UNCHANGED <<blob, engine, filters>>

\* Fault: the window is a sleep that does not listen to ctx.
CtxEndsUnheard(t) == FALSE

\* The same select: <-ctx.Done() is picked, and ctx.Err() returned.
CtxEnds(t) ==
  /\ Goto(t, "window", "close")
  /\ UNCHANGED <<blob, engine, filters>>

\* Fault: the session is not dynamic.
SessionFlagsNone == {}

SessionFlags == {"dynamic"}
Drop(t) ==
  filters' = IF "dynamic" \in SessionFlags THEN [filters EXCEPT ![t] = {}]
                                           ELSE filters

\* Fault: the engine handle is not closed.
CloseEngineForgotten(t) ==
  /\ Goto(t, "close", "free")
  /\ UNCHANGED <<blob, engine, filters>>

\* The deferred FwpmEngineClose0.  BlockApp ignores its result; the model takes
\* it that the close of a handle that has been opened succeeds.
CloseEngine(t) ==
  /\ Goto(t, "close", "free")
  /\ engine' = [engine EXCEPT ![t] = FALSE]
  /\ Drop(t)
  /\ UNCHANGED blob

FreeBlob(t) ==
  /\ Goto(t, "free", "returned")
  /\ blob' = [blob EXCEPT ![t] = FALSE]
  /\ UNCHANGED <<engine, filters>>

\* What a call does without its timer; done says whether its ctx is done.
Proceeds(t, done) ==
  \/ AppIDFromPath(t) \/ OpenDynamicEngine(t) \/ AddFilter(t)
  \/ done /\ CtxEnds(t)
  \/ CloseEngine(t) \/ FreeBlob(t)

Step(t, done) == Proceeds(t, done) \/ TimerEnds(t)

-----------------------------------------------------------------------------
(* The process and the engine.                                              *)

\* The process dies, or app.Run returns elsewhere: Windows closes its handles
\* and frees its memory.
Crash(t) ==
  /\ pc[t] # "dead"
  /\ pc' = [pc EXCEPT ![t] = "dead"]
  /\ blob' = [blob EXCEPT ![t] = FALSE] /\ engine' = [engine EXCEPT ![t] = FALSE]
  /\ UNCHANGED filters

\* The Base Filtering Engine notices that a session has lost its process.
Rundown(t) ==
  /\ pc[t] = "dead" /\ filters[t] # {}
  /\ Drop(t)
  /\ UNCHANGED <<pc, blob, engine>>

\* The ctx of a call may be done at any moment.
Next ==
  \E t \in Tool : \/ Call(t) \/ Crash(t) \/ Rundown(t)
                 \/ \E done \in BOOLEAN : Step(t, done)

Spec == Init /\ [][Next]_vars

\* Calls return and timers fire, with a ctx that need never be done; the engine
\* runs down dead sessions.
FairSpec ==
  Spec /\ \A t \in Tool : /\ WF_vars(Proceeds(t, FALSE)) /\ WF_vars(TimerEnds(t))
                         /\ WF_vars(Rundown(t))

-----------------------------------------------------------------------------
(* Properties.                                                              *)

\* Every variable keeps its type, and a live process holds things in the order
\* it acquires them: no filters without a session, no session without the
\* application id its filters point to.
TypeOK ==
  /\ pc \in [Tool -> Pc]
  /\ blob \in [Tool -> BOOLEAN] /\ engine \in [Tool -> BOOLEAN]
  /\ filters \in [Tool -> SUBSET AllLayers]
  /\ \A t \in Tool : pc[t] # "dead" =>
       (filters[t] # {} => engine[t]) /\ (engine[t] => blob[t])

\* During its window BlockApp blocks IPv4 and IPv6, outbound and inbound: no
\* run counts a window in which one of the four filters is missing.
WindowIsComplete == \A t \in Tool : pc[t] = "window" => filters[t] = AllLayers

\* On every path out of BlockApp, the error paths included, the filters are
\* gone, the engine handle is closed and the application id is freed, as far as
\* FwpmEngineClose0 does what it is asked.
NothingLeft ==
  \A t \in Tool : pc[t] \in {"idle", "returned"} =>
    filters[t] = {} /\ ~engine[t] /\ ~blob[t]

\* A block ends, whatever step fails and wherever the process dies, provided the
\* wait of no window is endless: its timer fires, or ctx or the process ends it.
BlockEnds ==
  \A t \in Tool :
    []<>(pc[t] # "window") => (filters[t] # {} ~> filters[t] = {})
=============================================================================
