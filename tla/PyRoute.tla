------------------------------ MODULE PyRoute ------------------------------
(***************************************************************************)
(* The repro PyRoute plugin (src/repro/plugins/pyroute/PyRoutePlugin.cxx): *)
(* its life cycle (constructor, init, destructor), its request processor   *)
(* and the worker threads that call the Python routing script.             *)
(*                                                                         *)
(* The Python interpreter lock (GIL) is a single owner: the main thread,  *)
(* a worker, or nobody.  A thread that asks for it while another holds it *)
(* waits; the lock is not recursive, so a thread that asks for it while   *)
(* holding it waits for ever.                                              *)
(*                                                                         *)
(* Collaborators outside this file, modelled by their contract:            *)
(*  - repro's Dispatcher: a FIFO of work items and worker threads; its     *)
(*    destructor stops the workers (a worker finishes the item it holds)   *)
(*    and joins them.                                                      *)
(*  - PyRouteWorker: takes the GIL, calls provide_route, releases the GIL, *)
(*    then posts the work back to the proxy.                               *)
(*  - the proxy: calls process() again with the work as current event.    *)
(***************************************************************************)
EXTENDS Integers, Sequences, FiniteSets

CONSTANTS
    Requests,   \* SIP requests reaching the processor
    Workers,    \* the dispatcher's worker threads (PyRouteNumWorkerThreads)
    Configs,    \* outcomes of the configuration and Python calls of init()
    NoOwner     \* the GIL is free

Methods == {"INVITE", "MESSAGE", "OTHER"}

\* A configuration: proxyConfig given, PyRoutePath and PyRouteScript set,
\* the import succeeds, and whether on_load is absent, succeeds or throws.
Config == [proxyConfig : BOOLEAN, pyPath : BOOLEAN, routeScript : BOOLEAN,
           imported : BOOLEAN, onLoad : {"absent", "ok", "throws"}]

VARIABLES
    phase,        \* constructed | initFailed | running | joining | restoring | destroyed
    python,       \* Py_Initialize called and Py_Finalize not yet
    threadState,  \* mThreadState # 0
    dispatcher,   \* mDispatcher # 0
    gil,          \* holder of the GIL
    fifo,         \* the dispatcher's queue of PyRouteWork
    worker,       \* per worker: idle, waiting for the GIL, or in the script
    events,       \* work posted back to the proxy, not yet processed
    request,      \* per request: new, waiting, routed or continued
    chained       \* the plugin is a processor of the request chain

vars == <<phase, python, threadState, dispatcher, gil, fifo, worker, events,
          request, chained>>

Idle == [state |-> "idle", req |-> NoOwner]

Init ==
    /\ phase = "constructed"
    /\ python = FALSE
    /\ threadState = FALSE
    /\ dispatcher = FALSE
    /\ gil = NoOwner
    /\ fifo = <<>>
    /\ worker = [w \in Workers |-> Idle]
    /\ events = {}
    /\ request = [r \in Requests |-> "new"]
    /\ chained = FALSE

-----------------------------------------------------------------------------
(* init(), lines 52-118.  The checks of lines 56-73 return false before   *)
(* Python is touched.  Py_Initialize and PyEval_InitThreads leave the GIL *)
(* with the calling thread; a failed import (85-89) or a throwing on_load *)
(* (100-105) returns false still holding it.  Only the success path       *)
(* releases it (111) and creates the dispatcher (115).                    *)

Rejected(c) == ~c.proxyConfig \/ ~c.pyPath \/ ~c.routeScript

ScriptFailed(c) == ~c.imported \/ c.onLoad = "throws"

\* Mutant: the success path keeps the GIL (no PyEval_ReleaseThread).
InitPluginKeepsGil(c) ==
    /\ phase = "constructed"
    /\ c \in Configs
    /\ IF Rejected(c)
       THEN /\ phase' = "initFailed"
            /\ UNCHANGED <<python, threadState, dispatcher, gil, chained>>
       ELSE /\ python' = TRUE
            /\ threadState' = TRUE
            /\ gil' = "main"
            /\ phase' = IF ScriptFailed(c) THEN "initFailed" ELSE "running"
            /\ dispatcher' = ~ScriptFailed(c)
    /\ UNCHANGED <<fifo, worker, events, request, chained>>

InitPlugin(c) ==
    /\ phase = "constructed"
    /\ c \in Configs
    /\ IF Rejected(c)
       THEN /\ phase' = "initFailed"
            /\ UNCHANGED <<python, threadState, dispatcher, gil, chained>>
       ELSE /\ python' = TRUE
            /\ threadState' = TRUE
            /\ IF ScriptFailed(c)
               THEN /\ gil' = "main"
                    /\ phase' = "initFailed"
                    /\ UNCHANGED dispatcher
               ELSE /\ gil' = NoOwner
                    /\ dispatcher' = TRUE
                    /\ phase' = "running"
    /\ UNCHANGED <<fifo, worker, events, request, chained>>

\* onRequestProcessorChainPopulated (120-129): the proxy, after a
\* successful init, adds the plugin to the request processor chain.
ChainPopulated ==
    /\ phase = "running"
    /\ ~chained
    /\ chained' = TRUE
    /\ UNCHANGED <<phase, python, threadState, dispatcher, gil, fifo, worker,
                   events, request>>

-----------------------------------------------------------------------------
(* process(), lines 145-174, on the proxy thread.                          *)

\* A new request: INVITE and MESSAGE are posted to the dispatcher and the
\* processor waits for the event (169-173); others continue (164-168).
Process(r, m) ==
    /\ phase = "running"
    /\ chained
    /\ request[r] = "new"
    /\ IF m \in {"INVITE", "MESSAGE"}
       THEN /\ fifo' = Append(fifo, r)
            /\ request' = [request EXCEPT ![r] = "waiting"]
       ELSE /\ request' = [request EXCEPT ![r] = "continued"]
            /\ UNCHANGED fifo
    /\ UNCHANGED <<phase, python, threadState, dispatcher, gil, worker, events, chained>>

\* Mutant: the returned work is not recognised (the dynamic_cast of line
\* 150 fails) and the request is dispatched again.
ProcessWorkRedispatched(r) ==
    /\ phase = "running"
    /\ r \in events
    /\ events' = events \ {r}
    /\ fifo' = Append(fifo, r)
    /\ UNCHANGED <<phase, python, threadState, dispatcher, gil, worker, request, chained>>

\* The work comes back as the current event: its targets are added and
\* the chain continues (150-161).
ProcessWork(r) ==
    /\ phase = "running"
    /\ r \in events
    /\ events' = events \ {r}
    /\ request' = [request EXCEPT ![r] = "routed"]
    /\ UNCHANGED <<phase, python, threadState, dispatcher, gil, fifo, worker, chained>>

-----------------------------------------------------------------------------
(* The dispatcher's workers.  A worker takes work only while the          *)
(* dispatcher accepts it.                                                  *)

TakeWork(w) ==
    /\ phase = "running"
    /\ worker[w].state = "idle"
    /\ fifo # <<>>
    /\ worker' = [worker EXCEPT ![w] = [state |-> "waitGil", req |-> Head(fifo)]]
    /\ fifo' = Tail(fifo)
    /\ UNCHANGED <<phase, python, threadState, dispatcher, gil, events, request, chained>>

AcquireGil(w) ==
    /\ worker[w].state = "waitGil"
    /\ gil = NoOwner
    /\ gil' = w
    /\ worker' = [worker EXCEPT ![w].state = "script"]
    /\ UNCHANGED <<phase, python, threadState, dispatcher, fifo, events, request, chained>>

\* Mutant: the worker goes idle but keeps the finished work item.
ScriptReturnsKeepsWork(w) ==
    /\ worker[w].state = "script"
    /\ gil' = NoOwner
    /\ events' = events \cup {worker[w].req}
    /\ worker' = [worker EXCEPT ![w].state = "idle"]
    /\ UNCHANGED <<phase, python, threadState, dispatcher, fifo, request, chained>>

\* provide_route returns; the GIL is released and the work is posted back.
ScriptReturns(w) ==
    /\ worker[w].state = "script"
    /\ gil' = NoOwner
    /\ events' = events \cup {worker[w].req}
    /\ worker' = [worker EXCEPT ![w] = Idle]
    /\ UNCHANGED <<phase, python, threadState, dispatcher, fifo, request, chained>>

-----------------------------------------------------------------------------
(* The destructor, lines 35-50, run by whoever deletes the plugin.         *)

Destroy ==
    /\ phase \in {"constructed", "initFailed", "running"}
    /\ phase' = CASE dispatcher  -> "joining"
                  [] threadState -> "restoring"
                  [] OTHER       -> "destroyed"
    /\ UNCHANGED <<python, threadState, dispatcher, gil, fifo, worker, events,
                   request, chained>>

\* Mutant: the dispatcher is deleted without joining busy workers.
JoinWorkersNoWait ==
    /\ phase = "joining"
    /\ dispatcher' = FALSE
    /\ fifo' = <<>>
    /\ phase' = IF threadState THEN "restoring" ELSE "destroyed"
    /\ UNCHANGED <<python, threadState, gil, worker, events, request, chained>>

\* delete mDispatcher (37-41): queued work is dropped, busy workers finish.
JoinWorkers ==
    /\ phase = "joining"
    /\ \A w \in Workers : worker[w].state = "idle"
    /\ dispatcher' = FALSE
    /\ fifo' = <<>>
    /\ phase' = IF threadState THEN "restoring" ELSE "destroyed"
    /\ UNCHANGED <<python, threadState, gil, worker, events, request, chained>>

\* PyEval_RestoreThread(mThreadState) then Py_Finalize (42-49).
RestoreAndFinalize ==
    /\ phase = "restoring"
    /\ gil = NoOwner
    /\ gil' = "main"
    /\ python' = FALSE
    /\ phase' = "destroyed"
    /\ UNCHANGED <<threadState, dispatcher, fifo, worker, events, request, chained>>

-----------------------------------------------------------------------------
Next ==
    \/ \E c \in Configs : InitPlugin(c)
    \/ ChainPopulated
    \/ \E r \in Requests, m \in Methods : Process(r, m)
    \/ \E r \in Requests : ProcessWork(r)
    \/ \E w \in Workers : TakeWork(w) \/ AcquireGil(w) \/ ScriptReturns(w)
    \/ Destroy
    \/ JoinWorkers
    \/ RestoreAndFinalize

(* Worker threads, the proxy thread and the destructor's thread are        *)
(* scheduled by the OS: each step that stays enabled is eventually taken.  *)
(* Request arrival, init and the deletion of the plugin are the host's     *)
(* choice and are not fair.                                                *)
Fairness ==
    /\ \A w \in Workers : /\ WF_vars(TakeWork(w))
                          /\ WF_vars(AcquireGil(w))
                          /\ WF_vars(ScriptReturns(w))
    /\ \A r \in Requests : WF_vars(ProcessWork(r))
    /\ WF_vars(JoinWorkers)
    /\ WF_vars(RestoreAndFinalize)

Spec == Init /\ [][Next]_vars /\ Fairness

-----------------------------------------------------------------------------
(* Properties.                                                             *)

\* Every variable holds a value of its type; an idle worker holds no work.
TypeOK ==
    /\ phase \in {"constructed", "initFailed", "running", "joining",
                  "restoring", "destroyed"}
    /\ python \in BOOLEAN /\ threadState \in BOOLEAN /\ dispatcher \in BOOLEAN
    /\ gil \in Workers \cup {"main", NoOwner}
    /\ fifo \in Seq(Requests)
    /\ worker \in [Workers -> {Idle} \cup
                               [state : {"waitGil", "script"}, req : Requests]]
    /\ events \subseteq Requests
    /\ request \in [Requests -> {"new", "waiting", "routed", "continued"}]
    /\ chained \in BOOLEAN

\* Py_Finalize never runs while a worker thread is inside the interpreter
\* or waiting to enter it: the destructor's delete of the dispatcher joins
\* every worker before the interpreter is torn down.
NoWorkerInFinalizedPython ==
    ~python /\ threadState =>
        \A w \in Workers : worker[w].state = "idle"

\* Every INVITE or MESSAGE that process() handed to the dispatcher is
\* eventually routed with the script's targets while the plugin runs:
\* the GIL released at the end of init() lets the workers in, and the
\* returned work is recognised as finished (line 151).
RequestsEventuallyRouted ==
    \A r \in Requests :
        request[r] = "waiting" ~> (request[r] = "routed" \/ phase # "running")

\* Once the plugin is deleted, its destructor completes: the workers are
\* joined and the interpreter is finalized.
DestructorCompletes ==
    phase \in {"joining", "restoring"} ~> phase = "destroyed"
=============================================================================
