----------------------------- MODULE UserAgent -----------------------------
(***************************************************************************)
(* The recon UserAgent control layer (src/resip/recon/UserAgent.cxx).     *)
(*                                                                         *)
(* Application threads call the public API.  Each call that creates an    *)
(* entity first takes a handle from a mutex-protected counter, then       *)
(* posts a heap-allocated command to the DialogUsageManager (DUM) FIFO    *)
(* and returns the handle.  The thread that runs UserAgent::process       *)
(* executes the commands one at a time against the four registries        *)
(* (conversation profiles, registrations, subscriptions, publications)   *)
(* and the default-outgoing profile handle.  DUM callbacks (registration  *)
(* success/removal, subscription termination, connection loss, "can be    *)
(* deleted") run on that same thread, between commands.                   *)
(*                                                                         *)
(* The entity classes (UserAgentRegistration, UserAgentClientSubscription,*)
(* UserAgentClientPublication) and the DUM are not in this repository's   *)
(* sources; their part is modelled from the spec: an entity is in its     *)
(* registry for exactly as long as its dialog set lives, end() moves it   *)
(* to "ending", and the DUM removes an ending entity when its dialog set  *)
(* terminates.                                                             *)
(***************************************************************************)
EXTENDS Integers, Sequences, FiniteSets, FiniteSetsExt, Functions, TLC

CONSTANTS
    Threads,            \* application threads calling the public API
    Flows,              \* transport flow keys a registration can use
    NoFlow,             \* "no server tuple yet" (model value)
    MaxProfiles,        \* bound on getNewConversationProfileHandle
    MaxSubscriptions,   \* bound on getNewSubscriptionHandle
    MaxPublications,    \* bound on getNewPublicationHandle
    MaxCalls            \* bound on the API calls that allocate no handle

ASSUME Threads # {} /\ Flows # {} /\ NoFlow \notin Flows
ASSUME {MaxProfiles, MaxSubscriptions, MaxPublications, MaxCalls} \subseteq Nat

VARIABLES
    nextProfileHandle,      \* mCurrentConversationProfileHandle
    nextSubscriptionHandle, \* mCurrentSubscriptionHandle
    nextPublicationHandle,  \* mCurrentPublicationHandle
    issued,         \* handles returned to the application, per category
    thread,         \* per application thread: its pc and the command it built
    calls,          \* API calls made that allocate no handle (bounded)
    pendingTimers,  \* application timers armed in the SipStack timer queue
    shutdownCalled, \* UserAgent::shutdown has been entered
    cmdQueue,       \* the DUM FIFO of posted commands
    profiles,       \* mConversationProfiles: handle -> "profile" | "null"
    defaultProfile, \* mDefaultOutgoingConversationProfileHandle
    registrations,  \* mRegistrations: handle -> [status, flow]
    subscriptions,  \* mSubscriptions: handle -> status
    publications,   \* mPublications: handle -> status
    deadFlows,      \* flows reported by ConnectionTerminated
    dumState,       \* "running" | "shuttingDown" | "deleted"
    dumShutdown,    \* mDumShutdown
    stackRunning,   \* mStackThread not yet shut down and joined
    crashed         \* the process hit resip_assert or a null dereference

apiVars == <<nextProfileHandle, nextSubscriptionHandle, nextPublicationHandle,
             issued, thread, calls, pendingTimers, shutdownCalled>>
regVars == <<profiles, defaultProfile, registrations, subscriptions, publications>>
dumVars == <<deadFlows, dumState, dumShutdown, stackRunning, crashed>>
vars == <<apiVars, cmdQueue, regVars, dumVars>>

ProfileHandles      == 1 .. MaxProfiles
SubscriptionHandles == 1 .. MaxSubscriptions
PublicationHandles  == 1 .. MaxPublications
Categories == {"profile", "subscription", "publication"}
Status == {"active", "ending"}
RegStatus == {"registering", "registered", "ending"}

CmdKinds == {"AddConversationProfile", "SetDefaultOutgoingConversationProfile",
             "DestroyConversationProfile", "CreateSubscription",
             "DestroySubscription", "CreatePublication", "DestroyPublication",
             "Shutdown", "ApplicationTimer"}

(* A posted command.  heap is FALSE only for a message the DUM was handed *)
(* a pointer to that it does not own.                                      *)
Cmd(k, h) == [kind |-> k, h |-> h, registers |-> FALSE,
              defaultOutgoing |-> FALSE, heap |-> TRUE]
CmdType == [kind : CmdKinds, h : Nat, registers : BOOLEAN,
            defaultOutgoing : BOOLEAN, heap : BOOLEAN]

Put(f, k, v) == (k :> v) @@ f
Remove(f, k) == Restrict(f, DOMAIN f \ {k})

Init ==
    /\ nextProfileHandle = 1
    /\ nextSubscriptionHandle = 1
    /\ nextPublicationHandle = 1
    /\ issued = [c \in Categories |-> {}]
    /\ thread = [t \in Threads |-> [pc |-> "idle", cmd |-> Cmd("Shutdown", 0)]]
    /\ calls = 0
    /\ pendingTimers = 0
    /\ shutdownCalled = FALSE
    /\ cmdQueue = <<>>
    /\ profiles = << >>
    /\ defaultProfile = 0
    /\ registrations = << >>
    /\ subscriptions = << >>
    /\ publications = << >>
    /\ deadFlows = {}
    /\ dumState = "running"
    /\ dumShutdown = FALSE
    /\ stackRunning = TRUE
    /\ crashed = FALSE

-----------------------------------------------------------------------------
(***************************************************************************)
(* Entity behaviour outside this repository's sources (spec-modelled).    *)
(***************************************************************************)

\* end() on an entity: it asks its dialog set to end; idempotent.
EndEntity(s) == "ending"
EndRegistration(r) == [r EXCEPT !.status = "ending"]

\* Mutant: forceRefresh re-sends REGISTER on an ending registration too.
ForceRefreshRevivesEnding(r) == [r EXCEPT !.status = "registering"]

\* UserAgentRegistration::forceRefresh: re-sends REGISTER unless ending.
ForceRefresh(r) ==
    IF r.status = "registered" THEN [r EXCEPT !.status = "registering"] ELSE r

\* A new UserAgentRegistration registers itself in mRegistrations.
NewRegistration == [status |-> "registering", flow |-> NoFlow]

-----------------------------------------------------------------------------
(***************************************************************************)
(* Public API, on application threads.                                    *)
(***************************************************************************)

Idle(t) == ~crashed /\ thread[t].pc = "idle"

\* Allocate a handle under its mutex and build the command (not yet posted).
Allocate(t, cmd) ==
    /\ Idle(t)
    /\ thread' = [thread EXCEPT ![t] = [pc |-> "post", cmd |-> cmd]]

\* Mutant: getNewConversationProfileHandle pre-increments (++counter).
AddConversationProfilePreIncrement(t, registers, defaultOutgoing) ==
    /\ nextProfileHandle <= MaxProfiles
    /\ Allocate(t, [Cmd("AddConversationProfile", nextProfileHandle + 1)
                     EXCEPT !.registers = registers,
                            !.defaultOutgoing = defaultOutgoing])
    /\ nextProfileHandle' = nextProfileHandle + 1
    /\ UNCHANGED <<nextSubscriptionHandle, nextPublicationHandle, issued, calls,
                   pendingTimers, shutdownCalled, cmdQueue, regVars, dumVars>>

\* UserAgent::addConversationProfile, first half.
AddConversationProfile(t, registers, defaultOutgoing) ==
    /\ nextProfileHandle <= MaxProfiles
    /\ Allocate(t, [Cmd("AddConversationProfile", nextProfileHandle)
                     EXCEPT !.registers = registers,
                            !.defaultOutgoing = defaultOutgoing])
    /\ nextProfileHandle' = nextProfileHandle + 1
    /\ UNCHANGED <<nextSubscriptionHandle, nextPublicationHandle, issued, calls,
                   pendingTimers, shutdownCalled, cmdQueue, regVars, dumVars>>

\* Mutant: getNewSubscriptionHandle pre-increments (++counter).
CreateSubscriptionPreIncrement(t) ==
    /\ nextSubscriptionHandle <= MaxSubscriptions
    /\ Allocate(t, Cmd("CreateSubscription", nextSubscriptionHandle + 1))
    /\ nextSubscriptionHandle' = nextSubscriptionHandle + 1
    /\ UNCHANGED <<nextProfileHandle, nextPublicationHandle, issued, calls,
                   pendingTimers, shutdownCalled, cmdQueue, regVars, dumVars>>

\* UserAgent::createSubscription, first half.
CreateSubscription(t) ==
    /\ nextSubscriptionHandle <= MaxSubscriptions
    /\ Allocate(t, Cmd("CreateSubscription", nextSubscriptionHandle))
    /\ nextSubscriptionHandle' = nextSubscriptionHandle + 1
    /\ UNCHANGED <<nextProfileHandle, nextPublicationHandle, issued, calls,
                   pendingTimers, shutdownCalled, cmdQueue, regVars, dumVars>>

\* UserAgent::createPublication, first half.
CreatePublication(t) ==
    /\ nextPublicationHandle <= MaxPublications
    /\ Allocate(t, Cmd("CreatePublication", nextPublicationHandle))
    /\ nextPublicationHandle' = nextPublicationHandle + 1
    /\ UNCHANGED <<nextProfileHandle, nextSubscriptionHandle, issued, calls,
                   pendingTimers, shutdownCalled, cmdQueue, regVars, dumVars>>

CategoryOf(kind) ==
    CASE kind = "AddConversationProfile" -> "profile"
      [] kind = "CreateSubscription"     -> "subscription"
      [] kind = "CreatePublication"      -> "publication"

\* Second half of the three calls above: mDum.post(cmd); return handle.
PostAndReturn(t) ==
    LET c == thread[t].cmd IN
    /\ ~crashed
    /\ thread[t].pc = "post"
    /\ cmdQueue' = Append(cmdQueue, c)
    /\ issued' = [issued EXCEPT ![CategoryOf(c.kind)] = @ \cup {c.h}]
    /\ thread' = [thread EXCEPT ![t].pc = "idle"]
    /\ UNCHANGED <<nextProfileHandle, nextSubscriptionHandle, nextPublicationHandle,
                   calls, pendingTimers, shutdownCalled, regVars, dumVars>>

\* setDefaultOutgoingConversationProfile, destroyConversationProfile,
\* destroySubscription, destroyPublication: build and post a command.
PostCall(t, cmd) ==
    /\ Idle(t)
    /\ calls < MaxCalls
    /\ calls' = calls + 1
    /\ cmdQueue' = Append(cmdQueue, cmd)
    /\ UNCHANGED <<nextProfileHandle, nextSubscriptionHandle, nextPublicationHandle,
                   issued, thread, pendingTimers, shutdownCalled, regVars, dumVars>>

HandleCall(t) ==
    \/ \E h \in issued["profile"] :
          \/ PostCall(t, Cmd("SetDefaultOutgoingConversationProfile", h))
          \/ PostCall(t, Cmd("DestroyConversationProfile", h))
    \/ \E h \in issued["subscription"] : PostCall(t, Cmd("DestroySubscription", h))
    \/ \E h \in issued["publication"] : PostCall(t, Cmd("DestroyPublication", h))

\* UserAgent::startApplicationTimer -> UserAgent::post(message, duration).
\* A positive duration hands a copy to the SipStack timer queue; a zero
\* duration posts the address of the caller's local UserAgentTimeout.
StartApplicationTimer(t, delayed) ==
    /\ Idle(t)
    /\ calls < MaxCalls
    /\ calls' = calls + 1
    /\ IF delayed
         THEN /\ pendingTimers' = pendingTimers + 1
              /\ UNCHANGED cmdQueue
         ELSE /\ cmdQueue' = Append(cmdQueue,
                                    [Cmd("ApplicationTimer", 0) EXCEPT !.heap = FALSE])
              /\ UNCHANGED pendingTimers
    /\ UNCHANGED <<nextProfileHandle, nextSubscriptionHandle, nextPublicationHandle,
                   issued, thread, shutdownCalled, regVars, dumVars>>

\* UserAgent::shutdown: post UserAgentShutdownCmd, then loop on process(100).
Shutdown(t) ==
    /\ Idle(t)
    /\ ~shutdownCalled
    /\ shutdownCalled' = TRUE
    /\ cmdQueue' = Append(cmdQueue, Cmd("Shutdown", 0))
    /\ thread' = [thread EXCEPT ![t].pc = "wait"]
    /\ UNCHANGED <<nextProfileHandle, nextSubscriptionHandle, nextPublicationHandle,
                   issued, calls, pendingTimers, regVars, dumVars>>

\* The loop ends once mDumShutdown is set; the stack thread is stopped and joined.
ShutdownReturn(t) ==
    /\ ~crashed
    /\ thread[t].pc = "wait"
    /\ dumShutdown
    /\ thread' = [thread EXCEPT ![t].pc = "done"]
    /\ stackRunning' = FALSE
    /\ UNCHANGED <<nextProfileHandle, nextSubscriptionHandle, nextPublicationHandle,
                   issued, calls, pendingTimers, shutdownCalled, cmdQueue, regVars,
                   deadFlows, dumState, dumShutdown, crashed>>

\* The SipStack timer expires and posts its copy of the UserAgentTimeout.
TimerFires ==
    /\ ~crashed
    /\ stackRunning
    /\ pendingTimers > 0
    /\ pendingTimers' = pendingTimers - 1
    /\ cmdQueue' = Append(cmdQueue, Cmd("ApplicationTimer", 0))
    /\ UNCHANGED <<nextProfileHandle, nextSubscriptionHandle, nextPublicationHandle,
                   issued, thread, calls, shutdownCalled, regVars, dumVars>>

-----------------------------------------------------------------------------
(***************************************************************************)
(* Command handlers, run by the thread that drives UserAgent::process.    *)
(* Each sets the registry variables and dumState/crashed.                 *)
(***************************************************************************)

\* UserAgent::getDefaultOutgoingConversationProfile.  With handle 0 it
\* asserts and returns nullptr; otherwise mConversationProfiles[handle]
\* default-constructs a null entry when the handle is not in the map.
DefaultOutgoingProfile ==
    IF defaultProfile # 0 /\ defaultProfile \in DOMAIN profiles
      THEN profiles[defaultProfile] ELSE "null"
ProfilesAfterDefaultLookup ==
    IF defaultProfile # 0 /\ defaultProfile \notin DOMAIN profiles
      THEN Put(profiles, defaultProfile, "null") ELSE profiles

SetDefaultOutgoingConversationProfileImpl(h) ==
    /\ defaultProfile' = h
    /\ UNCHANGED <<profiles, registrations, subscriptions, publications, dumState, crashed>>

AddConversationProfileImpl(h, registers, defaultOutgoing) ==
    /\ profiles' = Put(profiles, h, "profile")
    /\ defaultProfile' = IF defaultOutgoing \/ defaultProfile = 0 THEN h ELSE defaultProfile
    /\ registrations' = IF registers THEN Put(registrations, h, NewRegistration)
                                      ELSE registrations
    /\ UNCHANGED <<subscriptions, publications, dumState, crashed>>

\* Mutant: the matching registration is not ended.
DestroyConversationProfileImplKeepsRegistration(h) ==
    LET left == DOMAIN profiles \ {h} IN
    /\ profiles' = Remove(profiles, h)
    /\ defaultProfile' = IF h = defaultProfile
                           THEN IF left # {} THEN Min(left) ELSE 0
                           ELSE defaultProfile
    /\ UNCHANGED <<registrations, subscriptions, publications, dumState, crashed>>

\* The new default is the first (smallest) handle left in the map, else 0.
DestroyConversationProfileImpl(h) ==
    LET left == DOMAIN profiles \ {h} IN
    /\ registrations' = IF h \in DOMAIN registrations
                          THEN [registrations EXCEPT ![h] = EndRegistration(@)]
                          ELSE registrations
    /\ profiles' = Remove(profiles, h)
    /\ defaultProfile' = IF h = defaultProfile
                           THEN IF left # {} THEN Min(left) ELSE 0
                           ELSE defaultProfile
    /\ UNCHANGED <<subscriptions, publications, dumState, crashed>>

\* The new UserAgentClientSubscription registers itself, then makeSubscription
\* dereferences the default outgoing profile.
CreateSubscriptionImpl(h) ==
    /\ subscriptions' = Put(subscriptions, h, "active")
    /\ profiles' = ProfilesAfterDefaultLookup
    /\ crashed' = (DefaultOutgoingProfile = "null")
    /\ UNCHANGED <<defaultProfile, registrations, publications, dumState>>

\* Mutant: the handle is looked up in mPublications (copy-paste slip).
DestroySubscriptionImplInPublications(h) ==
    /\ publications' = IF h \in DOMAIN publications
                         THEN [publications EXCEPT ![h] = EndEntity(@)]
                         ELSE publications
    /\ UNCHANGED <<profiles, defaultProfile, registrations, subscriptions,
                   dumState, crashed>>

DestroySubscriptionImpl(h) ==
    /\ subscriptions' = IF h \in DOMAIN subscriptions
                          THEN [subscriptions EXCEPT ![h] = EndEntity(@)]
                          ELSE subscriptions
    /\ UNCHANGED <<profiles, defaultProfile, registrations, publications,
                   dumState, crashed>>

CreatePublicationImpl(h) ==
    /\ publications' = Put(publications, h, "active")
    /\ profiles' = ProfilesAfterDefaultLookup
    /\ crashed' = (DefaultOutgoingProfile = "null")
    /\ UNCHANGED <<defaultProfile, registrations, subscriptions, dumState>>

DestroyPublicationImpl(h) ==
    /\ publications' = IF h \in DOMAIN publications
                         THEN [publications EXCEPT ![h] = EndEntity(@)]
                         ELSE publications
    /\ UNCHANGED <<profiles, defaultProfile, registrations, subscriptions,
                   dumState, crashed>>

\* mDum.shutdown(this), then end() on a copy of mSubscriptions and of
\* mRegistrations.
ShutdownImpl ==
    /\ dumState' = "shuttingDown"
    /\ subscriptions' = [h \in DOMAIN subscriptions |-> EndEntity(subscriptions[h])]
    /\ registrations' = [h \in DOMAIN registrations |-> EndRegistration(registrations[h])]
    /\ UNCHANGED <<profiles, defaultProfile, publications, crashed>>

\* UserAgentTimeout::executeCommand -> onApplicationTimer (a no-op hook).
ApplicationTimerImpl ==
    UNCHANGED <<profiles, defaultProfile, registrations, subscriptions,
                publications, dumState, crashed>>

Dispatch(c) ==
    CASE c.kind = "AddConversationProfile" ->
              AddConversationProfileImpl(c.h, c.registers, c.defaultOutgoing)
      [] c.kind = "SetDefaultOutgoingConversationProfile" ->
              SetDefaultOutgoingConversationProfileImpl(c.h)
      [] c.kind = "DestroyConversationProfile" -> DestroyConversationProfileImpl(c.h)
      [] c.kind = "CreateSubscription"  -> CreateSubscriptionImpl(c.h)
      [] c.kind = "DestroySubscription" -> DestroySubscriptionImpl(c.h)
      [] c.kind = "CreatePublication"   -> CreatePublicationImpl(c.h)
      [] c.kind = "DestroyPublication"  -> DestroyPublicationImpl(c.h)
      [] c.kind = "Shutdown"            -> ShutdownImpl
      [] c.kind = "ApplicationTimer"    -> ApplicationTimerImpl

\* Mutant: the FIFO hands out the newest command first.
ExecuteNewestFirst ==
    /\ ~crashed
    /\ ~dumShutdown
    /\ cmdQueue # <<>>
    /\ cmdQueue' = SubSeq(cmdQueue, 1, Len(cmdQueue) - 1)
    /\ Dispatch(cmdQueue[Len(cmdQueue)])
    /\ UNCHANGED <<apiVars, deadFlows, dumShutdown, stackRunning>>

\* DUM takes the oldest posted command and executes it.
Execute ==
    /\ ~crashed
    /\ ~dumShutdown
    /\ cmdQueue # <<>>
    /\ cmdQueue' = Tail(cmdQueue)
    /\ Dispatch(Head(cmdQueue))
    /\ UNCHANGED <<apiVars, deadFlows, dumShutdown, stackRunning>>

-----------------------------------------------------------------------------
(***************************************************************************)
(* DUM and transport callbacks, on the same thread.                       *)
(***************************************************************************)

DumEvent == ~crashed /\ ~dumShutdown /\ UNCHANGED <<apiVars, cmdQueue, dumShutdown, stackRunning, crashed>>

\* ClientRegistrationHandler::onSuccess: REGISTER answered over flow f.
RegistrationSuccess(h, f) ==
    /\ DumEvent
    /\ registrations[h].status = "registering"
    /\ registrations' = [registrations EXCEPT ![h] = [status |-> "registered", flow |-> f]]
    /\ UNCHANGED <<profiles, defaultProfile, subscriptions, publications,
                   deadFlows, dumState>>

\* onFailure without retry: the dialog set ends and the entity unregisters.
RegistrationFailure(h) ==
    /\ DumEvent
    /\ registrations[h].status = "registering"
    /\ registrations' = Remove(registrations, h)
    /\ UNCHANGED <<profiles, defaultProfile, subscriptions, publications,
                   deadFlows, dumState>>

\* onRemoved after end(): the dialog set ends and the entity unregisters.
RegistrationRemoved(h) ==
    /\ DumEvent
    /\ registrations[h].status = "ending"
    /\ registrations' = Remove(registrations, h)
    /\ UNCHANGED <<profiles, defaultProfile, subscriptions, publications,
                   deadFlows, dumState>>

\* Mutant: the scan stops after the first matching registration.
ConnectionTerminatedFirstOnly(f) ==
    LET matching == {h \in DOMAIN registrations : registrations[h].flow = f} IN
    /\ DumEvent
    /\ deadFlows' = deadFlows \cup {f}
    /\ registrations' = IF matching = {} THEN registrations
                        ELSE [registrations EXCEPT ![Min(matching)] = ForceRefresh(@)]
    /\ UNCHANGED <<profiles, defaultProfile, subscriptions, publications, dumState>>

\* UserAgent::post(Message*) with a ConnectionTerminated for flow f.
ConnectionTerminated(f) ==
    /\ DumEvent
    /\ deadFlows' = deadFlows \cup {f}
    /\ registrations' = [h \in DOMAIN registrations |->
                           IF registrations[h].flow = f
                             THEN ForceRefresh(registrations[h])
                             ELSE registrations[h]]
    /\ UNCHANGED <<profiles, defaultProfile, subscriptions, publications, dumState>>

\* onTerminated: after end() (Ended) or initiated by the notifier (Terminated).
SubscriptionEnded(h) ==
    /\ DumEvent
    /\ subscriptions[h] = "ending"
    /\ subscriptions' = Remove(subscriptions, h)
    /\ UNCHANGED <<profiles, defaultProfile, registrations, publications,
                   deadFlows, dumState>>
SubscriptionTerminated(h) ==
    /\ DumEvent
    /\ subscriptions[h] = "active"
    /\ subscriptions' = Remove(subscriptions, h)
    /\ UNCHANGED <<profiles, defaultProfile, registrations, publications,
                   deadFlows, dumState>>

\* onRemove after end(), or onFailure of an active publication.
PublicationRemoved(h) ==
    /\ DumEvent
    /\ publications[h] = "ending"
    /\ publications' = Remove(publications, h)
    /\ UNCHANGED <<profiles, defaultProfile, registrations, subscriptions,
                   deadFlows, dumState>>
PublicationFailure(h) ==
    /\ DumEvent
    /\ publications[h] = "active"
    /\ publications' = Remove(publications, h)
    /\ UNCHANGED <<profiles, defaultProfile, registrations, subscriptions,
                   deadFlows, dumState>>

(* An incoming request asks getIncomingConversationProfile (376-433) for  *)
(* its profile.  The request is abstracted to the registrations with a   *)
(* contact it matches (C) and the profiles whose default-from AOR its To *)
(* AOR matches (A).  The contact loop returns the first C handle still in *)
(* mConversationProfiles, a null entry included; the To loop dereferences *)
(* every entry up to its first match and crashes on a null one; the       *)
(* fallback is getDefaultOutgoingConversationProfile, whose operator[]    *)
(* inserts a null entry for a stale default.  Callers route a request     *)
(* only once a profile exists (spec, open questions).                     *)
\* Only the first matching contact and AOR decide the outcome, so a request
\* is taken to match at most one of each.
AtMostOne(S) == {{}} \cup {{h} : h \in S}

IncomingRequest(C, A) ==
    LET byContact  == C \cap DOMAIN profiles
        aorReached == IF A = {} THEN DOMAIN profiles
                      ELSE {h \in DOMAIN profiles : h <= Min(A)}
    IN
    /\ ~crashed
    /\ ~dumShutdown
    /\ DOMAIN profiles # {}
    /\ IF byContact # {} THEN UNCHANGED <<profiles, crashed>>
       ELSE IF \E h \in aorReached : profiles[h] = "null"
            THEN crashed' = TRUE /\ UNCHANGED profiles
       ELSE IF A # {} THEN UNCHANGED <<profiles, crashed>>
       ELSE /\ profiles' = ProfilesAfterDefaultLookup
            /\ crashed' = (defaultProfile = 0)
    /\ UNCHANGED <<apiVars, cmdQueue, defaultProfile, registrations, subscriptions,
                   publications, deadFlows, dumState, dumShutdown, stackRunning>>

\* The DUM has no dialog set left: UserAgent::onDumCanBeDeleted.
DumCanBeDeleted ==
    /\ ~crashed
    /\ ~dumShutdown
    /\ dumState = "shuttingDown"
    /\ registrations = << >> /\ subscriptions = << >> /\ publications = << >>
    /\ dumState' = "deleted"
    /\ dumShutdown' = TRUE
    /\ UNCHANGED <<apiVars, cmdQueue, regVars, deadFlows, stackRunning, crashed>>

-----------------------------------------------------------------------------

Next ==
    \/ \E t \in Threads :
          \/ \E r, d \in BOOLEAN : AddConversationProfile(t, r, d)
          \/ CreateSubscription(t)
          \/ CreatePublication(t)
          \/ PostAndReturn(t)
          \/ HandleCall(t)
          \/ \E d \in BOOLEAN : StartApplicationTimer(t, d)
          \/ Shutdown(t)
          \/ ShutdownReturn(t)
    \/ TimerFires
    \/ Execute
    \/ \E h \in DOMAIN registrations :
          \/ \E f \in Flows \ deadFlows : RegistrationSuccess(h, f)
          \/ RegistrationFailure(h)
          \/ RegistrationRemoved(h)
    \/ \E f \in Flows \ deadFlows : ConnectionTerminated(f)
    \/ \E h \in DOMAIN subscriptions : SubscriptionEnded(h) \/ SubscriptionTerminated(h)
    \/ \E h \in DOMAIN publications : PublicationRemoved(h) \/ PublicationFailure(h)
    \/ \E C \in AtMostOne(DOMAIN registrations),
         A \in AtMostOne({h \in DOMAIN profiles : profiles[h] = "profile"}) :
          IncomingRequest(C, A)
    \/ DumCanBeDeleted

(* The thread running process() drains the FIFO, the DUM eventually      *)
(* completes every end() (a transaction always answers or times out),    *)
(* the stack timer fires, and the shutdown loop polls mDumShutdown.       *)
(* Application calls and remote terminations are not assumed to happen.  *)
Fairness ==
    /\ WF_vars(Execute)
    /\ WF_vars(TimerFires)
    /\ WF_vars(DumCanBeDeleted)
    /\ \A h \in ProfileHandles :
          WF_vars(h \in DOMAIN registrations /\ RegistrationRemoved(h))
    /\ \A h \in SubscriptionHandles :
          WF_vars(h \in DOMAIN subscriptions /\ SubscriptionEnded(h))
    /\ \A h \in PublicationHandles :
          WF_vars(h \in DOMAIN publications /\ PublicationRemoved(h))
    /\ \A t \in Threads : WF_vars(ShutdownReturn(t))

Spec == Init /\ [][Next]_vars /\ Fairness

\* The same behaviours without fairness, for the runs that check only safety.
SafetySpec == Init /\ [][Next]_vars

-----------------------------------------------------------------------------
(***************************************************************************)
(* Properties.                                                             *)
(***************************************************************************)

TypeOK ==
    /\ nextProfileHandle \in 1 .. MaxProfiles + 1
    /\ nextSubscriptionHandle \in 1 .. MaxSubscriptions + 1
    /\ nextPublicationHandle \in 1 .. MaxPublications + 1
    /\ issued \in [Categories -> SUBSET Nat]
    /\ thread \in [Threads -> [pc : {"idle", "post", "wait", "done"}, cmd : CmdType]]
    /\ calls \in 0 .. MaxCalls
    /\ pendingTimers \in 0 .. MaxCalls
    /\ shutdownCalled \in BOOLEAN
    /\ cmdQueue \in Seq(CmdType)
    /\ DOMAIN profiles \subseteq ProfileHandles
    /\ \A h \in DOMAIN profiles : profiles[h] \in {"profile", "null"}
    /\ defaultProfile \in {0} \cup ProfileHandles
    /\ DOMAIN registrations \subseteq ProfileHandles
    /\ \A h \in DOMAIN registrations :
          registrations[h] \in [status : RegStatus, flow : Flows \cup {NoFlow}]
    /\ DOMAIN subscriptions \subseteq SubscriptionHandles
    /\ \A h \in DOMAIN subscriptions : subscriptions[h] \in Status
    /\ DOMAIN publications \subseteq PublicationHandles
    /\ \A h \in DOMAIN publications : publications[h] \in Status
    /\ deadFlows \subseteq Flows
    /\ dumState \in {"running", "shuttingDown", "deleted"}
    /\ {dumShutdown, stackRunning, crashed} \subseteq BOOLEAN

(***************************************************************************)
(* Refinement of HandleLifecycle, once per category.  The stage of a      *)
(* handle is read off the detailed state: at or above the counter it is   *)
(* free; in its registry it is live (a profile entry, an active           *)
(* subscription or publication) or ending; below the counter and out of   *)
(* the registry it is allocated while its create command is built or      *)
(* queued, and gone otherwise.  A null entry that operator[] inserted is  *)
(* no profile.                                                             *)
(***************************************************************************)
Pending(kind, h) ==
    \/ \E t \in Threads : thread[t].pc = "post" /\ thread[t].cmd.kind = kind
                                              /\ thread[t].cmd.h = h
    \/ \E i \in DOMAIN cmdQueue : cmdQueue[i].kind = kind /\ cmdQueue[i].h = h

Stage(h, next, kind, inRegistry, registryStage) ==
    CASE inRegistry    -> registryStage
      [] h >= next     -> "free"
      [] Pending(kind, h) -> "allocated"
      [] OTHER         -> "gone"

ProfileLife ==
    [h \in ProfileHandles |->
        Stage(h, nextProfileHandle, "AddConversationProfile",
              h \in DOMAIN profiles /\ profiles[h] = "profile", "live")]
SubscriptionLife ==
    [h \in SubscriptionHandles |->
        Stage(h, nextSubscriptionHandle, "CreateSubscription",
              h \in DOMAIN subscriptions,
              IF h \in DOMAIN subscriptions /\ subscriptions[h] = "ending"
                THEN "ending" ELSE "live")]
PublicationLife ==
    [h \in PublicationHandles |->
        Stage(h, nextPublicationHandle, "CreatePublication",
              h \in DOMAIN publications,
              IF h \in DOMAIN publications /\ publications[h] = "ending"
                THEN "ending" ELSE "live")]

ProfileLifecycle == INSTANCE HandleLifecycle
    WITH Handles <- ProfileHandles, life <- ProfileLife
SubscriptionLifecycle == INSTANCE HandleLifecycle
    WITH Handles <- SubscriptionHandles, life <- SubscriptionLife
PublicationLifecycle == INSTANCE HandleLifecycle
    WITH Handles <- PublicationHandles, life <- PublicationLife

(* Handles of each category follow the abstract life cycle: the counters  *)
(* hand them out lowest first and never twice, an entity is created only  *)
(* by the command that carries its handle, after that command was built,  *)
(* and a destroyed or removed entity never returns to its registry, under *)
(* every interleaving of callers, the FIFO and the DUM's callbacks.        *)
ProfileHandlesRefined == ProfileLifecycle!Spec
EntityHandlesRefined == SubscriptionLifecycle!Spec /\ PublicationLifecycle!Spec

(* Spec 3 ("exactly one profile is designated default outgoing; unset    *)
(* only if no profiles exist") together with the ordering of spec 4.2.    *)
(* The default is never a profile whose AddConversationProfile command is *)
(* still being built or queued: addConversationProfile posts the command  *)
(* before it returns the handle (line 293), and the FIFO runs a setDefault *)
(* that any thread posts with that handle after the add.  Two threads'    *)
(* adds may run in the opposite order to their handles, and destroying the *)
(* default must move it to a remaining profile (line 650).                *)
DefaultNamesAddedProfile ==
    /\ DOMAIN profiles # {} => defaultProfile # 0
    /\ defaultProfile # 0 => ~Pending("AddConversationProfile", defaultProfile)

(* destroyConversationProfile removes the profile but its registration     *)
(* stays in mRegistrations until the DUM reports it removed: such an       *)
(* orphaned registration must already have been told to end(), otherwise   *)
(* it keeps refreshing a binding for a profile that no longer exists.      *)
OrphanRegistrationEnding ==
    \A h \in DOMAIN registrations :
        h \notin DOMAIN profiles => registrations[h].status = "ending"

(* The ConnectionTerminated handler forces a refresh of every registration *)
(* whose last server flow is the lost one, so no registration is left      *)
(* believing it is registered over a dead connection.                      *)
NoRegistrationOnDeadFlow ==
    \A h \in DOMAIN registrations :
        registrations[h].status = "registered" => registrations[h].flow \notin deadFlows

(* No command handler hits resip_assert or dereferences a null profile:    *)
(* createSubscription/createPublication go through                         *)
(* getDefaultOutgoingConversationProfile.                                  *)
NoCrash == ~crashed

(* Every message in the DUM FIFO is owned by it (the DUM deletes each      *)
(* message after executing it), as the heap-allocated commands are.        *)
PostedMessagesOwned ==
    \A i \in DOMAIN cmdQueue : cmdQueue[i].heap

(* destroySubscription / destroyPublication: once a live subscription or *)
(* publication has a destroy command pending, it eventually leaves its    *)
(* registry, whatever the DUM reports in between (a remote termination    *)
(* may remove it first; the destroy then finds nothing and does nothing).  *)
DestroyedEntitiesRemoved ==
    /\ \A h \in SubscriptionHandles :
          (/\ h \in DOMAIN subscriptions
           /\ \E i \in DOMAIN cmdQueue : cmdQueue[i] = Cmd("DestroySubscription", h))
          ~> (h \notin DOMAIN subscriptions \/ crashed)
    /\ \A h \in PublicationHandles :
          (/\ h \in DOMAIN publications
           /\ \E i \in DOMAIN cmdQueue : cmdQueue[i] = Cmd("DestroyPublication", h))
          ~> (h \notin DOMAIN publications \/ crashed)

(* destroyConversationProfile ends the profile's registration (line 643):  *)
(* a registration whose profile is gone eventually leaves mRegistrations, *)
(* even when its flow is lost in between and the connection-loss handler  *)
(* (line 475) calls forceRefresh on it.                                   *)
DestroyedProfileUnregisters ==
    \A h \in ProfileHandles :
        (h \in DOMAIN registrations /\ h \notin DOMAIN profiles)
        ~> (h \notin DOMAIN registrations \/ crashed)

(* Spec 8: "Shutdown sequence always reaches Terminated": once shutdown()  *)
(* is called, the DUM eventually reports it can be deleted.               *)
ShutdownCompletes ==
    shutdownCalled ~> (dumShutdown \/ crashed)
=============================================================================
