----------------------------- MODULE KioskAgent ------------------------------
(***************************************************************************)
(* The process at the fingerprint reader: `kiosk_agent.py listen`, and,    *)
(* without the queue of remote requests (MaxRequests = 0), the management  *)
(* command start_listener.                                                 *)
(*                                                                         *)
(* Its threads are the main thread, which polls the queue and, for a       *)
(* request, stops the listener, takes three samples of a finger, posts     *)
(* them and starts the listener again, and the listener's loop, a new      *)
(* thread at every start.  They share one BiometricService, hence one SDK  *)
(* handle, and the fields of one BiometricListener.  A SIGINT runs the     *)
(* handler of run_until_shutdown in the main thread, between any two of    *)
(* its steps.                                                              *)
(*                                                                         *)
(* A press of a finger is a number; a template is the press it was read    *)
(* from.  0 stands for no finger, no template and no thread.               *)
(***************************************************************************)
EXTENDS Naturals, Sequences, FiniteSets

CONSTANTS
    Samples,          \* how many samples are merged into a template
    MayShutDown,      \* whether a SIGINT may arrive
    MaxRequests,      \* bound: how often the queue has a request
    MaxPresses,       \* bound: how often a finger is put on the reader
    MaxUnplugs,       \* bound: how often the reader is unplugged
    MaxJoinTimeouts   \* bound: how often a thread outlives join()

ASSUME AgentAssumption ==
    /\ {MaxRequests, MaxPresses, MaxUnplugs, MaxJoinTimeouts} \subseteq Nat
    /\ Samples \in Nat \ {0}
    /\ MayShutDown \in BOOLEAN

VARIABLES
    plugged, finger,   \* the reader: at the USB port, and the press on it
    presses, unplugs,  \* counters
    handle,            \* PyzkfpBackend._zk: "none", "open", or "dead", which
                       \* is open since before the reader was unplugged
    thread, stop, armed, callback,  \* the fields of BiometricListener
    loops,             \* the listener threads ever started
    abandoned,         \* those that did not end within join()'s timeout
    events,            \* the calls of on_template
    mpc, samples,      \* the main thread and what it has captured
    overheld,          \* a wait for the release of the finger timed out
    spc, caught        \* the signal handler, and where it met the main thread

hardware == <<plugged, finger, presses, unplugs>>
listener == <<thread, stop, armed, callback>>
capture == <<samples, overheld>>
signal == <<spc, caught>>
vars == <<hardware, handle, listener, loops, abandoned, events, mpc, capture, signal>>

-----------------------------------------------------------------------------
MainPlaces ==
    {"start", "tick", "stop", "join", "connect", "capture", "release", "post",
     "resume", "exited"}

\* Where the main thread has the reader for itself.
Paused == {"connect", "capture", "release", "post", "resume"}

LoopPlaces == {"begin", "check", "connect", "capture", "debounce", "callback", "done"}

\* seen: the template capture_template() returned last.
Loop == [pc : LoopPlaces, seen : Nat]

Event == [loop : Nat, press : Nat]

Living == {g \in DOMAIN loops : loops[g].pc # "done"}

\* is_connected only looks at whether there is a handle.
IsConnected == handle # "none"

\* AcquireFingerprint() works on a handle opened since the reader was plugged
\* in; otherwise it raises, and so may it at any time.
Readable == plugged /\ handle = "open"

-----------------------------------------------------------------------------
(* The reader.                                                             *)

Touch ==
    /\ finger = 0
    /\ presses < MaxPresses
    /\ finger' = presses + 1
    /\ presses' = presses + 1
    /\ UNCHANGED <<plugged, unplugs, handle>>

Lift ==
    /\ finger # 0
    /\ finger' = 0
    /\ UNCHANGED <<plugged, presses, unplugs, handle>>

Unplug ==
    /\ plugged
    /\ unplugs < MaxUnplugs
    /\ plugged' = FALSE
    /\ unplugs' = unplugs + 1
    /\ handle' = IF IsConnected THEN "dead" ELSE "none"
    /\ UNCHANGED <<finger, presses>>

Plug ==
    /\ ~plugged
    /\ plugged' = TRUE
    /\ UNCHANGED <<finger, presses, unplugs, handle>>

Reader ==
    /\ Touch \/ Lift \/ Unplug \/ Plug
    /\ UNCHANGED <<listener, loops, abandoned, events, mpc, capture, signal>>

-----------------------------------------------------------------------------
(* BiometricListener._listener_loop, in the thread of the g-th start.      *)

GoTo(g, place) == loops' = [loops EXCEPT ![g].pc = place]

\* The thread begins to run.
LoopBegin(g) ==
    /\ loops[g].pc = "begin"
    /\ armed' = TRUE
    /\ GoTo(g, "check")
    /\ UNCHANGED <<thread, stop, callback, handle, events>>

\* Mutant: the loop does not look at the stop flag.
LoopCheck_IgnoresStop(g) ==
    /\ loops[g].pc = "check"
    /\ GoTo(g, IF IsConnected THEN "capture" ELSE "connect")
    /\ UNCHANGED <<listener, handle, events>>

\* The head of the loop.
LoopCheck(g) ==
    /\ loops[g].pc = "check"
    /\ GoTo(g, IF stop THEN "done" ELSE IF IsConnected THEN "capture" ELSE "connect")
    /\ UNCHANGED <<listener, handle, events>>

\* One round of _reconnect_with_backoff(); a failed one is followed by the
\* next, unless the listener is stopped.
LoopConnect(g) ==
    /\ loops[g].pc = "connect"
    /\ stop \/ plugged
    /\ handle' = IF stop THEN handle ELSE "open"
    /\ armed' = TRUE
    /\ GoTo(g, "check")
    /\ UNCHANGED <<thread, stop, callback, events>>

\* capture_template(): a template, nothing, or an exception.  PyzkfpBackend
\* turns every error of the SDK into a RuntimeError, which leaves the service
\* connected; BiometricNotConnectedError needs a handle that is gone already.
LoopCapture(g) ==
    /\ loops[g].pc = "capture"
    /\ \/ /\ Readable
          /\ loops' = [loops EXCEPT ![g] = [pc |-> "debounce", seen |-> finger]]
       \/ GoTo(g, "check")
    /\ UNCHANGED <<listener, handle, events>>

\* Mutant: the listener is not disarmed by an event.
LoopDebounce_StaysArmed(g) ==
    /\ loops[g].pc = "debounce"
    /\ armed' = (armed \/ loops[g].seen = 0)
    /\ GoTo(g, IF armed /\ loops[g].seen # 0 THEN "callback" ELSE "check")
    /\ UNCHANGED <<thread, stop, callback, handle, events>>

\* A lifted finger arms the listener, an event disarms it.
LoopDebounce(g) ==
    /\ loops[g].pc = "debounce"
    /\ armed' = (loops[g].seen = 0)
    /\ GoTo(g, IF armed /\ loops[g].seen # 0 THEN "callback" ELSE "check")
    /\ UNCHANGED <<thread, stop, callback, handle, events>>

\* on_template() identifies the finger and posts the scan.  A callback that
\* stop_listener() has taken away is skipped.
LoopCallback(g) ==
    /\ loops[g].pc = "callback"
    /\ events' = IF callback
                 THEN Append(events, [loop |-> g, press |-> loops[g].seen])
                 ELSE events
    /\ GoTo(g, "check")
    /\ UNCHANGED <<listener, handle>>

\* The threads of a process end with it.
RunLoop(g) ==
    /\ mpc # "exited"
    /\ \/ LoopBegin(g) \/ LoopCheck(g) \/ LoopConnect(g)
       \/ LoopCapture(g) \/ LoopDebounce(g) \/ LoopCallback(g)
    /\ UNCHANGED <<hardware, abandoned, mpc, capture, signal>>

-----------------------------------------------------------------------------
(* start_listener() and stop_listener(), run by the main thread or by the  *)
(* signal handler.                                                         *)

\* Mutant: the stop flag is left as it was.
StartListener_KeepsStop ==
    /\ callback' = TRUE
    /\ thread' = Len(loops) + 1
    /\ loops' = Append(loops, [pc |-> "begin", seen |-> 0])
    /\ UNCHANGED <<stop, armed>>

\* Called only when the field _thread is None.
StartListener ==
    /\ callback' = TRUE
    /\ stop' = FALSE
    /\ thread' = Len(loops) + 1
    /\ loops' = Append(loops, [pc |-> "begin", seen |-> 0])
    /\ UNCHANGED armed

\* The end of join(): the thread has ended, or the timeout has passed.
JoinReturns ==
    /\ thread # 0
    /\ \/ /\ thread \notin Living
          /\ UNCHANGED abandoned
       \/ /\ thread \in Living
          /\ Cardinality(abandoned) < MaxJoinTimeouts
          /\ abandoned' = abandoned \cup {thread}
    /\ thread' = 0
    /\ callback' = FALSE
    /\ UNCHANGED <<stop, armed>>

-----------------------------------------------------------------------------
(* The main thread: run_until_shutdown() and, on every tick,               *)
(* _check_and_fulfill_enroll_request().                                    *)

ShutdownRequested == spc # "off"

Start ==
    /\ mpc = "start"
    /\ StartListener
    /\ mpc' = "tick"
    /\ UNCHANGED <<handle, abandoned, capture>>

\* The server has a pending request.
PollFindsRequest ==
    /\ mpc = "tick"
    /\ ~ShutdownRequested
    /\ Len(loops) <= MaxRequests
    /\ mpc' = "stop"
    /\ UNCHANGED <<handle, listener, loops, abandoned, capture>>

LeaveRunLoop ==
    /\ mpc = "tick"
    /\ ShutdownRequested
    /\ mpc' = "exited"
    /\ UNCHANGED <<handle, listener, loops, abandoned, capture>>

\* Mutant: the listener goes on while the samples are taken.
StopListener_Signalled ==
    /\ mpc = "stop"
    /\ stop' = (thread # 0)
    /\ mpc' = "connect"
    /\ thread' = 0
    /\ UNCHANGED <<handle, armed, callback, loops, abandoned, capture>>

\* stop_listener(): nothing to do, or the thread is told to end.
StopListener ==
    /\ mpc = "stop"
    /\ \/ thread = 0 /\ mpc' = "connect" /\ UNCHANGED stop
       \/ thread # 0 /\ mpc' = "join" /\ stop' = TRUE
    /\ UNCHANGED <<handle, thread, armed, callback, loops, abandoned, capture>>

\* If the signal handler has stopped the listener meanwhile, _thread is None
\* and the AttributeError ends the tick.
JoinListener ==
    /\ mpc = "join"
    /\ \/ /\ JoinReturns
          /\ mpc' = "connect"
       \/ /\ thread = 0
          /\ mpc' = "tick"
          /\ UNCHANGED <<listener, abandoned>>
    /\ UNCHANGED <<handle, loops, capture>>

\* `if not service.is_connected: service.connect(...)`, before the capture.
Connect ==
    /\ mpc = "connect"
    /\ \/ IsConnected /\ mpc' = "capture" /\ UNCHANGED handle
       \/ ~IsConnected /\ plugged /\ mpc' = "capture" /\ handle' = "open"
       \/ ~IsConnected /\ ~plugged /\ mpc' = "resume" /\ UNCHANGED handle
    /\ samples' = <<>>
    /\ overheld' = FALSE
    /\ UNCHANGED <<listener, loops, abandoned>>

\* Any exception, a timeout included, skips the POST.
GiveUpCapture ==
    /\ mpc \in {"capture", "release"}
    /\ mpc' = "resume"
    /\ UNCHANGED <<handle, listener, loops, abandoned, capture>>

\* Mutant: the finger need not be lifted between two samples.
CaptureSample_NoRelease ==
    /\ mpc = "capture"
    /\ Readable /\ finger # 0
    /\ samples' = Append(samples, finger)
    /\ mpc' = IF Len(samples) + 1 < Samples THEN "capture" ELSE "post"
    /\ UNCHANGED <<handle, listener, loops, abandoned, overheld>>

\* capture_blocking() reads a finger; after the last one the samples are
\* merged.
CaptureSample ==
    /\ mpc = "capture"
    /\ Readable /\ finger # 0
    /\ samples' = Append(samples, finger)
    /\ mpc' = IF Len(samples) + 1 < Samples THEN "release" ELSE "post"
    /\ UNCHANGED <<handle, listener, loops, abandoned, overheld>>

\* _wait_for_release(): no finger is read, or the wait has lasted too long.
AwaitRelease ==
    /\ mpc = "release"
    /\ \/ Readable /\ finger = 0 /\ UNCHANGED overheld
       \/ overheld' = TRUE
    /\ mpc' = "capture"
    /\ UNCHANGED <<handle, listener, loops, abandoned, samples>>

\* The merged template is posted, with whatever outcome; or merging it failed.
PostTemplate ==
    /\ mpc = "post"
    /\ mpc' = "resume"
    /\ UNCHANGED <<handle, listener, loops, abandoned, capture>>

\* Mutant: the listener is only resumed for a reader that works.
Resume_Readable ==
    /\ mpc = "resume"
    /\ IF Readable
       THEN StartListener /\ UNCHANGED handle
       ELSE UNCHANGED <<handle, listener, loops>>
    /\ mpc' = "tick"
    /\ UNCHANGED <<abandoned, capture>>

\* The `finally`: without a reader to connect to, the listener stays stopped.
Resume ==
    /\ mpc = "resume"
    /\ IF IsConnected \/ plugged
       THEN /\ StartListener
            /\ handle' = IF IsConnected THEN handle ELSE "open"
       ELSE UNCHANGED <<handle, listener, loops>>
    /\ mpc' = "tick"
    /\ UNCHANGED <<abandoned, capture>>

RunMain ==
    /\ spc \in {"off", "done"}
    /\ \/ Start \/ LeaveRunLoop \/ StopListener \/ JoinListener \/ Connect
       \/ GiveUpCapture \/ CaptureSample \/ AwaitRelease \/ PostTemplate \/ Resume
    /\ UNCHANGED <<hardware, events, signal>>

Poll ==
    /\ spc \in {"off", "done"}
    /\ PollFindsRequest
    /\ UNCHANGED <<hardware, events, signal>>

-----------------------------------------------------------------------------
(* The signal handler _shutdown(); a second signal is ignored.             *)

Signal ==
    /\ MayShutDown
    /\ spc = "off"
    /\ mpc # "exited"
    /\ spc' = "stop"
    /\ caught' = mpc
    /\ UNCHANGED <<handle, listener, abandoned>>

\* Mutant: the handler disconnects without stopping the listener.
HandlerStops_Forgets ==
    /\ spc = "stop"
    /\ spc' = "disconnect"
    /\ UNCHANGED <<handle, listener, abandoned, caught>>

HandlerStops ==
    /\ spc = "stop"
    /\ spc' = IF thread = 0 THEN "disconnect" ELSE "join"
    /\ stop' = (stop \/ thread # 0)
    /\ UNCHANGED <<handle, thread, armed, callback, abandoned, caught>>

HandlerJoins ==
    /\ spc = "join"
    /\ JoinReturns
    /\ spc' = "disconnect"
    /\ UNCHANGED <<handle, caught>>

HandlerDisconnects ==
    /\ spc = "disconnect"
    /\ handle' = "none"
    /\ spc' = "done"
    /\ UNCHANGED <<listener, abandoned, caught>>

RunHandler ==
    /\ HandlerStops \/ HandlerJoins \/ HandlerDisconnects
    /\ UNCHANGED <<hardware, loops, events, mpc, capture>>

Interrupt ==
    /\ Signal
    /\ UNCHANGED <<hardware, loops, events, mpc, capture>>

-----------------------------------------------------------------------------
\* cmd_listen() has connected to the reader, or exited.
Init ==
    /\ plugged = TRUE /\ finger = 0 /\ presses = 0 /\ unplugs = 0
    /\ handle = "open"
    /\ thread = 0 /\ stop = FALSE /\ armed = TRUE /\ callback = FALSE
    /\ loops = <<>> /\ abandoned = {} /\ events = <<>>
    /\ mpc = "start" /\ samples = <<>> /\ overheld = FALSE
    /\ spc = "off" /\ caught = "tick"

Next ==
    \/ Reader
    \/ \E g \in DOMAIN loops : RunLoop(g)
    \/ RunMain
    \/ Poll
    \/ Interrupt
    \/ RunHandler

Spec == Init /\ [][Next]_vars

\* Threads are scheduled and every call they make returns in the end; the SDK
\* does not fail for ever on a handle that works.
Fairness ==
    /\ WF_vars(RunMain)
    /\ WF_vars(RunHandler)
    /\ \A g \in 1 .. MaxRequests + 1 :
          /\ WF_vars(g \in DOMAIN loops /\ RunLoop(g))
          /\ SF_vars(g \in DOMAIN loops /\ RunLoop(g) /\ loops'[g].pc = "debounce")

FairSpec == Spec /\ Fairness

-----------------------------------------------------------------------------
TypeOK ==
    /\ plugged \in BOOLEAN
    /\ finger \in Nat /\ presses \in Nat /\ unplugs \in Nat
    /\ handle \in {"none", "open", "dead"}
    /\ thread \in Nat /\ stop \in BOOLEAN /\ armed \in BOOLEAN /\ callback \in BOOLEAN
    /\ loops \in Seq(Loop)
    /\ abandoned \subseteq Nat
    /\ events \in Seq(Event)
    /\ mpc \in MainPlaces
    /\ samples \in Seq(Nat) /\ overheld \in BOOLEAN
    /\ spc \in {"off", "stop", "join", "disconnect", "done"}
    /\ caught \in MainPlaces

\* Pausing and resuming leaves no second loop behind, except for a thread that
\* join() gave up on: every other one that lives is the listener's, and none
\* lives while the main thread uses the reader.
OneLoop ==
    Living \subseteq abandoned \cup (IF mpc \in Paused THEN {} ELSE {thread})

\* A signal that finds the agent listening ends with the reader released.
ReleasedOnQuietExit ==
    mpc = "exited" /\ caught \in {"tick", "join"} /\ abandoned = {} =>
        handle = "none" /\ thread = 0

\* A press is reported at most once between a start of the listener and its
\* stop, however long it lasts.
OneEventPerStart ==
    abandoned = {} =>
        \A i, j \in DOMAIN events : events[i] = events[j] => i = j

\* The samples that are merged come from different presses, unless the finger
\* was held for the whole wait.
SamplesDiffer ==
    ~overheld => \A i, j \in DOMAIN samples : samples[i] = samples[j] => i = j

\* The strengthening of the invariants above that every step preserves.
ListenerInv ==
    /\ thread # 0 => thread \in DOMAIN loops
    /\ mpc \in Paused \cup {"start"} => thread = 0

\* What a signal that was caught while the agent listened has led to.
ExitInv ==
    /\ mpc = "exited" => spc = "done"
    /\ spc = "disconnect" => thread = 0
    /\ handle = "none" => spc = "done"
    /\ caught \in {"tick", "join"} /\ ShutdownRequested /\ abandoned = {} =>
          /\ mpc \in {"tick", "join", "exited"}
          /\ spc = "done" => thread = 0 /\ handle = "none"

\* Presses are numbered in order, and a finger that is lifted never returns.
PressInv ==
    /\ finger <= presses
    /\ \A i \in DOMAIN samples : samples[i] \in 1 .. presses
    /\ \A i \in DOMAIN events :
          events[i].loop \in DOMAIN loops /\ events[i].press \in 1 .. presses
    /\ \A g \in DOMAIN loops :
          loops[g].seen <= presses /\ (loops[g].pc = "callback" => loops[g].seen # 0)

SampleInv ==
    ~overheld /\ mpc = "capture" => \A i \in DOMAIN samples : samples[i] # finger

Reported(g) == {events[i].press : i \in {j \in DOMAIN events : events[j].loop = g}}

\* What the loop of the g-th start may report next, it has not reported yet.
DebounceInv(g) ==
    /\ loops[g].pc \in {"begin", "connect"} => Reported(g) = {}
    /\ handle = "none" =>
          /\ loops[g].pc \in {"begin", "check", "connect", "done"}
          /\ Reported(g) = {}
    /\ armed /\ loops[g].pc \in {"check", "capture"} => finger \notin Reported(g)
    /\ armed /\ loops[g].pc = "debounce" => loops[g].seen \notin Reported(g)
    /\ loops[g].pc = "debounce" /\ loops[g].seen = 0 => finger \notin Reported(g)
    /\ loops[g].pc = "callback" => ~armed /\ loops[g].seen \notin Reported(g)

IndInv ==
    /\ TypeOK
    /\ ListenerInv
    /\ OneLoop
    /\ ExitInv
    /\ PressInv
    /\ SampleInv
    /\ SamplesDiffer
    /\ abandoned = {} => \A g \in Living : DebounceInv(g)
    /\ OneEventPerStart

\* After every remote request, whatever goes wrong with it, the kiosk listens
\* again.
ListeningResumes == (mpc \in Paused) ~> (thread # 0 \/ ShutdownRequested)

\* A signal ends the process.
ShutdownEnds == ShutdownRequested ~> (mpc = "exited")

Noticed(p) ==
    \/ \E i \in DOMAIN events : events[i].press = p
    \/ \E i \in DOMAIN samples : samples[i] = p

\* A finger that stays on the reader once the listener waits for one is
\* reported or becomes a sample, whatever the main thread does meanwhile,
\* unless the reader is unplugged or the process is told to end.
AwaitedTouchIsNoticed ==
    \A p \in 1 .. MaxPresses :
        (/\ finger = p
         /\ armed
         /\ thread # 0
         /\ loops[thread].pc = "check") ~>
            (finger # p \/ Noticed(p) \/ ShutdownRequested \/ ~Readable)
=============================================================================
