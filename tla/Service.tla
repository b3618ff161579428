------------------------------- MODULE Service -------------------------------
(***************************************************************************)
(* WinBtrfsService: the thread of serviceMain (service.cpp), the control   *)
(* handler the Service Control Manager (SCM) calls on another thread, the  *)
(* thread of watchIPC that polls the named pipe (ipc.cpp), and the log     *)
(* they share (log.cpp).  Clients follow PipeClient/main.cpp: open the     *)
(* pipe, send a request, wait for the response, close; a client may also   *)
(* be killed at any point.                                                 *)
(*                                                                         *)
(* The pipe has one instance and the service's calls on it never block     *)
(* (PIPE_NOWAIT).  The pipe, the events and the SCM are external.          *)
(***************************************************************************)
EXTENDS Naturals, Sequences

CONSTANTS
    Clients,    \* runs of the client program
    NoClient

ASSUME NoClientIsNone == NoClient \notin Clients

VARIABLES
    main,           \* where serviceMain is
    serving,        \* the client whose request handleIPC is working on
    handler,        \* where serviceCtrlHandlerEx is
    status,         \* status.dwCurrentState
    reported,       \* the state that the SCM was last told
    watch,          \* where watchIPC is
    news,           \* what watchIPC has last learnt about the pipe
    stdoutLocked,   \* is the C library's lock on stdout held by watchIPC?
    stopEvent, ipcEvent, threadTermEvent, threadDoneEvent,
    pipe,           \* the state of the pipe instance, as the service has it
    peer,           \* the client at its other end
    toServer,       \* requests in the pipe, by client
    toClient,       \* responses in the pipe, by the client they answer
    client,         \* where each client is
    answer          \* the client whose request its response answers

mainVars == <<main, serving>>
ctrlVars == <<handler, status, reported>>
watchVars == <<watch, news, stdoutLocked>>
threadEvents == <<threadTermEvent, threadDoneEvent>>
events == <<stopEvent, ipcEvent, threadEvents>>
buffers == <<toServer, toClient>>
pipeVars == <<pipe, peer, buffers>>
clientVars == <<client, answer>>
vars == <<mainVars, ctrlVars, watchVars, events, pipeVars, clientVars>>

Event == {"none", "reset", "set", "closed"}

State == {"STOPPED", "START_PENDING", "RUNNING", "STOP_PENDING"}

(* Every variable has its type, and a response is always somebody's. *)
TypeOK ==
    /\ main \in {"start", "create_pipe", "create_thread", "create_events",
                 "set_running", "wait", "read", "mount", "respond", "reset",
                 "close_events", "signal_term", "join", "close_pipe",
                 "set_stopped", "report", "returned"}
    /\ serving \in Clients \cup {NoClient}
    /\ handler \in {"idle", "called", "report", "last_call"}
    /\ {status, reported} \subseteq State
    /\ watch \in {"none", "connect", "log", "printing", "signal", "disconnect",
                  "wait", "done", "returned", "terminated"}
    /\ news \in {"listening", "connected", "no_data", "error"}
    /\ stdoutLocked \in BOOLEAN
    /\ {stopEvent, ipcEvent, threadTermEvent, threadDoneEvent} \subseteq Event
    /\ pipe \in {"none", "listening", "connected", "closing", "disconnected",
                 "closed"}
    /\ peer \in Clients \cup {NoClient}
    /\ toServer \in Seq(Clients) /\ toClient \in Seq(Clients)
    /\ client \in [Clients -> {"idle", "open", "waiting", "answered", "gone",
                               "killed"}]
    /\ answer \in [Clients -> Clients \cup {NoClient}]

Init ==
    /\ main = "start" /\ serving = NoClient
    /\ handler = "idle" /\ status = "STOPPED" /\ reported = "STOPPED"
    /\ watch = "none" /\ news = "listening" /\ stdoutLocked = FALSE
    /\ stopEvent = "none" /\ ipcEvent = "none"
    /\ threadTermEvent = "none" /\ threadDoneEvent = "none"
    /\ pipe = "none" /\ peer = NoClient
    /\ toServer = <<>> /\ toClient = <<>>
    /\ client = [c \in Clients |-> "idle"]
    /\ answer = [c \in Clients |-> NoClient]

----------------------------------------------------------------------------

(* CreateEvent may fail; nothing asks whether it did. *)
Created == {"reset", "none"}

(* SetEvent fails, changing nothing, on a handle that has been closed or   *)
(* that is no event's; CloseHandle fails on a handle that is no event's.   *)
Set(event) == IF event \in {"none", "closed"} THEN event ELSE "set"

Shut(event) == IF event = "none" THEN "none" ELSE "closed"

(***************************************************************************)
(* log holds a mutex and, inside printf, the C library's lock on stdout.   *)
(* TerminateThread releases the mutex of its victim but not that lock.     *)
(* A log of serviceMain or of the handler is part of the step it precedes. *)
(***************************************************************************)
CanLog == ~stdoutLocked

Goto(label) == main' = label

(* What is reported is the global `status', which both threads write. *)
SetServiceStatus(state) == reported' = state

----------------------------------------------------------------------------
(***************************************************************************)
(* serviceMain, setUpIPC and cleanUpIPC                                    *)
(***************************************************************************)

Start ==
    /\ main = "start"
    /\ CanLog
    /\ status' = "START_PENDING" /\ SetServiceStatus("START_PENDING")
    /\ stopEvent' \in Created /\ ipcEvent' \in Created
    /\ Goto("create_pipe")
    /\ UNCHANGED <<serving, handler, watchVars, threadEvents, pipeVars, clientVars>>

CreatePipe ==
    /\ main = "create_pipe"
    /\ pipe' = "listening"
    /\ Goto("create_thread")
    /\ UNCHANGED <<serving, ctrlVars, watchVars, events, peer, buffers, clientVars>>

(* Either call of setUpIPC may fail; serviceMain then just returns. *)
SetUpIPCFails ==
    /\ main \in {"create_pipe", "create_thread"}
    /\ CanLog
    /\ Goto("returned")
    /\ UNCHANGED <<serving, ctrlVars, watchVars, events, pipeVars, clientVars>>

StartThread ==
    /\ main = "create_thread"
    /\ watch' = "connect"
    /\ Goto("create_events")
    /\ UNCHANGED <<serving, ctrlVars, news, stdoutLocked, events, pipeVars, clientVars>>

CreateEvents ==
    /\ main = "create_events"
    /\ threadTermEvent' \in Created /\ threadDoneEvent' \in Created
    /\ Goto("set_running")
    /\ UNCHANGED <<serving, ctrlVars, watchVars, stopEvent, ipcEvent, pipeVars, clientVars>>

SetRunning ==
    /\ main = "set_running"
    /\ CanLog
    /\ status' = "RUNNING" /\ SetServiceStatus("RUNNING")
    /\ Goto("wait")
    /\ UNCHANGED <<serving, handler, watchVars, events, pipeVars, clientVars>>

(* CreateEvent failed for an event of the main loop. *)
EventMissing == main # "start" /\ "none" \in {stopEvent, ipcEvent}

(* WaitForMultipleObjects returns the first of its events that is set and  *)
(* resets it: CreateEvent made them auto-reset.                            *)
WaitStop ==
    /\ main = "wait"
    /\ ~EventMissing
    /\ stopEvent = "set"
    /\ stopEvent' = "reset"
    /\ Goto("close_events")
    /\ UNCHANGED <<serving, ctrlVars, watchVars, ipcEvent, threadEvents, pipeVars, clientVars>>

WaitIPC ==
    /\ main = "wait"
    /\ ~EventMissing
    /\ stopEvent # "set" /\ ipcEvent = "set"
    /\ ipcEvent' = "reset"
    /\ Goto("read")
    /\ UNCHANGED <<serving, ctrlVars, watchVars, stopEvent, threadEvents, pipeVars, clientVars>>

(* It refuses, at once, to wait for a handle that is no event's: the       *)
(* default branch of the loop, which cleans up without being asked to.     *)
WaitFails ==
    /\ main = "wait"
    /\ EventMissing
    /\ CanLog
    /\ Goto("close_events")
    /\ UNCHANGED <<serving, ctrlVars, watchVars, events, pipeVars, clientVars>>

CloseEvents ==
    /\ main = "close_events"
    /\ CanLog
    /\ stopEvent' = Shut(stopEvent) /\ ipcEvent' = Shut(ipcEvent)
    /\ Goto("signal_term")
    /\ UNCHANGED <<serving, ctrlVars, watchVars, threadEvents, pipeVars, clientVars>>

SignalTerm ==
    /\ main = "signal_term"
    /\ threadTermEvent' = Set(threadTermEvent)
    /\ Goto("join")
    /\ UNCHANGED <<serving, ctrlVars, watchVars, stopEvent, ipcEvent, threadDoneEvent,
                   pipeVars, clientVars>>

Join ==
    /\ main = "join"
    /\ threadDoneEvent = "set"
    /\ threadDoneEvent' = "reset"
    /\ Goto("close_pipe")
    /\ UNCHANGED <<serving, ctrlVars, watchVars, stopEvent, ipcEvent, threadTermEvent,
                   pipeVars, clientVars>>

(* WaitForSingleObject fails at once on a handle that is no event's, which *)
(* is not WAIT_TIMEOUT: the thread is left running.                        *)
JoinFails ==
    /\ main = "join"
    /\ threadDoneEvent = "none"
    /\ Goto("close_pipe")
    /\ UNCHANGED <<serving, ctrlVars, watchVars, events, pipeVars, clientVars>>

(* Seeded fault: after a second the thread is left running. *)
JoinGivesUp ==
    /\ main = "join"
    /\ threadDoneEvent = "reset"
    /\ Goto("close_pipe")
    /\ UNCHANGED <<serving, ctrlVars, watchVars, events, pipeVars, clientVars>>

(* The second has passed, however slow watchIPC was. *)
JoinTimesOut ==
    /\ main = "join"
    /\ threadDoneEvent = "reset"
    /\ watch' = "terminated"
    /\ Goto("close_pipe")
    /\ UNCHANGED <<serving, ctrlVars, news, stdoutLocked, events, pipeVars, clientVars>>

(* What the client has yet to read stays in a pipe the service closes. *)
ClosePipe ==
    /\ main = "close_pipe"
    /\ pipe' = "closed"
    /\ threadTermEvent' = Shut(threadTermEvent) /\ threadDoneEvent' = Shut(threadDoneEvent)
    /\ Goto("set_stopped")
    /\ UNCHANGED <<serving, ctrlVars, watchVars, stopEvent, ipcEvent, peer, buffers, clientVars>>

(* unmountAll only writes to the log. *)
SetStopped ==
    /\ main = "set_stopped"
    /\ CanLog
    /\ status' = "STOPPED"
    /\ Goto("report")
    /\ UNCHANGED <<serving, handler, reported, watchVars, events, pipeVars, clientVars>>

(* The handler may write `status' in between, if it is still at work. *)
ReportStopped ==
    /\ main = "report"
    /\ SetServiceStatus(status)
    /\ Goto("returned")
    /\ UNCHANGED <<serving, handler, status, watchVars, events, pipeVars, clientVars>>

----------------------------------------------------------------------------
(***************************************************************************)
(* handleIPC                                                               *)
(***************************************************************************)

ReadRequest ==
    /\ main = "read"
    /\ toServer # <<>>
    /\ serving' = Head(toServer)
    /\ toServer' = Tail(toServer)
    /\ Goto("mount")
    /\ UNCHANGED <<ctrlVars, watchVars, events, pipe, peer, toClient, clientVars>>

(* Seeded fault: a read that failed is answered all the same. *)
ReadFailsResponds ==
    /\ main = "read"
    /\ toServer = <<>>
    /\ CanLog
    /\ Goto("respond")
    /\ UNCHANGED <<serving, ctrlVars, watchVars, events, pipeVars, clientVars>>

ReadFails ==
    /\ main = "read"
    /\ toServer = <<>>
    /\ CanLog
    /\ Goto("reset")
    /\ UNCHANGED <<serving, ctrlVars, watchVars, events, pipeVars, clientVars>>

(* mount only writes to the log, and returns 0: the answer is RESP_OK. *)
Mount ==
    /\ main = "mount"
    /\ CanLog
    /\ Goto("respond")
    /\ UNCHANGED <<serving, ctrlVars, watchVars, events, pipeVars, clientVars>>

(* The response goes to whoever is connected; WriteFile may also fail. *)
Respond ==
    /\ main = "respond"
    /\ CanLog
    /\ toClient' = IF pipe = "connected" THEN Append(toClient, serving) ELSE toClient
    /\ serving' = NoClient
    /\ Goto("reset")
    /\ UNCHANGED <<ctrlVars, watchVars, events, pipe, peer, toServer, clientVars>>

(* Seeded fault: both events of the main loop are reset. *)
ResetBothEvents ==
    /\ main = "reset"
    /\ stopEvent' = "reset" /\ ipcEvent' = "reset"
    /\ Goto("wait")
    /\ UNCHANGED <<serving, ctrlVars, watchVars, threadEvents, pipeVars, clientVars>>

ResetEvent ==
    /\ main = "reset"
    /\ ipcEvent' = "reset"
    /\ Goto("wait")
    /\ UNCHANGED <<serving, ctrlVars, watchVars, stopEvent, threadEvents, pipeVars, clientVars>>

----------------------------------------------------------------------------
(***************************************************************************)
(* serviceCtrlHandlerEx.  The SCM sends SERVICE_CONTROL_STOP or _SHUTDOWN  *)
(* only to a service that is running and accepts it.                       *)
(***************************************************************************)

StopRequested ==
    /\ handler = "idle"
    /\ reported = "RUNNING"
    /\ handler' = "called"
    /\ UNCHANGED <<mainVars, status, reported, watchVars, events, pipeVars, clientVars>>

(* Seeded fault: serviceMain is notified before the state is set. *)
notifyBeforeStatus ==
    /\ \/ /\ handler = "called"
          /\ CanLog
          /\ stopEvent' = Set(stopEvent)
          /\ handler' = "report"
          /\ UNCHANGED <<status, reported>>
       \/ /\ handler = "report"
          /\ status' = "STOP_PENDING"
          /\ handler' = "last_call"
          /\ UNCHANGED <<stopEvent, reported>>
       \/ /\ handler = "last_call"
          /\ SetServiceStatus(status)
          /\ handler' = "idle"
          /\ UNCHANGED <<stopEvent, status>>
    /\ UNCHANGED <<mainVars, watchVars, ipcEvent, threadEvents, pipeVars, clientVars>>

serviceCtrlHandlerEx ==
    /\ \/ /\ handler = "called"
          /\ CanLog
          /\ status' = "STOP_PENDING"
          /\ handler' = "report"
          /\ UNCHANGED <<stopEvent, reported>>
       \/ /\ handler = "report"
          /\ SetServiceStatus(status)
          /\ handler' = "last_call"
          /\ UNCHANGED <<stopEvent, status>>
       \/ /\ handler = "last_call"
          /\ stopEvent' = Set(stopEvent)
          /\ handler' = "idle"
          /\ UNCHANGED <<status, reported>>
    /\ UNCHANGED <<mainVars, watchVars, ipcEvent, threadEvents, pipeVars, clientVars>>

----------------------------------------------------------------------------
(***************************************************************************)
(* watchIPC                                                                *)
(***************************************************************************)

(* Seeded fault: only the first poll that finds a client is a connection. *)
IsNewConnection ==
    \/ pipe = "disconnected"
    \/ pipe = "connected" /\ news # "connected"

(* Is this poll of the pipe reported as a connection?  ConnectNamedPipe    *)
(* fails with ERROR_PIPE_CONNECTED at every poll while a client is         *)
(* connected, and succeeds when it makes a disconnected pipe listen again. *)
IsConnection == pipe \in {"connected", "disconnected"}

(* Seeded fault: a client found twice is thought to be done with the pipe. *)
IsDoneOrSeen == pipe = "closing" \/ (pipe = "connected" /\ news = "connected")

(* Is the client done with the pipe?  ConnectNamedPipe: ERROR_NO_DATA. *)
IsDone == pipe = "closing"

Connect ==
    /\ watch = "connect"
    /\ pipe' = IF pipe = "disconnected" THEN "listening" ELSE pipe
    /\ \/ /\ IsConnection
          /\ news' = "connected" /\ watch' = "log"
       \/ /\ IsDone
          /\ news' = "no_data" /\ watch' = "log"
       \/ /\ pipe = "listening"
          /\ news' = "listening" /\ watch' = "wait"
       \/ /\ pipe = "closed"
          /\ news' = "error" /\ watch' = "log"
    /\ UNCHANGED <<mainVars, ctrlVars, stdoutLocked, events, peer, buffers, clientVars>>

BeginPrint ==
    /\ watch = "log"
    /\ CanLog
    /\ stdoutLocked' = TRUE
    /\ watch' = "printing"
    /\ UNCHANGED <<mainVars, ctrlVars, news, events, pipeVars, clientVars>>

EndPrint ==
    /\ watch = "printing"
    /\ stdoutLocked' = FALSE
    /\ watch' = CASE news = "connected" -> "signal"
                  [] news = "no_data" -> "disconnect"
                  [] OTHER -> "wait"
    /\ UNCHANGED <<mainVars, ctrlVars, news, events, pipeVars, clientVars>>

Signal ==
    /\ watch = "signal"
    /\ ipcEvent' = Set(ipcEvent)
    /\ watch' = "wait"
    /\ UNCHANGED <<mainVars, ctrlVars, news, stdoutLocked, stopEvent, threadEvents,
                   pipeVars, clientVars>>

(* DisconnectNamedPipe drops what is in the pipe; it fails on a closed one. *)
Disconnect ==
    /\ watch = "disconnect"
    /\ IF pipe = "closed"
          THEN UNCHANGED pipeVars
          ELSE /\ pipe' = "disconnected"
               /\ peer' = NoClient
               /\ toServer' = <<>> /\ toClient' = <<>>
    /\ watch' = "wait"
    /\ UNCHANGED <<mainVars, ctrlVars, news, stdoutLocked, events, clientVars>>

WaitTimesOut ==
    /\ watch = "wait"
    /\ threadTermEvent # "set"
    /\ watch' = "connect"
    /\ UNCHANGED <<mainVars, ctrlVars, news, stdoutLocked, events, pipeVars, clientVars>>

WaitTerm ==
    /\ watch = "wait"
    /\ threadTermEvent = "set"
    /\ threadTermEvent' = "reset"
    /\ watch' = "done"
    /\ UNCHANGED <<mainVars, ctrlVars, news, stdoutLocked, stopEvent, ipcEvent,
                   threadDoneEvent, pipeVars, clientVars>>

Done ==
    /\ watch = "done"
    /\ threadDoneEvent' = Set(threadDoneEvent)
    /\ watch' = "returned"
    /\ UNCHANGED <<mainVars, ctrlVars, news, stdoutLocked, stopEvent, ipcEvent,
                   threadTermEvent, pipeVars, clientVars>>

----------------------------------------------------------------------------
(***************************************************************************)
(* Clients                                                                 *)
(***************************************************************************)

Become(c, state) == client' = [client EXCEPT ![c] = state]

ConnectedTo(c) == pipe = "connected" /\ peer = c

(* The pipe's other end is gone and nothing is left to read from it. *)
Broken(c) == peer # c \/ (pipe = "closed" /\ toClient = <<>>)

Hangup(c) == pipe' = IF ConnectedTo(c) THEN "closing" ELSE pipe

Open(c) ==
    /\ client[c] = "idle"
    /\ pipe = "listening"
    /\ pipe' = "connected" /\ peer' = c
    /\ Become(c, "open")
    /\ UNCHANGED <<mainVars, ctrlVars, watchVars, events, buffers, answer>>

(* WaitNamedPipe times out, or another client opens the pipe first. *)
OpenFails(c) ==
    /\ client[c] = "idle"
    /\ pipe # "listening"
    /\ Become(c, "gone")
    /\ UNCHANGED <<mainVars, ctrlVars, watchVars, events, pipeVars, answer>>

SendRequest(c) ==
    /\ client[c] = "open"
    /\ ConnectedTo(c)
    /\ toServer' = Append(toServer, c)
    /\ Become(c, "waiting")
    /\ UNCHANGED <<mainVars, ctrlVars, watchVars, events, pipe, peer, toClient, answer>>

Receive(c) ==
    /\ client[c] = "waiting"
    /\ peer = c /\ toClient # <<>>
    /\ answer' = [answer EXCEPT ![c] = Head(toClient)]
    /\ toClient' = Tail(toClient)
    /\ Become(c, "answered")
    /\ UNCHANGED <<mainVars, ctrlVars, watchVars, events, pipe, peer, toServer>>

Close(c) ==
    /\ client[c] = "answered"
    /\ Hangup(c)
    /\ Become(c, "gone")
    /\ UNCHANGED <<mainVars, ctrlVars, watchVars, events, peer, buffers, answer>>

Fail(c) ==
    /\ client[c] \in {"open", "waiting"}
    /\ Broken(c)
    /\ Become(c, "gone")
    /\ UNCHANGED <<mainVars, ctrlVars, watchVars, events, pipeVars, answer>>

Kill(c) ==
    /\ client[c] \in {"open", "waiting"}
    /\ Hangup(c)
    /\ Become(c, "killed")
    /\ UNCHANGED <<mainVars, ctrlVars, watchVars, events, peer, buffers, answer>>

----------------------------------------------------------------------------

serviceMain ==
    \/ Start \/ CreatePipe \/ SetUpIPCFails \/ StartThread \/ CreateEvents
    \/ SetRunning \/ WaitStop \/ WaitIPC \/ WaitFails
    \/ ReadRequest \/ ReadFails \/ Mount \/ Respond \/ ResetEvent
    \/ CloseEvents \/ SignalTerm \/ Join \/ JoinTimesOut \/ JoinFails \/ ClosePipe
    \/ SetStopped \/ ReportStopped

watchIPC ==
    \/ Connect \/ BeginPrint \/ EndPrint \/ Signal \/ Disconnect
    \/ WaitTimesOut \/ WaitTerm \/ Done

Client(c) ==
    \/ Open(c) \/ OpenFails(c) \/ SendRequest(c) \/ Receive(c) \/ Close(c)
    \/ Fail(c) \/ Kill(c)

Next ==
    \/ serviceMain
    \/ watchIPC
    \/ StopRequested \/ serviceCtrlHandlerEx
    \/ \E c \in Clients : Client(c)

(***************************************************************************)
(* Threads are scheduled.  A thread that waits for the log gets it, though *)
(* watchIPC takes it again and again: Windows queues the waiters of a      *)
(* mutex in order, hence strong fairness.  A client that can read what it  *)
(* waits for does; nothing else is asked of clients or of the SCM.         *)
(***************************************************************************)
Fairness ==
    /\ SF_vars(serviceMain)
    /\ SF_vars(serviceCtrlHandlerEx)
    /\ WF_vars(watchIPC)
    /\ \A c \in Clients : WF_vars(Receive(c) \/ Fail(c))

Spec == Init /\ [][Next]_vars /\ Fairness

----------------------------------------------------------------------------

Rank == [state \in State |->
            CASE state = "STOPPED" -> 0
              [] state = "START_PENDING" -> 1
              [] state = "RUNNING" -> 2
              [] state = "STOP_PENDING" -> 3]

Closed(event) == event \in {"none", "closed"}

(* serviceMain has closed what it opened. *)
CleanedUp ==
    /\ pipe = "closed"
    /\ \A event \in {stopEvent, ipcEvent, threadTermEvent, threadDoneEvent} : Closed(event)

(* What two threads tell the SCM moves forward from STOPPED over           *)
(* START_PENDING and RUNNING to STOP_PENDING, and back to STOPPED only     *)
(* when everything has been cleaned up.  Only where an event of the main   *)
(* loop could not be created does serviceMain stop without having been     *)
(* asked: then STOPPED may follow RUNNING, and the report of a handler     *)
(* that was already at work may follow STOPPED.                            *)
StatusForward ==
    [][ reported' # reported =>
            \/ Rank[reported'] = Rank[reported] + 1
            \/ /\ reported' = "STOPPED" /\ CleanedUp'
               /\ reported = "STOP_PENDING" \/ EventMissing
            \/ /\ reported = "STOPPED" /\ reported' = "STOP_PENDING"
               /\ CleanedUp /\ EventMissing ]_vars

(* cleanUpIPC closes the pipe and the thread's events only when watchIPC,  *)
(* which uses them, has ended, by itself or terminated; it fails to where  *)
(* threadDoneEvent, for which it waits, could not be created.              *)
HandlesOutliveThread ==
    pipe = "closed" => watch \in {"returned", "terminated"} \/ threadDoneEvent = "none"

(* A client whose response is not the one it reads: it was killed, or it   *)
(* was given another's.                                                    *)
Astray(c) == client[c] = "killed" \/ answer[c] \notin {c, NoClient}

(* A client receives the response to its own request, or else to that of a *)
(* client that was killed or was itself given another's (killing one may   *)
(* shift all that come after it by one); and no response is received by    *)
(* two clients.                                                            *)
OwnResponse ==
    /\ \A c \in Clients : answer[c] \in {c, NoClient} \/ Astray(answer[c])
    /\ \A c, d \in Clients : answer[c] = answer[d] /\ answer[c] # NoClient => c = d

(* serviceMain gave up before watchIPC existed; the pipe may be open. *)
SetUpFailed == main = "returned" /\ watch = "none"

(* A client that has sent a request is answered or told that the pipe is   *)
(* broken, although a signal may be lost to the ResetEvent of handleIPC:   *)
(* only when setUpIPC failed after creating the pipe does it wait for ever.*)
RequestAnswered ==
    \A c \in Clients : (client[c] = "waiting") ~> (client[c] # "waiting" \/ SetUpFailed)

(* watchIPC was terminated inside printf. *)
LogOrphaned == watch = "terminated" /\ stdoutLocked

(* A service that has been told to stop reports that it has stopped,       *)
(* unless the thread it terminated held the lock that its log needs.       *)
(* Where an event of the main loop could not be created, the report of the *)
(* handler may come last, but serviceMain has returned all the same.       *)
StopCompletes ==
    (reported = "STOP_PENDING") ~>
        \/ reported = "STOPPED" \/ LogOrphaned
        \/ EventMissing /\ main = "returned"

(* watchIPC signals an event that is still open: the thread has "a full    *)
(* second to finish cleanly" (cleanUpIPC), but serviceMain has closed      *)
(* ipcEvent before it calls cleanUpIPC, also where every event was created.*)
FinishesCleanly == watch = "signal" => ipcEvent # "closed" \/ EventMissing

=============================================================================
