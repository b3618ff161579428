---------------------------- MODULE ServiceProofs ----------------------------
(***************************************************************************)
(* The shutdown handshake of WinBtrfsService, for any number of clients:   *)
(* the handles watchIPC uses are closed only after watchIPC has ended.     *)
(***************************************************************************)
EXTENDS Service, TLAPS

Ended == watch \in {"returned", "terminated"}

(* Before the thread exists nothing has been closed or signalled. *)
NotStarted ==
    /\ main \in {"start", "create_pipe"} => pipe = "none"
    /\ main \in {"start", "create_pipe", "create_thread"} => watch = "none"
    /\ main \in {"start", "create_pipe", "create_thread", "create_events"} => pipe # "closed"

(* The thread signals that it is done as the last thing it does, *)
DoneIsLast == threadDoneEvent = "set" => watch = "returned"

(* and serviceMain passes the join after that or after terminating it,     *)
(* where there is an event to wait for.                                    *)
Joined == main = "close_pipe" => Ended \/ threadDoneEvent = "none"

IInv == NotStarted /\ DoneIsLast /\ Joined /\ HandlesOutliveThread

----------------------------------------------------------------------------

(* The invariant holds when the service process starts. *)
LEMMA InitIInv == Init => IInv
  BY DEF Init, IInv, NotStarted, DoneIsLast, Joined, HandlesOutliveThread, Ended

(* Every step of serviceMain and of the IPC functions it calls keeps it. *)
LEMMA MainStep == IInv /\ serviceMain => IInv'
<1> SUFFICES ASSUME IInv, serviceMain PROVE IInv'
  OBVIOUS
<1> USE DEF IInv, NotStarted, DoneIsLast, Joined, HandlesOutliveThread, Ended,
            Goto, SetServiceStatus, Created, Set, Shut, pipeVars, buffers, events,
            threadEvents, watchVars
<1>1. CASE Start \/ CreatePipe \/ SetUpIPCFails
  BY <1>1 DEF Start, CreatePipe, SetUpIPCFails
<1>2. CASE StartThread \/ CreateEvents \/ SetRunning
  BY <1>2 DEF StartThread, CreateEvents, SetRunning
<1>3. CASE WaitStop \/ WaitIPC \/ WaitFails \/ ReadRequest \/ ReadFails
  BY <1>3 DEF WaitStop, WaitIPC, WaitFails, ReadRequest, ReadFails
<1>4. CASE Mount \/ Respond \/ ResetEvent
  BY <1>4 DEF Mount, Respond, ResetEvent
<1>5. CASE CloseEvents \/ SignalTerm
  BY <1>5 DEF CloseEvents, SignalTerm
<1>6. CASE Join
  BY <1>6 DEF Join
<1>7. CASE JoinTimesOut \/ JoinFails
  BY <1>7 DEF JoinTimesOut, JoinFails
<1>8. CASE ClosePipe \/ SetStopped \/ ReportStopped
  BY <1>8 DEF ClosePipe, SetStopped, ReportStopped
<1> QED
  BY <1>1, <1>2, <1>3, <1>4, <1>5, <1>6, <1>7, <1>8 DEF serviceMain

(* So does every step of watchIPC: it takes none once it has ended. *)
LEMMA WatchStep == IInv /\ watchIPC => IInv'
<1> SUFFICES ASSUME IInv, watchIPC PROVE IInv'
  OBVIOUS
<1> USE DEF IInv, NotStarted, DoneIsLast, Joined, HandlesOutliveThread, Ended,
            Set, mainVars, pipeVars, events, threadEvents
<1>1. CASE Connect
  BY <1>1 DEF Connect
<1>2. CASE BeginPrint \/ EndPrint \/ Signal
  BY <1>2 DEF BeginPrint, EndPrint, Signal
<1>3. CASE Disconnect
  BY <1>3 DEF Disconnect
<1>4. CASE WaitTimesOut \/ WaitTerm
  BY <1>4 DEF WaitTimesOut, WaitTerm
<1>5. CASE Done
  BY <1>5 DEF Done
<1> QED
  BY <1>1, <1>2, <1>3, <1>4, <1>5 DEF watchIPC

(* A client can make the pipe connected or closing, never closed. *)
LEMMA ClientStep == ASSUME NEW c \in Clients, IInv, Client(c) PROVE IInv'
<1> USE DEF IInv, NotStarted, DoneIsLast, Joined, HandlesOutliveThread, Ended,
            mainVars, watchVars, events, threadEvents, pipeVars
<1>1. CASE Open(c) \/ OpenFails(c) \/ SendRequest(c)
  BY <1>1 DEF Open, OpenFails, SendRequest
<1>2. CASE Receive(c) \/ Fail(c)
  BY <1>2 DEF Receive, Fail
<1>3. CASE Close(c) \/ Kill(c)
  BY <1>3 DEF Close, Kill, Hangup, ConnectedTo
<1> QED
  BY <1>1, <1>2, <1>3 DEF Client

(* The invariant of the handshake holds in every run.                       *)
LEMMA HandshakeHolds == Spec => []IInv
<1>1. IInv /\ [Next]_vars => IInv'
  <2> SUFFICES ASSUME IInv, [Next]_vars PROVE IInv'
    OBVIOUS
  <2>1. CASE StopRequested \/ serviceCtrlHandlerEx
    BY <2>1 DEF StopRequested, serviceCtrlHandlerEx, IInv, NotStarted, DoneIsLast, Joined,
                HandlesOutliveThread, Ended, mainVars, watchVars, threadEvents, events, pipeVars
  <2>2. CASE UNCHANGED vars
    BY <2>2 DEF vars, IInv, NotStarted, DoneIsLast, Joined, HandlesOutliveThread, Ended,
                mainVars, watchVars, threadEvents, events, pipeVars
  <2> QED
    BY <2>1, <2>2, MainStep, WatchStep, ClientStep DEF Next
<1> QED
  BY InitIInv, <1>1, PTL DEF Spec

(* cleanUpIPC closes the pipe and the events of watchIPC only after that   *)
(* thread has returned or has been terminated, whatever clients and the    *)
(* SCM do meanwhile, unless threadDoneEvent could not be created.          *)
THEOREM HandlesSafe == Spec => []HandlesOutliveThread
<1>1. IInv => HandlesOutliveThread
  BY DEF IInv
<1> QED
  BY HandshakeHolds, <1>1, PTL

----------------------------------------------------------------------------
(***************************************************************************)
(* Types                                                                   *)
(***************************************************************************)

(* handleIPC has a request exactly between reading and answering it. *)
Serving == main \in {"mount", "respond"} <=> serving # NoClient

TypeInv == TypeOK /\ Serving

(* Every step of serviceMain keeps the types. *)
LEMMA MainTypes == TypeInv /\ serviceMain => TypeInv'
<1> SUFFICES ASSUME TypeInv, serviceMain PROVE TypeInv'
  OBVIOUS
<1> USE DEF TypeInv, TypeOK, Serving, Goto, SetServiceStatus, Created, Set, Shut, Event, State,
            ctrlVars, watchVars, threadEvents, events, buffers, pipeVars, clientVars
<1>1. CASE Start \/ CreatePipe \/ SetUpIPCFails
  BY <1>1 DEF Start, CreatePipe, SetUpIPCFails
<1>2. CASE StartThread \/ CreateEvents \/ SetRunning
  BY <1>2 DEF StartThread, CreateEvents, SetRunning
<1>3. CASE WaitStop \/ WaitIPC \/ WaitFails \/ ReadFails
  BY <1>3 DEF WaitStop, WaitIPC, WaitFails, ReadFails
<1>4. CASE ReadRequest
  <2>1. Head(toServer) \in Clients /\ Tail(toServer) \in Seq(Clients)
    BY <1>4 DEF ReadRequest
  <2> QED
    BY <1>4, <2>1, NoClientIsNone DEF ReadRequest
<1>5. CASE Mount \/ ResetEvent
  BY <1>5 DEF Mount, ResetEvent
<1>6. CASE Respond
  <2>1. Append(toClient, serving) \in Seq(Clients)
    BY <1>6 DEF Respond
  <2> QED
    BY <1>6, <2>1 DEF Respond
<1>7. CASE CloseEvents \/ SignalTerm \/ Join
  BY <1>7 DEF CloseEvents, SignalTerm, Join
<1>8. CASE JoinTimesOut \/ JoinFails
  BY <1>8 DEF JoinTimesOut, JoinFails
<1>9. CASE ClosePipe \/ SetStopped \/ ReportStopped
  BY <1>9 DEF ClosePipe, SetStopped, ReportStopped
<1> QED
  BY <1>1, <1>2, <1>3, <1>4, <1>5, <1>6, <1>7, <1>8, <1>9 DEF serviceMain

(* So does every step of watchIPC and of the control handler. *)
LEMMA ThreadTypes ==
    TypeInv /\ (watchIPC \/ StopRequested \/ serviceCtrlHandlerEx) => TypeInv'
<1> SUFFICES ASSUME TypeInv, watchIPC \/ StopRequested \/ serviceCtrlHandlerEx PROVE TypeInv'
  OBVIOUS
<1> USE DEF TypeInv, TypeOK, Serving, SetServiceStatus, Set, Event, State, mainVars, ctrlVars,
            watchVars, threadEvents, events, buffers, pipeVars, clientVars
<1>1. CASE Connect
  BY <1>1 DEF Connect
<1>2. CASE BeginPrint
  BY <1>2 DEF BeginPrint
<1>7. CASE EndPrint
  <2>1. watch' \in {"signal", "disconnect", "wait"}
    BY <1>7 DEF EndPrint
  <2>2. stdoutLocked' \in BOOLEAN
    BY <1>7, Zenon DEF EndPrint
  <2>3. UNCHANGED <<mainVars, ctrlVars, news, events, pipeVars, clientVars>>
    BY <1>7, Zenon DEF EndPrint
  <2> QED
    BY <2>1, <2>2, <2>3
<1>6. CASE Signal
  BY <1>6 DEF Signal
<1>3. CASE Disconnect
  <2>1. <<>> \in Seq(Clients)
    OBVIOUS
  <2>2. CASE pipe = "closed"
    BY <1>3, <2>2 DEF Disconnect
  <2>3. CASE pipe # "closed"
    BY <1>3, <2>1, <2>3 DEF Disconnect
  <2> QED
    BY <2>2, <2>3
<1>5. CASE WaitTimesOut \/ WaitTerm \/ Done
  BY <1>5 DEF WaitTimesOut, WaitTerm, Done
<1>4. CASE StopRequested \/ serviceCtrlHandlerEx
  BY <1>4 DEF StopRequested, serviceCtrlHandlerEx
<1> QED
  BY <1>1, <1>2, <1>3, <1>4, <1>5, <1>6, <1>7 DEF watchIPC

(* So does every step of a client. *)
LEMMA ClientTypes == ASSUME NEW c \in Clients, TypeInv, Client(c) PROVE TypeInv'
<1> USE DEF TypeInv, TypeOK, Serving, State, Become, mainVars, ctrlVars, watchVars, events,
            threadEvents, buffers, pipeVars
<1>1. CASE Open(c) \/ OpenFails(c) \/ Fail(c)
  BY <1>1 DEF Open, OpenFails, Fail
<1>2. CASE SendRequest(c)
  <2>1. Append(toServer, c) \in Seq(Clients)
    OBVIOUS
  <2> QED
    BY <1>2, <2>1 DEF SendRequest
<1>3. CASE Receive(c)
  <2>1. Head(toClient) \in Clients /\ Tail(toClient) \in Seq(Clients)
    BY <1>3 DEF Receive
  <2> QED
    BY <1>3, <2>1 DEF Receive
<1>4. CASE Close(c) \/ Kill(c)
  BY <1>4 DEF Close, Kill, Hangup
<1> QED
  BY <1>1, <1>2, <1>3, <1>4 DEF Client

(* Every variable of the service and of its clients keeps its type; in     *)
(* particular what is in the pipe is always a request of some client.      *)
THEOREM ServiceTypes == Spec => []TypeInv
<1>1. Init => TypeInv
  <2>1. <<>> \in Seq(Clients)
    OBVIOUS
  <2> QED
    BY <2>1 DEF Init, TypeInv, TypeOK, Serving, Event, State
<1>2. TypeInv /\ [Next]_vars => TypeInv'
  <2> SUFFICES ASSUME TypeInv, UNCHANGED vars PROVE TypeInv'
    BY MainTypes, ThreadTypes, ClientTypes DEF Next
  <2> QED
    BY DEF vars, TypeInv, TypeOK, Serving, Event, State, mainVars, ctrlVars, watchVars, events,
           threadEvents, buffers, pipeVars, clientVars
<1> QED
  BY <1>1, <1>2, PTL DEF Spec

(* The type invariant that the run checks. *)
THEOREM TypeCorrect == Spec => []TypeOK
<1>1. TypeInv => TypeOK
  BY DEF TypeInv
<1> QED
  BY <1>1, ServiceTypes, PTL

----------------------------------------------------------------------------
(***************************************************************************)
(* The status reported to the SCM                                          *)
(***************************************************************************)
Starting == {"create_pipe", "create_thread", "create_events", "set_running"}
Serves == {"read", "mount", "respond", "reset"}
Stopping == {"close_events", "signal_term", "join", "close_pipe", "set_stopped"}

(* Where serviceMain is determines what `status' and the SCM may say. *)
Phases ==
    /\ main = "start" => status = "STOPPED" /\ reported = "STOPPED"
    /\ main \in Starting => status = "START_PENDING" /\ reported = "START_PENDING"
    /\ main \in Starting \cup {"start"} => handler = "idle" /\ stopEvent # "set"
    /\ main \in Serves \cup Stopping \cup {"wait"} =>
          {status, reported} \subseteq {"RUNNING", "STOP_PENDING"}
    /\ main = "report" => status \in {"STOPPED", "STOP_PENDING"} /\ reported # "START_PENDING"
    /\ main = "returned" => (status = "START_PENDING" <=> reported = "START_PENDING")
    /\ handler # "idle" => status # "START_PENDING" /\ reported # "START_PENDING"
    /\ handler = "report" => status \in {"STOP_PENDING", "STOPPED"}
    /\ main = "returned" => status # "RUNNING" /\ reported # "RUNNING"

(* serviceMain closes everything before it sets `status' to STOPPED. *)
Closing ==
    /\ main \in {"signal_term", "join", "close_pipe"} => Closed(stopEvent) /\ Closed(ipcEvent)
    /\ main \in {"set_stopped", "report"} => CleanedUp
    /\ main = "returned" => status = "START_PENDING" \/ CleanedUp

(* With every event of the main loop at hand, serviceMain leaves that loop *)
(* only after the handler has returned.                                    *)
Asked ==
    /\ main \in Stopping => status = "STOP_PENDING" /\ reported = "STOP_PENDING"
    /\ main = "report" => status = "STOPPED" /\ reported = "STOP_PENDING"
    /\ main \in Stopping \cup {"report", "returned"} => handler = "idle" /\ stopEvent # "set"
    /\ handler = "called" => status = "RUNNING" /\ reported = "RUNNING" /\ stopEvent # "set"
    /\ handler = "report" => status = "STOP_PENDING" /\ reported = "RUNNING" /\ stopEvent # "set"
    /\ handler = "last_call" =>
          status = "STOP_PENDING" /\ reported = "STOP_PENDING" /\ stopEvent # "set"
    /\ stopEvent = "set" =>
          status = "STOP_PENDING" /\ reported = "STOP_PENDING" /\ handler = "idle"
    /\ handler = "idle" /\ reported = "RUNNING" => status = "RUNNING"

(* An event that is missing is missed at the first wait. *)
StatusInv ==
    /\ Phases /\ Closing
    /\ EventMissing => main \notin Serves
    /\ EventMissing \/ Asked

Forward ==
    reported' # reported =>
        \/ Rank[reported'] = Rank[reported] + 1
        \/ /\ reported' = "STOPPED" /\ CleanedUp'
           /\ reported = "STOP_PENDING" \/ EventMissing
        \/ /\ reported = "STOPPED" /\ reported' = "STOP_PENDING"
           /\ CleanedUp /\ EventMissing

(* The order of the states. *)
LEMMA Ranks ==
    /\ Rank["STOPPED"] = 0 /\ Rank["START_PENDING"] = 1
    /\ Rank["RUNNING"] = 2 /\ Rank["STOP_PENDING"] = 3
  BY DEF Rank, State

(* serviceMain keeps what the status says. *)
LEMMA MainStatus == TypeOK /\ StatusInv /\ serviceMain => StatusInv' /\ Forward
<1> SUFFICES ASSUME TypeOK, StatusInv, serviceMain PROVE StatusInv' /\ Forward
  OBVIOUS
<1> USE DEF StatusInv, Phases, Closing, Asked, Forward, Starting, Serves, Stopping, EventMissing,
            Goto, SetServiceStatus, Created, Set, Shut, ctrlVars, events, threadEvents
<1>1. CASE Start \/ SetRunning
  BY <1>1, Ranks DEF Start, SetRunning
<1>2. CASE CreatePipe \/ SetUpIPCFails \/ StartThread \/ CreateEvents
  BY <1>2 DEF CreatePipe, SetUpIPCFails, StartThread, CreateEvents
<1>3. CASE WaitStop
  BY <1>3 DEF WaitStop
<1>4. CASE WaitIPC \/ WaitFails
  BY <1>4 DEF WaitIPC, WaitFails
<1>5. CASE ReadRequest \/ ReadFails \/ Mount \/ Respond
  BY <1>5 DEF ReadRequest, ReadFails, Mount, Respond
<1>6. CASE ResetEvent
  BY <1>6 DEF ResetEvent
<1>7. CASE CloseEvents
  BY <1>7 DEF CloseEvents, Closed
<1>8. CASE SignalTerm \/ Join \/ JoinTimesOut \/ JoinFails
  BY <1>8 DEF SignalTerm, Join, JoinTimesOut, JoinFails
<1>9. CASE ClosePipe
  BY <1>9 DEF ClosePipe, CleanedUp, Closed
<1>10. CASE SetStopped
  <2>1. CleanedUp /\ CleanedUp'
    BY <1>10 DEF SetStopped, CleanedUp, pipeVars
  <2> QED
    BY <1>10, <2>1 DEF SetStopped
<1>11. CASE ReportStopped
  <2>1. CleanedUp /\ CleanedUp'
    BY <1>11 DEF ReportStopped, CleanedUp, pipeVars
  <2>2. Phases' /\ Closing' /\ (EventMissing => main' \notin Serves) /\ (EventMissing \/ Asked')
    BY <1>11, <2>1 DEF ReportStopped
  <2>3. Forward
    BY <1>11, <2>1, Ranks DEF ReportStopped, TypeOK, State
  <2>4. EventMissing' <=> EventMissing
    BY <1>11 DEF ReportStopped
  <2> QED
    BY <2>2, <2>3, <2>4
<1> QED
  BY <1>1, <1>2, <1>3, <1>4, <1>5, <1>6, <1>7, <1>8, <1>9, <1>10, <1>11 DEF serviceMain

(* So does the control handler, also one that is late. *)
LEMMA HandlerStatus ==
    TypeOK /\ StatusInv /\ (StopRequested \/ serviceCtrlHandlerEx) => StatusInv' /\ Forward
<1> SUFFICES ASSUME TypeOK, StatusInv, StopRequested \/ serviceCtrlHandlerEx
             PROVE  StatusInv' /\ Forward
  OBVIOUS
<1>1. /\ UNCHANGED <<main, ipcEvent, threadEvents, pipe>>
      /\ EventMissing' <=> EventMissing
      /\ CleanedUp' <=> CleanedUp
      /\ Closed(stopEvent') <=> Closed(stopEvent)
  BY DEF StopRequested, serviceCtrlHandlerEx, mainVars, events, threadEvents, pipeVars,
         EventMissing, Set, CleanedUp, Closed
<1>2. main \notin Starting \cup {"start"}
  BY DEF StopRequested, serviceCtrlHandlerEx, StatusInv, Phases, Starting
<1>3. Closing'
  <2>1. main = "returned" => CleanedUp /\ status' # "START_PENDING"
    BY DEF StopRequested, serviceCtrlHandlerEx, StatusInv, Phases, Closing
  <2> QED
    BY <1>1, <2>1 DEF StatusInv, Closing
<1>4. Phases'
  BY <1>1, <1>2 DEF StopRequested, serviceCtrlHandlerEx, SetServiceStatus, StatusInv, Phases,
                    Starting, Serves, Stopping, TypeOK, State
<1>5. EventMissing \/ Asked'
  BY <1>1, <1>2 DEF StopRequested, serviceCtrlHandlerEx, SetServiceStatus, Set, events,
                    StatusInv, Phases, Asked, Starting, Serves, Stopping, TypeOK, State
<1>6. Forward
  <2>1. status = "STOPPED" \/ reported = "STOPPED" => CleanedUp
    BY <1>2 DEF StatusInv, Phases, Closing, Starting, Serves, Stopping, TypeOK, State
  <2>2. EventMissing => Forward
    BY <1>1, <1>2, <2>1, Ranks
    DEF StopRequested, serviceCtrlHandlerEx, SetServiceStatus, StatusInv, Phases, Forward, TypeOK,
        State
  <2>3. Asked => Forward
    BY <1>1, Ranks DEF StopRequested, serviceCtrlHandlerEx, SetServiceStatus, Asked, Forward
  <2> QED
    BY <2>2, <2>3 DEF StatusInv
<1> QED
  BY <1>1, <1>3, <1>4, <1>5, <1>6 DEF StatusInv

(* The watcher and the clients leave it alone. *)
LEMMA OtherStatus ==
    ASSUME TypeOK, StatusInv, watchIPC \/ (\E c \in Clients : Client(c)) \/ UNCHANGED vars
    PROVE  StatusInv' /\ Forward
<1>1. /\ UNCHANGED <<main, handler, status, reported, stopEvent>>
      /\ ipcEvent' \in {ipcEvent, Set(ipcEvent)}
  BY DEF watchIPC, Connect, BeginPrint, EndPrint, Signal, Disconnect, WaitTimesOut, WaitTerm, Done,
         Client, Open, OpenFails, SendRequest, Receive, Close, Fail, Kill, vars, mainVars,
         ctrlVars, events
<1>2. CleanedUp => CleanedUp'
  <2> SUFFICES ASSUME CleanedUp PROVE CleanedUp'
    OBVIOUS
  <2>1. pipe' = "closed"
    BY DEF watchIPC, Connect, BeginPrint, EndPrint, Signal, Disconnect, WaitTimesOut, WaitTerm,
           Done, Client, Open, OpenFails, SendRequest, Receive, Close, Fail, Kill, Hangup,
           ConnectedTo, vars, pipeVars, CleanedUp
  <2>2. threadTermEvent' = threadTermEvent
    BY DEF watchIPC, Connect, BeginPrint, EndPrint, Signal, Disconnect, WaitTimesOut, WaitTerm,
           Done, Client, Open, OpenFails, SendRequest, Receive, Close, Fail, Kill, vars, events,
           threadEvents, CleanedUp, Closed
  <2>3. threadDoneEvent' \in {threadDoneEvent, Set(threadDoneEvent)}
    BY DEF watchIPC, Connect, BeginPrint, EndPrint, Signal, Disconnect, WaitTimesOut, WaitTerm,
           Done, Client, Open, OpenFails, SendRequest, Receive, Close, Fail, Kill, vars, events,
           threadEvents
  <2> QED
    BY <1>1, <2>1, <2>2, <2>3 DEF CleanedUp, Closed, Set
<1>3. (EventMissing' <=> EventMissing) /\ (Closed(ipcEvent) => Closed(ipcEvent'))
  BY <1>1 DEF EventMissing, Set, Closed
<1>4. Phases' /\ Closing'
  BY <1>1, <1>2, <1>3 DEF StatusInv, Phases, Closing
<1>5. EventMissing \/ Asked'
  BY <1>1 DEF StatusInv, Asked
<1> QED
  BY <1>1, <1>3, <1>4, <1>5 DEF StatusInv, Forward

(* Two threads report to the SCM; what they report moves forward, and      *)
(* STOPPED is reported only once everything has been closed.               *)
THEOREM StatusMovesForward == Spec => StatusForward
<1>1. Init => StatusInv
  BY DEF Init, StatusInv, Phases, Closing, Asked, EventMissing, Starting, Serves, Stopping
<1>2. TypeInv /\ StatusInv /\ [Next]_vars => StatusInv' /\ Forward
  BY MainStatus, HandlerStatus, OtherStatus DEF Next, TypeInv
<1>3. TypeInv /\ StatusInv /\ [Next]_vars => StatusInv'
  BY <1>2
<1>4. TypeInv /\ StatusInv /\ [Next]_vars => [Forward]_vars
  BY <1>2
<1> QED
  BY <1>1, <1>3, <1>4, ServiceTypes, PTL DEF Spec, StatusForward, Forward

----------------------------------------------------------------------------
(***************************************************************************)
(* Responses                                                               *)
(***************************************************************************)
In(c, s) == \E k \in DOMAIN s : s[k] = c

Once(s) == \A i, j \in DOMAIN s : s[i] = s[j] => i = j

Received(c) == \E d \in Clients : answer[d] = c

(* A client whose request or response is on its way waits for it, or will  *)
(* not be there to read it.                                                *)
Kept(c) == Astray(c) \/ (c = peer /\ client[c] = "waiting")

AllKept ==
    \A c \in Clients :
        In(c, toClient) \/ (pipe # "closed" /\ (In(c, toServer) \/ serving = c)) => Kept(c)

(* The request of a client is in one place only: before the service, in    *)
(* it, on the way back as its response, or received; and in none before    *)
(* the client has sent it.                                                 *)
InOnePlace ==
    /\ Once(toServer) /\ Once(toClient)
    /\ \A c \in Clients :
          /\ ~(In(c, toServer) /\ (serving = c \/ In(c, toClient) \/ Received(c)))
          /\ ~(serving = c /\ (In(c, toClient) \/ Received(c)))
          /\ ~(In(c, toClient) /\ Received(c))
          /\ client[c] \in {"idle", "open"} =>
                ~In(c, toServer) /\ serving # c /\ ~In(c, toClient) /\ ~Received(c)

(* Only the client at the other end of the pipe is still to be answered,   *)
(* and watchIPC disconnects the pipe only after that client is gone.       *)
OnePeer ==
    /\ \A c \in Clients : client[c] \in {"open", "waiting"} =>
          peer = c /\ pipe \in {"connected", "closed"}
    /\ \A c \in Clients : client[c] \in {"idle", "open", "waiting"} => answer[c] = NoClient
    /\ watch = "disconnect" \/ (watch \in {"log", "printing"} /\ news = "no_data") =>
          pipe \in {"closing", "closed"}

ResponseInv == AllKept /\ InOnePlace /\ OnePeer /\ OwnResponse

(* Adding to a sequence, and taking its head. *)
LEMMA Added ==
    ASSUME NEW s \in Seq(Clients), NEW c \in Clients
    PROVE  /\ Append(s, c) \in Seq(Clients)
           /\ \A d : In(d, Append(s, c)) <=> In(d, s) \/ d = c
           /\ Once(s) /\ ~In(c, s) => Once(Append(s, c))
<1>1. /\ DOMAIN Append(s, c) = 1..Len(s) + 1 /\ DOMAIN s = 1..Len(s)
      /\ Append(s, c)[Len(s) + 1] = c /\ Len(s) \in Nat
      /\ \A k \in 1..Len(s) : Append(s, c)[k] = s[k]
      /\ Append(s, c) \in Seq(Clients)
  OBVIOUS
<1>2. \A k \in 1..Len(s) + 1 : k \in 1..Len(s) \/ k = Len(s) + 1
  BY <1>1
<1>3. 1..Len(s) \subseteq 1..Len(s) + 1 /\ Len(s) + 1 \in 1..Len(s) + 1
  BY <1>1
<1> QED
  BY <1>1, <1>2, <1>3, Zenon DEF In, Once

LEMMA Taken ==
    ASSUME NEW s \in Seq(Clients), s # <<>>, Once(s)
    PROVE  /\ Head(s) \in Clients /\ Tail(s) \in Seq(Clients)
           /\ In(Head(s), s) /\ Once(Tail(s))
           /\ \A d : In(d, Tail(s)) <=> In(d, s) /\ d # Head(s)
<1>1. /\ DOMAIN s = 1..Len(s) /\ Len(s) \in Nat \ {0} /\ Head(s) = s[1]
      /\ DOMAIN Tail(s) = 1..Len(s) - 1
      /\ \A k \in 1..Len(s) - 1 : Tail(s)[k] = s[k + 1]
      /\ Head(s) \in Clients /\ Tail(s) \in Seq(Clients)
  OBVIOUS
<1>2. In(Head(s), s)
  BY <1>1 DEF In
<1>3. Once(Tail(s))
  <2> SUFFICES ASSUME NEW i \in 1..Len(s) - 1, NEW j \in 1..Len(s) - 1, s[i + 1] = s[j + 1]
               PROVE  i = j
    BY <1>1 DEF Once
  <2>1. i + 1 \in 1..Len(s) /\ j + 1 \in 1..Len(s)
    BY <1>1
  <2>2. i + 1 = j + 1
    BY <1>1, <2>1 DEF Once
  <2> QED
    BY <2>2
<1>4. ASSUME NEW d, In(d, Tail(s))
      PROVE  In(d, s) /\ d # Head(s)
  <2>1. PICK k \in 1..Len(s) - 1 : s[k + 1] = d
    BY <1>1, <1>4 DEF In
  <2>2. k + 1 \in 1..Len(s) /\ 1 \in 1..Len(s) /\ k + 1 # 1
    BY <1>1
  <2> QED
    BY <1>1, <2>1, <2>2 DEF In, Once
<1>5. ASSUME NEW d, In(d, s), d # Head(s)
      PROVE  In(d, Tail(s))
  <2>1. PICK k \in 1..Len(s) : s[k] = d
    BY <1>1, <1>5 DEF In
  <2>2. k - 1 \in 1..Len(s) - 1 /\ k = (k - 1) + 1
    BY <1>1, <1>5, <2>1
  <2> QED
    BY <1>1, <2>1, <2>2 DEF In
<1> QED
  BY <1>1, <1>2, <1>3, <1>4, <1>5

(* Nothing is in a sequence that is empty. *)
LEMMA Empty == Once(<<>>) /\ \A c : ~In(c, <<>>)
  BY DEF Once, In

(* The steps of serviceMain, of which those of handleIPC pass a request on. *)
LEMMA MainResponses == TypeInv /\ IInv /\ ResponseInv /\ serviceMain => ResponseInv'
<1> SUFFICES ASSUME TypeInv, IInv, ResponseInv, serviceMain PROVE ResponseInv'
  OBVIOUS
<1>0. AllKept /\ InOnePlace /\ OnePeer /\ OwnResponse /\ TypeOK /\ Serving /\ NotStarted
  BY DEF ResponseInv, TypeInv, IInv
<1>1. UNCHANGED <<client, answer, peer, news>>
  BY DEF serviceMain, Start, CreatePipe, SetUpIPCFails, StartThread, CreateEvents, SetRunning,
         WaitStop, WaitIPC, WaitFails, ReadRequest, ReadFails, Mount, Respond, ResetEvent,
         CloseEvents, SignalTerm, Join, JoinTimesOut, JoinFails, ClosePipe, SetStopped,
         ReportStopped, watchVars, pipeVars, clientVars
<1>2. OwnResponse'
  BY <1>0, <1>1 DEF OwnResponse, Astray
<1>3. \A c \in Clients : (Kept(c)' <=> Kept(c)) /\ (Received(c)' <=> Received(c))
  BY <1>1 DEF Kept, Astray, Received
<1>4. CASE UNCHANGED <<serving, toServer, toClient, pipe, watch>>
  BY <1>0, <1>1, <1>2, <1>3, <1>4 DEF ResponseInv, AllKept, InOnePlace, OnePeer
<1>5. CASE CreatePipe
  BY <1>0, <1>1, <1>2, <1>3, <1>5
  DEF CreatePipe, watchVars, buffers, NotStarted, ResponseInv, AllKept, InOnePlace, OnePeer
<1>6. CASE StartThread \/ JoinTimesOut
  BY <1>0, <1>1, <1>2, <1>3, <1>6
  DEF StartThread, JoinTimesOut, pipeVars, buffers, ResponseInv, AllKept, InOnePlace, OnePeer
<1>7. CASE ClosePipe
  BY <1>0, <1>1, <1>2, <1>3, <1>7
  DEF ClosePipe, watchVars, buffers, ResponseInv, AllKept, InOnePlace, OnePeer
<1>8. CASE ReadRequest
  <2>1. /\ toServer \in Seq(Clients) /\ toServer # <<>> /\ Once(toServer) /\ serving = NoClient
        /\ serving' = Head(toServer) /\ toServer' = Tail(toServer)
        /\ UNCHANGED <<watch, pipe, toClient>>
    BY <1>0, <1>8 DEF ReadRequest, TypeOK, Serving, InOnePlace, watchVars
  <2>2. /\ serving' \in Clients /\ In(serving', toServer) /\ Once(toServer')
        /\ \A d : In(d, toServer') <=> In(d, toServer) /\ d # serving'
    BY <2>1, Taken
  <2>3. \A c \in Clients : In(c, toClient)' <=> In(c, toClient)
    BY <2>1 DEF In
  <2>4. AllKept'
    BY <1>0, <1>3, <2>1, <2>2, <2>3 DEF AllKept
  <2>5. InOnePlace'
    BY <1>0, <1>1, <1>3, <2>1, <2>2, <2>3 DEF InOnePlace
  <2> QED
    BY <1>0, <1>1, <1>2, <2>1, <2>4, <2>5 DEF ResponseInv, OnePeer
<1>9. CASE Respond
  <2>1. /\ serving \in Clients /\ toClient \in Seq(Clients) /\ serving' = NoClient
        /\ toClient' = IF pipe = "connected" THEN Append(toClient, serving) ELSE toClient
        /\ UNCHANGED <<watch, pipe, toServer>>
    BY <1>0, <1>9 DEF Respond, TypeOK, Serving, watchVars
  <2>2. \A c \in Clients : serving' # c
    BY <2>1, NoClientIsNone
  <2>3. Once(toClient) /\ ~In(serving, toClient)
    BY <1>0, <2>1 DEF InOnePlace
  <2>4. /\ Once(toClient')
        /\ \A d : In(d, toClient') => In(d, toClient) \/ (pipe = "connected" /\ d = serving)
    BY <2>1, <2>3, Added
  <2>5. AllKept'
    BY <1>0, <1>3, <2>1, <2>2, <2>4 DEF AllKept
  <2>6. InOnePlace'
    BY <1>0, <1>1, <1>3, <2>1, <2>2, <2>4 DEF InOnePlace
  <2> QED
    BY <1>0, <1>1, <1>2, <2>1, <2>5, <2>6 DEF ResponseInv, OnePeer
<1> QED
  BY <1>4, <1>5, <1>6, <1>7, <1>8, <1>9
  DEF serviceMain, Start, SetUpIPCFails, CreateEvents, SetRunning, WaitStop, WaitIPC, WaitFails,
      ReadFails, Mount, ResetEvent, CloseEvents, SignalTerm, Join, JoinFails, SetStopped,
      ReportStopped, watchVars, pipeVars, buffers

(* The steps of watchIPC: it disconnects a client that is gone. *)
LEMMA WatchResponses == TypeInv /\ IInv /\ ResponseInv /\ watchIPC => ResponseInv'
<1> SUFFICES ASSUME TypeInv, IInv, ResponseInv, watchIPC PROVE ResponseInv'
  OBVIOUS
<1>0. AllKept /\ InOnePlace /\ OnePeer /\ OwnResponse /\ TypeOK
  BY DEF ResponseInv, TypeInv
<1>1. UNCHANGED <<client, answer, serving>>
  BY DEF watchIPC, Connect, BeginPrint, EndPrint, Signal, Disconnect, WaitTimesOut, WaitTerm,
         Done, mainVars, clientVars
<1>2. OwnResponse'
  BY <1>0, <1>1 DEF OwnResponse, Astray
<1>3. \A c \in Clients : (Astray(c)' <=> Astray(c)) /\ (Received(c)' <=> Received(c))
  BY <1>1 DEF Astray, Received
<1>4. ASSUME UNCHANGED <<peer, toServer, toClient>>, pipe = "closed" => pipe' = "closed"
      PROVE  AllKept' /\ InOnePlace'
  BY <1>0, <1>1, <1>3, <1>4 DEF AllKept, Kept, InOnePlace
<1>5. CASE Connect
  <2>1. UNCHANGED <<peer, toServer, toClient>> /\ (pipe = "closed" => pipe' = "closed")
    BY <1>5 DEF Connect, buffers
  <2>2. OnePeer'
    BY <1>0, <1>1, <1>5, <2>1 DEF Connect, IsDone, IsConnection, OnePeer
  <2> QED
    BY <1>2, <1>4, <2>1, <2>2 DEF ResponseInv
<1>6. CASE BeginPrint \/ EndPrint \/ Signal \/ WaitTimesOut \/ WaitTerm \/ Done
  <2>1. UNCHANGED <<pipe, peer, toServer, toClient, news>>
    BY <1>6 DEF BeginPrint, EndPrint, Signal, WaitTimesOut, WaitTerm, Done, pipeVars, buffers
  <2>2. watch' = "disconnect" \/ (watch' \in {"log", "printing"} /\ news = "no_data") =>
            watch \in {"log", "printing"} /\ news = "no_data"
    BY <1>6 DEF BeginPrint, EndPrint, Signal, WaitTimesOut, WaitTerm, Done
  <2>3. OnePeer'
    BY <1>0, <1>1, <2>1, <2>2 DEF OnePeer
  <2> QED
    BY <1>2, <1>4, <2>1, <2>3 DEF ResponseInv
<1>7. CASE Disconnect /\ pipe = "closed"
  <2>1. UNCHANGED <<pipe, peer, toServer, toClient, news>> /\ watch' = "wait"
    BY <1>7 DEF Disconnect, pipeVars, buffers
  <2>2. OnePeer'
    BY <1>0, <1>1, <2>1 DEF OnePeer
  <2> QED
    BY <1>2, <1>4, <2>1, <2>2 DEF ResponseInv
<1>8. CASE Disconnect /\ pipe # "closed"
  <2>1. pipe = "closing" /\ pipe' = "disconnected" /\ toServer' = <<>> /\ toClient' = <<>>
        /\ watch' = "wait"
    BY <1>0, <1>8 DEF Disconnect, OnePeer
  <2>2. \A c \in Clients : client[c] \notin {"open", "waiting"}
    BY <1>0, <2>1 DEF OnePeer
  <2>3. Once(toServer') /\ Once(toClient') /\ \A c : ~In(c, toServer') /\ ~In(c, toClient')
    BY <2>1, Empty
  <2>4. AllKept'
    BY <1>0, <1>1, <1>3, <2>1, <2>2, <2>3 DEF AllKept, Kept
  <2>5. InOnePlace'
    BY <1>0, <1>1, <1>3, <2>3 DEF InOnePlace
  <2>6. OnePeer'
    BY <1>0, <1>1, <2>1, <2>2 DEF OnePeer
  <2> QED
    BY <1>2, <2>4, <2>5, <2>6 DEF ResponseInv
<1> QED
  BY <1>5, <1>6, <1>7, <1>8 DEF watchIPC

(* The steps of the clients: one hangs up only after it has received a     *)
(* response or when it is killed, and sends only one request.              *)
LEMMA ClientResponses ==
    ASSUME NEW c \in Clients, TypeInv, ResponseInv, Client(c)
    PROVE  ResponseInv'
<1>0. AllKept /\ InOnePlace /\ OnePeer /\ OwnResponse /\ TypeOK
  BY DEF ResponseInv, TypeInv
<1>1. UNCHANGED <<serving, watch, news>>
  BY DEF Client, Open, OpenFails, SendRequest, Receive, Close, Fail, Kill, mainVars, watchVars
<1>2. /\ client \in [Clients -> {"idle", "open", "waiting", "answered", "gone", "killed"}]
      /\ answer \in [Clients -> Clients \cup {NoClient}]
      /\ toServer \in Seq(Clients) /\ toClient \in Seq(Clients)
  BY <1>0 DEF TypeOK
<1>3. /\ client' = [client EXCEPT ![c] = client'[c]]
      /\ \A d \in Clients \ {c} : client'[d] = client[d]
      /\ client[c] # "killed"
  BY <1>2 DEF Client, Open, OpenFails, SendRequest, Receive, Close, Fail, Kill, Become
<1>4. ASSUME UNCHANGED answer
      PROVE  /\ \A d \in Clients : Received(d)' <=> Received(d)
             /\ \A d \in Clients : Astray(d) => Astray(d)'
             /\ OwnResponse'
  <2>1. \A d \in Clients : Astray(d) => Astray(d)'
    BY <1>3, <1>4 DEF Astray
  <2> QED
    BY <1>0, <1>2, <1>4, <2>1 DEF OwnResponse, Received
<1>5. CASE Open(c)
  <2>1. /\ client[c] = "idle" /\ client'[c] = "open" /\ pipe = "listening"
        /\ pipe' = "connected" /\ peer' = c /\ UNCHANGED <<toServer, toClient, answer>>
    BY <1>2, <1>5 DEF Open, Become, buffers
  <2>2. \A d \in Clients : client[d] \notin {"open", "waiting"}
    BY <1>0, <2>1 DEF OnePeer
  <2>3. AllKept'
    BY <1>0, <1>1, <1>4, <2>1, <2>2 DEF AllKept, Kept
  <2>4. InOnePlace'
    BY <1>0, <1>1, <1>3, <1>4, <2>1 DEF InOnePlace
  <2>5. OnePeer'
    BY <1>0, <1>1, <1>3, <2>1, <2>2 DEF OnePeer
  <2> QED
    BY <1>4, <2>1, <2>3, <2>4, <2>5 DEF ResponseInv
<1>6. CASE SendRequest(c)
  <2>1. /\ client[c] = "open" /\ client'[c] = "waiting" /\ peer = c /\ pipe = "connected"
        /\ toServer' = Append(toServer, c) /\ UNCHANGED <<pipe, peer, toClient, answer>>
    BY <1>2, <1>6 DEF SendRequest, ConnectedTo, Become
  <2>2. ~In(c, toServer) /\ serving # c /\ ~In(c, toClient) /\ ~Received(c) /\ Once(toServer)
    BY <1>0, <2>1 DEF InOnePlace
  <2>3. Once(toServer') /\ \A d : In(d, toServer') <=> In(d, toServer) \/ d = c
    BY <1>2, <2>1, <2>2, Added
  <2>4. Kept(c)' /\ \A d \in Clients : Kept(d) => Kept(d)'
    BY <1>3, <1>4, <2>1 DEF Kept
  <2>5. AllKept'
    BY <1>0, <1>1, <2>1, <2>3, <2>4 DEF AllKept
  <2>6. InOnePlace'
    BY <1>0, <1>1, <1>3, <1>4, <2>1, <2>2, <2>3 DEF InOnePlace
  <2>7. OnePeer'
    BY <1>0, <1>1, <1>3, <2>1 DEF OnePeer
  <2> QED
    BY <1>4, <2>1, <2>5, <2>6, <2>7 DEF ResponseInv
<1>7. CASE Receive(c)
  <2>0. PICK r \in Clients : r = Head(toClient) /\ In(r, toClient)
    BY <1>0, <1>2, <1>7, Taken DEF Receive, InOnePlace
  <2>1. /\ client[c] = "waiting" /\ client'[c] = "answered" /\ peer = c /\ toClient # <<>>
        /\ answer' = [answer EXCEPT ![c] = r] /\ toClient' = Tail(toClient)
        /\ UNCHANGED <<pipe, peer, toServer>> /\ answer[c] = NoClient
    BY <1>0, <1>2, <1>7, <2>0 DEF Receive, Become, OnePeer
  <2>2. /\ In(r, toClient) /\ Once(toClient')
        /\ \A d : In(d, toClient') <=> In(d, toClient) /\ d # r
    BY <1>0, <1>2, <2>0, <2>1, Taken DEF InOnePlace
  <2>3. answer'[c] = r /\ \A d \in Clients \ {c} : answer'[d] = answer[d]
    BY <1>2, <2>1
  <2>4. \A d \in Clients : Received(d)' <=> Received(d) \/ d = r
    <3>1. \A d \in Clients : d # NoClient
      BY NoClientIsNone
    <3> QED
      BY <2>1, <2>3, <3>1 DEF Received
  <2>5. \A d \in Clients : Astray(d) => Astray(d)'
    BY <1>3, <2>1, <2>3 DEF Astray
  <2>6. r = c \/ (Astray(r) /\ Astray(r)')
    BY <1>0, <2>1, <2>2, <2>5 DEF AllKept, Kept
  <2>7. OwnResponse'
    <3>1. ASSUME NEW d \in Clients, NEW e \in Clients, answer'[d] = e, e # d
          PROVE  Astray(e)'
      <4>1. CASE d = c
        BY <2>3, <2>6, <3>1, <4>1
      <4>2. CASE d # c
        <5>1. answer[d] = e
          BY <2>3, <3>1, <4>2
        <5>2. e # NoClient
          BY NoClientIsNone
        <5>3. Astray(e)
          BY <1>0, <3>1, <5>1, <5>2 DEF OwnResponse
        <5> QED
          BY <2>5, <5>3
      <4> QED
        BY <4>1, <4>2
    <3>2. ~Received(r)
      BY <1>0, <2>2 DEF InOnePlace
    <3>3. \A d \in Clients : answer[d] # r
      BY <3>2 DEF Received
    <3>4. \A d \in Clients : answer'[d] \in Clients \cup {NoClient}
      BY <1>2, <2>3
    <3>5. \A d \in Clients : answer'[d] \in {d, NoClient} \/ Astray(answer[d])'
      BY <3>1, <3>4 DEF Astray
    <3>6. \A d, e \in Clients : answer'[d] = answer'[e] /\ answer'[d] # NoClient => d = e
      BY <1>0, <2>3, <3>3 DEF OwnResponse
    <3> QED
      BY <3>5, <3>6 DEF OwnResponse
  <2>8. \A d \in Clients \ {r} : Kept(d) => Kept(d)'
    <3>1. \A d \in Clients \ {r} : Kept(d) /\ d = c => Kept(d)'
      BY <1>2, <2>1, <2>2, <2>3, NoClientIsNone DEF Kept, Astray
    <3>2. \A d \in Clients \ {c} : Kept(d) => Kept(d)'
      BY <2>1, <2>5 DEF Kept
    <3> QED
      BY <3>1, <3>2
  <2>9. AllKept'
    <3>1. r # serving /\ ~In(r, toServer)
      BY <1>0, <2>2 DEF InOnePlace
    <3> QED
      BY <1>0, <1>1, <2>1, <2>2, <2>8, <3>1 DEF AllKept
  <2>10. InOnePlace'
    BY <1>0, <1>1, <1>3, <2>1, <2>2, <2>4 DEF InOnePlace
  <2>11. OnePeer'
    BY <1>0, <1>1, <1>3, <2>1, <2>3 DEF OnePeer
  <2> QED
    BY <2>7, <2>9, <2>10, <2>11 DEF ResponseInv
<1>8. CASE OpenFails(c) \/ Fail(c) \/ Close(c) \/ Kill(c)
  <2>1. /\ UNCHANGED <<peer, toServer, toClient, answer>> /\ client'[c] \in {"gone", "killed"}
        /\ pipe' # pipe => pipe = "connected" /\ pipe' = "closing" /\ peer = c
    BY <1>2, <1>8 DEF OpenFails, Fail, Close, Kill, Hangup, ConnectedTo, Become, pipeVars, buffers
  <2>2. AllKept'
    <3>1. Fail(c) => pipe = "closed" /\ toClient = <<>>
      BY <1>0 DEF Fail, Broken, OnePeer
    <3>2. CASE Fail(c)
      BY <1>1, <2>1, <3>1, <3>2, Empty DEF AllKept, Fail, pipeVars
    <3>3. CASE OpenFails(c) \/ Close(c) \/ Kill(c)
      <4>1. \A d \in Clients : Kept(d) => Kept(d)'
        <5>1. Kept(c) => Kept(c)'
          BY <1>2, <1>4, <2>1, <3>3 DEF OpenFails, Close, Kill, Become, Kept, Astray
        <5>2. \A d \in Clients \ {c} : Kept(d) => Kept(d)'
          BY <1>3, <1>4, <2>1 DEF Kept
        <5> QED
          BY <5>1, <5>2
      <4> QED
        BY <1>0, <1>1, <2>1, <4>1 DEF AllKept
    <3> QED
      BY <1>8, <3>2, <3>3
  <2>3. InOnePlace'
    BY <1>0, <1>1, <1>3, <1>4, <2>1 DEF InOnePlace
  <2>4. OnePeer'
    BY <1>0, <1>1, <1>3, <2>1 DEF OnePeer
  <2> QED
    BY <1>4, <2>1, <2>2, <2>3, <2>4 DEF ResponseInv
<1> QED
  BY <1>5, <1>6, <1>7, <1>8 DEF Client

(* A client receives the response to its own request or to that of one     *)
(* that went astray, and no response is received twice, however many       *)
(* clients there are and whichever of them are killed.                     *)
THEOREM ResponsesAreOwn == Spec => []OwnResponse
<1>1. Init => ResponseInv
  <2> SUFFICES ASSUME Init PROVE ResponseInv
    OBVIOUS
  <2>1. /\ Once(toServer) /\ Once(toClient) /\ serving = NoClient
        /\ \A c : ~In(c, toServer) /\ ~In(c, toClient)
    BY Empty DEF Init
  <2>2. \A c \in Clients : answer[c] = NoClient /\ client[c] = "idle" /\ c # NoClient
    BY NoClientIsNone DEF Init
  <2>3. AllKept /\ InOnePlace
    BY <2>1, <2>2 DEF AllKept, InOnePlace, Received
  <2> QED
    BY <2>2, <2>3 DEF Init, ResponseInv, OnePeer, OwnResponse
<1>2. TypeInv /\ IInv /\ ResponseInv /\ [Next]_vars => ResponseInv'
  <2> SUFFICES ASSUME TypeInv, IInv, ResponseInv, [Next]_vars PROVE ResponseInv'
    OBVIOUS
  <2>1. CASE StopRequested \/ serviceCtrlHandlerEx \/ UNCHANGED vars
    <3>1. UNCHANGED <<serving, watch, news, pipe, peer, toServer, toClient, client, answer>>
      BY <2>1 DEF StopRequested, serviceCtrlHandlerEx, vars, mainVars, watchVars, pipeVars,
                  buffers, clientVars
    <3> QED
      BY <3>1 DEF ResponseInv, AllKept, Kept, Astray, InOnePlace, Received, OnePeer, OwnResponse
  <2> QED
    BY <2>1, MainResponses, WatchResponses, ClientResponses DEF Next
<1>3. ResponseInv => OwnResponse
  BY DEF ResponseInv
<1> QED
  BY <1>1, <1>2, <1>3, ServiceTypes, HandshakeHolds, PTL DEF Spec

=============================================================================
