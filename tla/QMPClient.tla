----------------------------- MODULE QMPClient -----------------------------
(***************************************************************************)
(* The QMP client (internal/qmp/client.go): one connection to a QEMU,      *)
(* used by one goroutine that makes one call after the other, and the      *)
(* context.AfterFunc callbacks that run beside it.  Replies carry no id;   *)
(* events and replies share the stream.                                    *)
(*                                                                         *)
(* A line arrives in two parts, so that a read can end in the middle of    *)
(* it.  Calls are numbered; the number stands for the command.             *)
(***************************************************************************)
EXTENDS Naturals, Sequences, Functions

CONSTANTS
  EventNames,        \* names of asynchronous events
  MaxBufferedEvents, \* maxBufferedEvents
  MaxCalls,          \* bound: calls made on the connection
  MaxEvents          \* bound: events QEMU emits

ASSUME QMPAssumption ==
  /\ MaxBufferedEvents \in Nat \ {0}
  /\ MaxCalls \in Nat
  /\ MaxEvents \in Nat
  /\ "" \notin EventNames  \* the name a line has that is no event

VARIABLES
  pc,       \* where the goroutine is in NewClient, Execute or WaitForEvent
  call,     \* number of the call in progress; 0 is qmp_capabilities
  waiting,  \* the event name of a WaitForEvent, "" in an Execute
  onMain,   \* does the call run under the main context, or under a cleanupCtx?
  mainCtx,  \* the main context
  armed,    \* is an AfterFunc of the current call registered?
  running,  \* callbacks that have started and not yet set the deadline
  conn,     \* the connection
  deadline, \* its I/O deadline
  buf,      \* c.buf holds the first part of the line at the head of the stream
  events,   \* c.events
  stream,   \* lines QEMU has sent and the client has not read completely
  arrived,  \* parts of the line at its head that can be read
  cut,      \* the first part of the head of the stream has been read
  cmds,     \* commands QEMU has not answered
  owed,     \* was another line than an event still to come when the call was sent?
  got,      \* the line the last Execute returned
  emitted, delivered, dropped  \* events: count, and the two ways to leave

callVars == <<call, waiting, onMain>>
evtVars  == <<events, delivered, dropped>>
repVars  == <<owed, got>>
cbVars   == <<mainCtx, armed, running>>
ctxVars  == <<cbVars, deadline, conn>>
sockVars == <<stream, arrived, cut>>
qemuVars == <<sockVars, cmds, emitted>>
vars     == <<pc, buf, callVars, evtVars, repVars, ctxVars, qemuVars>>

Event(n, i) == [kind |-> "event", name |-> n, id |-> i]
Reply(i)    == [kind |-> "reply", name |-> "", id |-> i]
Greeting    == [kind |-> "greeting", name |-> "", id |-> 0]
NoLine      == [kind |-> "none", name |-> "", id |-> 0]

Lines == [kind : {"event", "reply", "greeting", "none"},
          name : EventNames \cup {""}, id : Nat]

Idle      == pc = "idle"
InCall    == pc \in {"write", "read", "stop", "clear"}
Executing == waiting = ""
CtxDone   == onMain /\ mainCtx # "live"

TypeOK ==
  /\ pc \in {"greet", "caps", "capsRead", "handshaken", "failed",
             "idle", "write", "read", "stop", "clear", "closed"}
  /\ call \in 0..MaxCalls
  /\ waiting \in EventNames \cup {""}
  /\ onMain \in BOOLEAN
  /\ mainCtx \in {"live", "cancelled", "expired"}
  /\ armed \in BOOLEAN
  /\ running \in Nat
  /\ conn \in {"open", "closed"}
  /\ deadline \in {"none", "future", "past"}
  /\ buf \in BOOLEAN
  /\ events \in Seq(Lines) /\ Len(events) <= MaxBufferedEvents
  /\ stream \in Seq(Lines)
  /\ arrived \in 0..2
  /\ cut \in BOOLEAN
  /\ cmds \in Seq(0..MaxCalls)
  /\ owed \in BOOLEAN
  /\ got \in Lines
  /\ emitted \in 0..MaxEvents
  /\ delivered \subseteq 1..MaxEvents
  /\ dropped \subseteq 1..MaxEvents

\* NewClient has dialled, registered its callback and set greetingTimeout.
\* QEMU sends a greeting, which may arrive late, or none.
Init ==
  /\ pc = "greet"
  /\ call = 0
  /\ waiting = ""
  /\ onMain = TRUE
  /\ mainCtx = "live"
  /\ armed = TRUE
  /\ running = 0
  /\ conn = "open"
  /\ deadline = "future"
  /\ buf = FALSE
  /\ events = <<>>
  /\ stream \in {<<>>, <<Greeting>>}
  /\ arrived = 0
  /\ cut = FALSE
  /\ cmds = <<>>
  /\ owed = FALSE
  /\ got = NoLine
  /\ emitted = 0
  /\ delivered = {}
  /\ dropped = {}

-----------------------------------------------------------------------------
(* readLine.                                                               *)

\* The parts of the stream's first line that are still in the socket.
PartsLeft == IF cut THEN 1 ELSE 2

LineReadable == stream # <<>> /\ arrived = PartsLeft

\* A complete line is returned and c.buf is empty again.  A line whose first
\* part was thrown away does not parse.
ReadLine ==
  /\ conn = "open"
  /\ LineReadable
  /\ stream' = Tail(stream)
  /\ arrived' = 0
  /\ cut' = FALSE
  /\ buf' = FALSE
  /\ UNCHANGED <<cmds, emitted>>

Parses == cut => buf

\* Mutant: the part read before an error is not kept.
ReadErrorForgets ==
  \/ UNCHANGED <<buf, arrived, cut>>
  \/ /\ arrived = 1 /\ ~cut /\ stream # <<>>
     /\ cut' = TRUE /\ arrived' = 0
     /\ UNCHANGED buf

\* A read that fails (the deadline, or the end of the stream) keeps in c.buf
\* what it has read of the line.
ReadError ==
  \/ UNCHANGED <<buf, arrived, cut>>
  \/ /\ arrived = 1 /\ ~cut /\ stream # <<>>
     /\ cut' = TRUE /\ buf' = TRUE /\ arrived' = 0

\* Mutant: the queue is not capped.
BufferEventUncapped(ev) == dropped' = dropped /\ events' = Append(events, ev)

\* bufferEvent: the queue is capped, the oldest event goes.
BufferEvent(ev) ==
  IF Len(events) >= MaxBufferedEvents
  THEN /\ dropped' = dropped \cup {Head(events).id}
       /\ events' = Append(Tail(events), ev)
  ELSE /\ dropped' = dropped
       /\ events' = Append(events, ev)

-----------------------------------------------------------------------------
(* NewClient.                                                              *)

Handshaking == pc \in {"greet", "caps", "capsRead", "handshaken"}

HandshakeFails ==
  /\ pc' = "failed"
  /\ conn' = "closed"
  /\ armed' = FALSE
  /\ UNCHANGED <<running, deadline, mainCtx>>

\* The greeting is read, or greetingTimeout passes, which is no error.
ReadGreeting ==
  /\ pc = "greet"
  /\ \/ /\ ReadLine
        /\ pc' = "caps"
        /\ UNCHANGED ctxVars
     \/ /\ conn = "open"
        /\ ReadError
        /\ pc' = "caps"
        /\ UNCHANGED <<ctxVars, stream, cmds, emitted>>
     \/ /\ HandshakeFails
        /\ UNCHANGED <<qemuVars, buf>>
  /\ UNCHANGED <<callVars, evtVars, repVars>>

WriteCapabilities ==
  /\ pc = "caps"
  /\ \/ /\ conn = "open"
        /\ cmds' = Append(cmds, 0)
        /\ pc' = "capsRead"
        /\ UNCHANGED ctxVars
     \/ HandshakeFails /\ UNCHANGED cmds
  /\ UNCHANGED <<sockVars, emitted, buf, callVars, evtVars, repVars>>

\* Whatever line comes next counts as the answer.
ReadCapabilities ==
  /\ pc = "capsRead"
  /\ \/ /\ ReadLine /\ Parses
        /\ pc' = "handshaken"
        /\ deadline' = "none"
        /\ UNCHANGED <<cbVars, conn>>
     \/ HandshakeFails /\ UNCHANGED <<qemuVars, buf>>
  /\ UNCHANGED <<callVars, evtVars, repVars>>

\* stop(): either the callback will never run, or NewClient fails.
StopHandshake ==
  /\ pc = "handshaken"
  /\ \/ /\ armed
        /\ pc' = "idle" /\ armed' = FALSE
        /\ UNCHANGED <<mainCtx, running, deadline, conn>>
     \/ ~armed /\ HandshakeFails
  /\ UNCHANGED <<qemuVars, buf, callVars, evtVars, repVars>>

-----------------------------------------------------------------------------
(* Execute and WaitForEvent.                                               *)

\* The deadline a call sets: its timeout, or the context's if that is sooner.
Expiry(main) == IF main /\ mainCtx = "expired" THEN "past" ELSE "future"

StartCall(main, name, at) ==
  /\ Idle /\ conn = "open" /\ call < MaxCalls
  /\ call' = call + 1
  /\ waiting' = name
  /\ onMain' = main
  /\ deadline' = Expiry(main)
  /\ armed' = TRUE
  /\ pc' = at
  /\ UNCHANGED <<mainCtx, running, conn>>

Execute(main) ==
  /\ StartCall(main, "", "write")
  /\ got' = NoLine
  /\ UNCHANGED <<buf, evtVars, owed, qemuVars>>

AnswerOwed == cmds # <<>> \/ \E line \in Range(stream) : line.kind # "event"

WriteCommand ==
  /\ pc = "write"
  /\ \/ /\ deadline # "past" /\ conn = "open"
        /\ owed' = AnswerOwed
        /\ cmds' = Append(cmds, call)
        /\ pc' = "read"
     \/ pc' = "stop" /\ UNCHANGED <<cmds, owed>>
  /\ UNCHANGED <<callVars, buf, evtVars, got, ctxVars, sockVars, emitted>>

\* Mutant: an event is buffered and then taken for the response.
ReadResponseFallsThrough ==
  /\ pc = "read" /\ Executing
  /\ ReadLine
  /\ IF Head(stream).kind = "event" THEN BufferEvent(Head(stream))
                                    ELSE UNCHANGED <<events, dropped>>
  /\ got' = Head(stream)
  /\ pc' = "stop"
  /\ UNCHANGED <<callVars, owed, delivered, ctxVars>>

\* Execute reads on until a line is no event.
ReadResponse ==
  /\ pc = "read" /\ Executing
  /\ ReadLine
  /\ LET line == Head(stream) IN
     \/ /\ Parses /\ line.kind = "event"
        /\ BufferEvent(line)
        /\ UNCHANGED <<pc, got>>
     \/ /\ Parses /\ line.kind # "event"
        /\ got' = line
        /\ pc' = "stop"
        /\ UNCHANGED <<events, dropped>>
     \/ ~Parses /\ pc' = "stop" /\ UNCHANGED <<got, events, dropped>>
  /\ UNCHANGED <<callVars, owed, delivered, ctxVars>>

\* Where the queue has an event of the name.
Buffered(name) == {i \in DOMAIN events : events[i].name = name}

\* Mutant: the last matching event of the queue is taken.
WaitForEventLast(main, name) ==
  \/ /\ Idle /\ call < MaxCalls
     /\ \E i \in Buffered(name) :
          /\ \A j \in Buffered(name) : j <= i
          /\ delivered' = delivered \cup {events[i].id}
          /\ events' = SubSeq(events, 1, i - 1) \o SubSeq(events, i + 1, Len(events))
     /\ call' = call + 1
     /\ UNCHANGED <<pc, waiting, onMain, buf, repVars, dropped, ctxVars,
                    qemuVars>>
  \/ /\ Buffered(name) = {}
     /\ StartCall(main, name, "read")
     /\ UNCHANGED <<buf, evtVars, repVars, qemuVars>>

\* The queue of buffered events is looked through first.
WaitForEvent(main, name) ==
  \/ /\ Idle /\ call < MaxCalls
     /\ \E i \in Buffered(name) :
          /\ \A j \in Buffered(name) : i <= j
          /\ delivered' = delivered \cup {events[i].id}
          /\ events' = SubSeq(events, 1, i - 1) \o SubSeq(events, i + 1, Len(events))
     /\ call' = call + 1
     /\ UNCHANGED <<pc, waiting, onMain, buf, repVars, dropped, ctxVars,
                    qemuVars>>
  \/ /\ Buffered(name) = {}
     /\ StartCall(main, name, "read")
     /\ UNCHANGED <<buf, evtVars, repVars, qemuVars>>

\* WaitForEvent passes over lines that are no events, and keeps other events.
ReadEvent ==
  /\ pc = "read" /\ ~Executing
  /\ ReadLine
  /\ LET line == Head(stream) IN
     \/ /\ Parses /\ line.name = waiting
        /\ delivered' = delivered \cup {line.id}
        /\ pc' = "stop"
        /\ UNCHANGED <<events, dropped>>
     \/ /\ Parses /\ line.kind = "event" /\ line.name # waiting
        /\ BufferEvent(line)
        /\ UNCHANGED <<pc, delivered>>
     \/ /\ Parses /\ line.kind # "event"
        /\ UNCHANGED <<pc, evtVars>>
     \/ ~Parses /\ pc' = "stop" /\ UNCHANGED evtVars
  /\ UNCHANGED <<callVars, repVars, ctxVars>>

\* The deadline passes, or the connection breaks.
ReadFails ==
  /\ pc = "read"
  /\ ReadError
  /\ pc' = "stop"
  /\ UNCHANGED <<callVars, evtVars, repVars, ctxVars, stream, cmds, emitted>>

\* Mutant: a callback that has started is not waited for.
StopCancelNoWait ==
  /\ pc = "stop"
  /\ armed' = FALSE
  /\ pc' = "clear"
  /\ UNCHANGED <<callVars, buf, evtVars, repVars, mainCtx, running, deadline,
                 conn, qemuVars>>

\* Mutant: callbackDone is waited for whether or not a callback was stopped.
StopCancelAlwaysWaits ==
  /\ pc = "stop"
  /\ ~armed /\ running = 0
  /\ pc' = "clear"
  /\ UNCHANGED <<callVars, buf, evtVars, repVars, ctxVars, qemuVars>>

\* The deferred calls, last in first out: stopCancel, or wait for callbackDone;
\* then the deadline is cleared.
StopCancel ==
  /\ pc = "stop"
  /\ armed \/ running = 0
  /\ armed' = FALSE
  /\ pc' = "clear"
  /\ UNCHANGED <<callVars, buf, evtVars, repVars, mainCtx, running, deadline,
                 conn, qemuVars>>

ClearDeadline ==
  /\ pc = "clear"
  /\ deadline' = "none"
  /\ pc' = "idle"
  /\ waiting' = "" /\ onMain' = TRUE /\ owed' = FALSE /\ got' = NoLine
  /\ UNCHANGED <<call, buf, evtVars, cbVars, conn, qemuVars>>

Close ==
  /\ Idle
  /\ pc' = "closed"
  /\ conn' = "closed"
  /\ UNCHANGED <<callVars, buf, evtVars, repVars, cbVars, deadline, qemuVars>>

-----------------------------------------------------------------------------
(* The callbacks, the context and QEMU.                                    *)

\* The context ends, and a registered callback starts: in the handshake it
\* closes the connection, in a call it will set the deadline to now.
Callback ==
  /\ armed /\ CtxDone
  /\ armed' = FALSE
  /\ IF Handshaking
     THEN conn' = "closed" /\ UNCHANGED running
     ELSE running' = running + 1 /\ UNCHANGED conn
  /\ UNCHANGED <<mainCtx, deadline, pc, buf, callVars, evtVars, repVars,
                 qemuVars>>

CallbackSetsDeadline ==
  /\ running > 0
  /\ running' = running - 1
  /\ deadline' = "past"
  /\ UNCHANGED <<mainCtx, armed, conn, pc, buf, callVars, evtVars, repVars,
                 qemuVars>>

MainCtxEnds ==
  /\ mainCtx = "live"
  /\ mainCtx' \in {"cancelled", "expired"}
  /\ UNCHANGED <<armed, running, deadline, conn, pc, buf, callVars, evtVars,
                 repVars, qemuVars>>

Sends(line) == stream' = Append(stream, line)

Answer ==
  /\ conn = "open" /\ cmds # <<>>
  /\ Sends(Reply(Head(cmds)))
  /\ cmds' = Tail(cmds)
  /\ UNCHANGED <<arrived, cut, emitted, pc, buf, callVars, evtVars, repVars,
                 ctxVars>>

\* QEMU sends events once it has answered qmp_capabilities.
Emit(name) ==
  /\ conn = "open"
  /\ pc \notin {"greet", "caps"} /\ 0 \notin Range(cmds)
  /\ emitted < MaxEvents
  /\ emitted' = emitted + 1
  /\ Sends(Event(name, emitted'))
  /\ UNCHANGED <<arrived, cut, cmds, pc, buf, callVars, evtVars, repVars,
                 ctxVars>>

Arrive ==
  /\ conn = "open"
  /\ stream # <<>> /\ arrived < PartsLeft
  /\ arrived' = arrived + 1
  /\ UNCHANGED <<stream, cut, cmds, emitted, pc, buf, callVars, evtVars,
                 repVars, ctxVars>>

-----------------------------------------------------------------------------
Calls == \E main \in BOOLEAN :
           Execute(main) \/ \E name \in EventNames : WaitForEvent(main, name)

ClientStep ==
  \/ ReadGreeting \/ WriteCapabilities \/ ReadCapabilities \/ StopHandshake
  \/ WriteCommand \/ ReadResponse \/ ReadEvent \/ ReadFails
  \/ StopCancel \/ ClearDeadline

CallbackStep == Callback \/ CallbackSetsDeadline

QemuStep ==
  \/ Answer \/ Arrive
  \/ \E name \in EventNames : Emit(name)

Next == Calls \/ ClientStep \/ Close \/ CallbackStep \/ MainCtxEnds \/ QemuStep

Spec == Init /\ [][Next]_vars

\* Calls return: reads and writes carry a deadline, callbacks are scheduled.
FairSpec == Spec /\ WF_vars(ClientStep) /\ WF_vars(CallbackStep)

-----------------------------------------------------------------------------
(* Properties.                                                             *)

Undelivered == {ev \in Range(events) \cup Range(stream) : ev.kind = "event"}

\* No event is lost or seen twice: an event QEMU sent is in the stream, in
\* the queue, was returned by one WaitForEvent, or was the oldest of a full
\* queue; in one of these, and once.  This holds although a read may end in
\* the middle of a line.
EventsConserved ==
  LET left == events \o stream
      ids  == {ev.id : ev \in Undelivered} IN
  /\ ids \cup delivered \cup dropped = 1..emitted
  /\ ids \cap (delivered \cup dropped) = {} /\ delivered \cap dropped = {}
  /\ \A i, j \in DOMAIN left : left[i] = left[j] /\ left[i].kind = "event" => i = j

\* WaitForEvent returns the oldest event of its name the client still has: it looks
\* through the queue before it reads on.
OldestFirst ==
  [][\A i \in delivered' \ delivered : \E ev \in Undelivered :
        /\ ev.id = i
        /\ \A other \in Undelivered : other.name = ev.name => i <= other.id]_vars

\* The end of a context ends the calls made under it and nothing else: a call under a
\* live one is not cut short on behalf of another, between calls there is neither a
\* deadline nor a callback to set one, and the connection NewClient returned is open
\* until Close.  So the cleanup commands work after the main context has ended.
ContextIsOwn ==
  /\ InCall /\ deadline = "past" => CtxDone
  /\ Idle => deadline = "none" /\ ~armed /\ running = 0
  /\ Idle \/ InCall => conn = "open"

\* An Execute is about to return a line to its caller.
Returned == pc = "stop" /\ Executing /\ got # NoLine

\* Execute returns the answer to its own command exactly when no other answer
\* was outstanding as it was sent.
ReplyIsOwn == Returned => (got = Reply(call) <=> ~owed)

\* Every call returns: the deferred wait for callbackDone does not block.
CallsReturn == InCall ~> Idle
=============================================================================
