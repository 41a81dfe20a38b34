-------------------------- MODULE QMPClientProofs --------------------------
(***************************************************************************)
(* Proofs about QMPClient for any number of calls and events and any       *)
(* capacity of the event queue: the end of a context ends the calls made   *)
(* under it and nothing else; no event is lost, seen twice or overtaken;   *)
(* and which answer an Execute returns.                                    *)
(***************************************************************************)
EXTENDS QMPClient, TLAPS

-----------------------------------------------------------------------------
(* Contexts and callbacks.                                                 *)

\* A callback belongs to the call in progress, whose context has ended if it runs.
CallbackInv ==
  /\ armed => running = 0 /\ pc \in {"greet", "caps", "capsRead", "handshaken",
                                     "write", "read", "stop"}
  /\ running # 0 => pc \in {"write", "read", "stop"} /\ CtxDone
  /\ running \in {0, 1}

DeadlineInv ==
  /\ InCall /\ deadline = "past" => CtxDone
  /\ pc \in {"idle", "handshaken"} => deadline = "none"

\* A callback of the handshake that has not run has closed nothing.
ConnInv ==
  /\ Handshaking /\ armed => conn = "open"
  /\ Idle \/ InCall => conn = "open"

CtxInv == CallbackInv /\ DeadlineInv /\ ConnInv

\* The handshake ends with the callback stopped, or with an error.
LEMMA HandshakeStep ==
  ASSUME CtxInv, ReadGreeting \/ WriteCapabilities \/ ReadCapabilities \/ StopHandshake
  PROVE  CtxInv'
<1> USE DEF CtxInv, CallbackInv, DeadlineInv, ConnInv, InCall, Idle, CtxDone, Handshaking,
            HandshakeFails, callVars, ctxVars, cbVars
<1>1. CASE ReadGreeting
  BY <1>1 DEF ReadGreeting
<1>2. CASE WriteCapabilities
  BY <1>2 DEF WriteCapabilities
<1>3. CASE ReadCapabilities
  BY <1>3 DEF ReadCapabilities
<1>4. CASE StopHandshake
  BY <1>4 DEF StopHandshake
<1> QED
  BY <1>1, <1>2, <1>3, <1>4

\* A call starts with its own deadline and its own callback.
LEMMA CallsStep == ASSUME CtxInv, Calls PROVE CtxInv'
<1> USE DEF CtxInv, CallbackInv, DeadlineInv, ConnInv, InCall, Idle, CtxDone, Handshaking,
            ctxVars, cbVars
<1>1. ASSUME NEW main \in BOOLEAN, NEW name, NEW at \in {"write", "read"}, StartCall(main, name, at)
      PROVE  CtxInv'
  BY <1>1 DEF StartCall, Expiry
<1>2. ASSUME NEW main \in BOOLEAN, NEW name \in EventNames, WaitForEvent(main, name) PROVE CtxInv'
  <2>1. CASE StartCall(main, name, "read")
    BY <1>1, <2>1
  <2>2. CASE UNCHANGED <<pc, onMain, ctxVars>>
    BY <2>2
  <2> QED
    BY <1>2, <2>1, <2>2 DEF WaitForEvent
<1> QED
  BY <1>1, <1>2, Zenon DEF Calls, Execute

\* A call ends after its callback was stopped or has run, and clears the deadline last.
LEMMA CallStep ==
  ASSUME CtxInv, WriteCommand \/ ReadResponse \/ ReadEvent \/ ReadFails \/ StopCancel \/ ClearDeadline
  PROVE  CtxInv'
<1> USE DEF CtxInv, CallbackInv, DeadlineInv, ConnInv, InCall, Idle, CtxDone, Handshaking,
            callVars, ctxVars, cbVars
<1>1. CASE WriteCommand \/ ReadResponse \/ ReadEvent \/ ReadFails
  <2>1. pc \in {"write", "read"} /\ pc' \in {pc, "read", "stop"} /\ UNCHANGED <<onMain, ctxVars>>
    BY <1>1 DEF WriteCommand, ReadResponse, ReadEvent, ReadFails
  <2> QED
    BY <2>1, Zenon
<1>2. CASE StopCancel
  BY <1>2 DEF StopCancel
<1>3. CASE ClearDeadline
  BY <1>3, Zenon DEF ClearDeadline
<1> QED
  BY <1>1, <1>2, <1>3

\* The callback of a call only moves that call's deadline.
LEMMA CallbacksStep == ASSUME CtxInv, CallbackStep \/ MainCtxEnds \/ Close PROVE CtxInv'
<1> USE DEF CtxInv, CallbackInv, DeadlineInv, ConnInv, InCall, Idle, CtxDone, Handshaking,
            callVars, ctxVars, cbVars
<1>1. CASE Callback
  BY <1>1 DEF Callback
<1>2. CASE CallbackSetsDeadline
  BY <1>2 DEF CallbackSetsDeadline
<1>3. CASE MainCtxEnds
  BY <1>3 DEF MainCtxEnds
<1>4. CASE Close
  BY <1>4 DEF Close
<1> QED
  BY <1>1, <1>2, <1>3, <1>4 DEF CallbackStep

\* A call under a live context is never cut short, and the connection stays usable for
\* the cleanup commands, however calls, callbacks and contexts interleave
\* (client.go:177, 263-271).
THEOREM NoCallEndsAnother == Spec => []ContextIsOwn
<1>1. Init => CtxInv
  BY Zenon DEF Init, CtxInv, CallbackInv, DeadlineInv, ConnInv, InCall, Idle, CtxDone, Handshaking
<1>2. CtxInv /\ [Next]_vars => CtxInv'
  <2> SUFFICES ASSUME CtxInv, [Next]_vars PROVE CtxInv'
    OBVIOUS
  <2>1. CASE QemuStep \/ UNCHANGED vars
    <3>1. UNCHANGED <<pc, onMain, ctxVars>>
      BY <2>1 DEF QemuStep, Answer, Arrive, Emit, vars, callVars
    <3> QED
      BY <3>1 DEF CtxInv, CallbackInv, DeadlineInv, ConnInv, InCall, Idle, CtxDone, Handshaking,
                  ctxVars, cbVars
  <2> QED
    BY <2>1, HandshakeStep, CallsStep, CallStep, CallbacksStep DEF Next, ClientStep
<1>3. CtxInv => ContextIsOwn
  BY DEF CtxInv, CallbackInv, DeadlineInv, ConnInv, ContextIsOwn, Idle
<1> QED
  BY <1>1, <1>2, <1>3, PTL DEF Spec

-----------------------------------------------------------------------------
(* The inductive invariant of the lines.                                   *)

IsEvent(line) == line.kind = "event" /\ line.name \in EventNames /\ line.id \in 1 .. emitted

Sent(line) == IsEvent(line) \/ line = Greeting \/ \E k \in 0 .. call : line = Reply(k)

\* The queue holds events; the stream holds events, answers to commands that were sent
\* and the greeting.  What a read left of a line is kept.
LineInv ==
  /\ \A i \in 1 .. Len(events) : IsEvent(events[i])
  /\ \A i \in 1 .. Len(stream) : Sent(stream[i])
  /\ \A i \in 1 .. Len(cmds) : cmds[i] <= call
  /\ cut <=> buf

\* No event comes before the answer to qmp_capabilities has been sent, so the line that
\* ReadCapabilities takes for it is none.
HandshakeInv ==
  /\ pc \in {"greet", "caps"} => emitted = 0 /\ cmds = <<>>
  /\ pc = "capsRead" => \/ emitted = 0 /\ cmds = <<0>>
                        \/ stream # <<>> /\ stream[1].kind # "event"

EventIds(s) == {s[i].id : i \in {j \in 1 .. Len(s) : s[j].kind = "event"}}

Ordered(s) == \A i, j \in 1 .. Len(s) :
                i < j /\ s[i].kind = "event" /\ s[j].kind = "event" => s[i].id < s[j].id

\* Every event is in one place, and the ones that are left are in order.
OrderInv ==
  /\ Ordered(events) /\ Ordered(stream)
  /\ \A i \in EventIds(events), j \in EventIds(stream) : i < j
  /\ EventIds(events) \cup EventIds(stream) \cup delivered \cup dropped = 1 .. emitted
  /\ delivered \cap dropped = {}
  /\ (EventIds(events) \cup EventIds(stream)) \cap (delivered \cup dropped) = {}

\* A WaitForEvent that reads has found nothing in the queue.
WaitInv == pc = "read" /\ ~Executing => \A i \in 1 .. Len(events) : events[i].name # waiting

\* The answer to the call in progress is the last one outstanding, and owed is false exactly
\* when it is the only one.
OwnLast ==
  \/ /\ cmds # <<>> /\ cmds[Len(cmds)] = call
     /\ \A i \in 1 .. Len(cmds) - 1 : cmds[i] # call
     /\ \A i \in 1 .. Len(stream) : stream[i] # Reply(call)
     /\ ~owed <=> Len(cmds) = 1 /\ \A i \in 1 .. Len(stream) : stream[i].kind = "event"
  \/ /\ cmds = <<>>
     /\ \E p \in 1 .. Len(stream) :
          /\ stream[p] = Reply(call)
          /\ \A i \in 1 .. Len(stream) : i > p => stream[i].kind = "event"
          /\ \A i \in 1 .. Len(stream) : i < p => stream[i] # Reply(call)
          /\ ~owed <=> \A i \in 1 .. Len(stream) : i < p => stream[i].kind = "event"

AnswerInv ==
  /\ pc = "write" => /\ Executing /\ got = NoLine
                     /\ \A i \in 1 .. Len(cmds) : cmds[i] # call
                     /\ \A i \in 1 .. Len(stream) : stream[i] # Reply(call)
  /\ pc = "read" /\ Executing => got = NoLine /\ OwnLast
  /\ ReplyIsOwn

IInv == TypeOK /\ LineInv /\ HandshakeInv /\ OrderInv /\ WaitInv /\ AnswerInv

-----------------------------------------------------------------------------
(* Sequences of lines.                                                     *)

LEMMA SeqIs ==
  ASSUME NEW S, NEW s \in Seq(S)
  PROVE  /\ Len(s) \in Nat /\ DOMAIN s = 1 .. Len(s) /\ (Len(s) = 0 <=> s = <<>>)
         /\ \A i \in 1 .. Len(s) : s[i] \in S
OBVIOUS

LEMMA TailIs ==
  ASSUME NEW S, NEW s \in Seq(S), s # <<>>
  PROVE  /\ Len(s) \in Nat \ {0} /\ Tail(s) \in Seq(S) /\ Len(Tail(s)) = Len(s) - 1
         /\ Head(s) = s[1] /\ s[1] \in S
         /\ \A i \in 1 .. Len(Tail(s)) : i + 1 \in 1 .. Len(s) /\ Tail(s)[i] = s[i + 1]
OBVIOUS

LEMMA AppendIs ==
  ASSUME NEW S, NEW s \in Seq(S), NEW e \in S
  PROVE  /\ Len(s) \in Nat /\ Append(s, e) \in Seq(S) /\ Len(Append(s, e)) = Len(s) + 1
         /\ Append(s, e)[Len(s) + 1] = e /\ Len(s) + 1 \in 1 .. Len(Append(s, e))
         /\ \A i \in 1 .. Len(s) : i \in 1 .. Len(Append(s, e)) /\ Append(s, e)[i] = s[i]
         /\ \A i \in 1 .. Len(Append(s, e)) : i = Len(s) + 1 \/ i \in 1 .. Len(s)
OBVIOUS

LEMMA ConcatIs ==
  ASSUME NEW S, NEW s \in Seq(S), NEW t \in Seq(S)
  PROVE  /\ s \o t \in Seq(S) /\ Len(s \o t) = Len(s) + Len(t)
         /\ \A i \in 1 .. Len(s) + Len(t) : (s \o t)[i] = IF i <= Len(s) THEN s[i] ELSE t[i - Len(s)]
OBVIOUS

\* What slices.Delete leaves.
RemoveAt(s, n) == SubSeq(s, 1, n - 1) \o SubSeq(s, n + 1, Len(s))

LEMMA RemoveAtIs ==
  ASSUME NEW S, NEW s \in Seq(S), NEW n \in 1 .. Len(s)
  PROVE  /\ RemoveAt(s, n) \in Seq(S) /\ Len(RemoveAt(s, n)) = Len(s) - 1
         /\ \A i \in 1 .. Len(s) - 1 : RemoveAt(s, n)[i] = s[IF i < n THEN i ELSE i + 1]
<1>1. Len(s) \in Nat /\ \A i \in 1 .. Len(s) : s[i] \in S
  BY SeqIs
<1>2. PICK a : a = SubSeq(s, 1, n - 1)
  BY Zenon
<1>3. PICK b : b = SubSeq(s, n + 1, Len(s))
  BY Zenon
<1>4. /\ a \in Seq(S) /\ Len(a) = n - 1
      /\ \A i \in 1 .. n - 1 : a[i] = s[i]
  <2>1. n - 1 \in Int /\ 1 \in Int /\ \A i \in 1 .. n - 1 : s[i] \in S
    BY <1>1
  <2>2. /\ SubSeq(s, 1, n - 1) \in Seq(S)
        /\ Len(SubSeq(s, 1, n - 1)) = IF 1 <= n - 1 THEN n - 1 - 1 + 1 ELSE 0
        /\ \A i \in 1 .. n - 1 - 1 + 1 : SubSeq(s, 1, n - 1)[i] = s[1 + i - 1]
    BY <2>1
  <2>3. n - 1 - 1 + 1 = n - 1 /\ (~(1 <= n - 1) => n - 1 = 0) /\ \A i \in 1 .. n - 1 : 1 + i - 1 = i
    BY <1>1, SMTT(30)
  <2> QED BY <1>2, <2>2, <2>3
<1>5. /\ b \in Seq(S) /\ Len(b) = Len(s) - n
      /\ \A i \in 1 .. Len(s) - n : b[i] = s[n + i]
  <2>1. n + 1 \in Int /\ Len(s) \in Int /\ \A i \in n + 1 .. Len(s) : s[i] \in S
    BY <1>1
  <2>2. /\ SubSeq(s, n + 1, Len(s)) \in Seq(S)
        /\ Len(SubSeq(s, n + 1, Len(s))) = IF n + 1 <= Len(s) THEN Len(s) - (n + 1) + 1 ELSE 0
        /\ \A i \in 1 .. Len(s) - (n + 1) + 1 : SubSeq(s, n + 1, Len(s))[i] = s[n + 1 + i - 1]
    BY <2>1
  <2>3. /\ Len(s) - (n + 1) + 1 = Len(s) - n /\ (~(n + 1 <= Len(s)) => Len(s) - n = 0)
        /\ \A i \in 1 .. Len(s) - n : n + 1 + i - 1 = n + i
    BY <1>1
  <2> QED BY <1>3, <2>2, <2>3, Zenon
<1>6. RemoveAt(s, n) = a \o b
  BY <1>2, <1>3 DEF RemoveAt
<1>7. /\ a \o b \in Seq(S) /\ Len(a \o b) = Len(a) + Len(b)
      /\ \A i \in 1 .. Len(a) + Len(b) : (a \o b)[i] = IF i <= Len(a) THEN a[i] ELSE b[i - Len(a)]
  BY <1>4, <1>5, ConcatIs, Zenon
<1>8. Len(a) + Len(b) = Len(s) - 1
  BY <1>1, <1>4, <1>5
<1>9. ASSUME NEW i \in 1 .. Len(s) - 1
      PROVE  (a \o b)[i] = s[IF i < n THEN i ELSE i + 1]
  <2>1. CASE i < n
    <3>1. i <= Len(a) /\ i \in 1 .. n - 1
      BY <1>1, <1>4, <2>1
    <3> QED BY <1>4, <1>7, <1>8, <2>1, <3>1
  <2>2. CASE ~(i < n)
    <3>1. ~(i <= Len(a)) /\ i - Len(a) \in 1 .. Len(s) - n /\ n + (i - Len(a)) = i + 1
      BY <1>1, <1>4, <2>2
    <3> QED BY <1>5, <1>7, <1>8, <2>2, <3>1, Zenon
  <2> QED BY <2>1, <2>2, Zenon
<1> QED BY <1>6, <1>7, <1>8, <1>9

LEMMA IdsAreNumbers ==
  ASSUME NEW s \in Seq(Lines)
  PROVE  \A i \in 1 .. Len(s) : s[i].id \in Nat
<1>1. \A line \in Lines : line.id \in Nat
  BY Zenon DEF Lines
<1>2. \A i \in 1 .. Len(s) : s[i] \in Lines
  BY SeqIs
<1> QED BY <1>1, <1>2

\* A line at the end of a sequence that is newer than all in it.
LEMMA AppendIds ==
  ASSUME NEW s \in Seq(Lines), NEW line \in Lines, Ordered(s),
         line.kind = "event" => \A i \in EventIds(s) : i < line.id
  PROVE  /\ Ordered(Append(s, line))
         /\ EventIds(Append(s, line)) = EventIds(s) \cup (IF line.kind = "event" THEN {line.id} ELSE {})
<1>1. PICK t : t = Append(s, line)
  BY Zenon
<1>2. /\ Len(s) \in Nat /\ Len(t) = Len(s) + 1
      /\ t[Len(s) + 1] = line /\ Len(s) + 1 \in 1 .. Len(t)
      /\ \A i \in 1 .. Len(s) : i \in 1 .. Len(t) /\ t[i] = s[i]
      /\ \A i \in 1 .. Len(t) : i = Len(s) + 1 \/ i \in 1 .. Len(s)
  BY <1>1, AppendIs
<1>3. EventIds(t) = EventIds(s) \cup (IF line.kind = "event" THEN {line.id} ELSE {})
  BY <1>2 DEF EventIds
<1>4. Ordered(t)
  <2> SUFFICES ASSUME NEW i \in 1 .. Len(t), NEW j \in 1 .. Len(t), i < j,
                      t[i].kind = "event", t[j].kind = "event"
               PROVE  t[i].id < t[j].id
    BY DEF Ordered
  <2>1. i \in 1 .. Len(s) /\ t[i] = s[i]
    BY <1>2
  <2>2. CASE j = Len(s) + 1
    BY <1>2, <2>1, <2>2 DEF EventIds
  <2>3. CASE j \in 1 .. Len(s)
    BY <1>2, <2>1, <2>3 DEF Ordered
  <2> QED BY <1>2, <2>2, <2>3
<1> QED BY <1>1, <1>3, <1>4

\* The first event of a sequence is older than the rest.
LEMMA TailIds ==
  ASSUME NEW s \in Seq(Lines), s # <<>>, Ordered(s)
  PROVE  /\ Ordered(Tail(s))
         /\ s[1].kind # "event" => EventIds(Tail(s)) = EventIds(s)
         /\ s[1].kind = "event" => /\ s[1].id \in EventIds(s)
                                   /\ EventIds(Tail(s)) = EventIds(s) \ {s[1].id}
                                   /\ \A i \in EventIds(s) : i = s[1].id \/ s[1].id < i
<1>1. PICK t : t = Tail(s)
  BY Zenon
<1>2. /\ Len(s) \in Nat \ {0} /\ Len(t) = Len(s) - 1
      /\ \A i \in 1 .. Len(t) : i + 1 \in 1 .. Len(s) /\ t[i] = s[i + 1]
  BY <1>1, TailIs
<1>3. 1 \in 1 .. Len(s) /\ \A i \in 1 .. Len(s) : i = 1 \/ (i - 1 \in 1 .. Len(t) /\ t[i - 1] = s[i] /\ 1 < i)
  BY <1>2
<1>4. \A i \in 1 .. Len(s) : s[i].id \in Nat
  BY IdsAreNumbers
<1>5. Ordered(t)
  <2> SUFFICES ASSUME NEW i \in 1 .. Len(t), NEW j \in 1 .. Len(t), i < j,
                      t[i].kind = "event", t[j].kind = "event"
               PROVE  t[i].id < t[j].id
    BY DEF Ordered
  <2>1. i + 1 \in 1 .. Len(s) /\ j + 1 \in 1 .. Len(s) /\ i + 1 < j + 1
        /\ t[i] = s[i + 1] /\ t[j] = s[j + 1]
    BY <1>2
  <2> QED BY <2>1 DEF Ordered
<1>0. \A x : x \in EventIds(s) <=> \E i \in 1 .. Len(s) : s[i].kind = "event" /\ x = s[i].id
  BY DEF EventIds
<1>6. \A x : x \in EventIds(t) <=> \E i \in 1 .. Len(s) : i # 1 /\ s[i].kind = "event" /\ x = s[i].id
  BY <1>2, <1>3 DEF EventIds
<1>7. s[1].kind # "event" => EventIds(t) = EventIds(s)
  <2> SUFFICES ASSUME s[1].kind # "event", NEW x PROVE x \in EventIds(t) <=> x \in EventIds(s)
    BY Zenon
  <2> QED BY <1>0, <1>6
<1>8. ASSUME s[1].kind = "event"
      PROVE  /\ s[1].id \in EventIds(s) /\ \A i \in EventIds(s) : i = s[1].id \/ s[1].id < i
             /\ EventIds(t) = EventIds(s) \ {s[1].id}
  <2>1. s[1].id \in EventIds(s)
    BY <1>3, <1>8 DEF EventIds
  <2>2. \A i \in 1 .. Len(s) : i # 1 /\ s[i].kind = "event" => s[1].id < s[i].id /\ s[i].id # s[1].id
    BY <1>3, <1>4, <1>8 DEF Ordered
  <2>3. \A i \in EventIds(s) : i = s[1].id \/ s[1].id < i
    BY <2>2 DEF EventIds
  <2>4. EventIds(t) = EventIds(s) \ {s[1].id}
    <3> SUFFICES ASSUME NEW x PROVE x \in EventIds(t) <=> x \in EventIds(s) /\ x # s[1].id
      OBVIOUS
    <3> QED BY <1>0, <1>6, <2>2
  <2> QED BY <2>1, <2>3, <2>4
<1> QED BY <1>1, <1>5, <1>7, <1>8

\* One event less.
LEMMA RemoveAtIds ==
  ASSUME NEW s \in Seq(Lines), NEW n \in 1 .. Len(s), Ordered(s),
         \A i \in 1 .. Len(s) : s[i].kind = "event"
  PROVE  /\ Ordered(RemoveAt(s, n))
         /\ s[n].id \in EventIds(s)
         /\ EventIds(RemoveAt(s, n)) = EventIds(s) \ {s[n].id}
<1>1. PICK t : t = RemoveAt(s, n)
  OBVIOUS
<1>2. /\ Len(t) = Len(s) - 1
      /\ \A i \in 1 .. Len(s) - 1 : t[i] = s[IF i < n THEN i ELSE i + 1]
  BY <1>1, RemoveAtIs, Zenon
<1>3. Len(s) \in Nat /\ \A i \in 1 .. Len(s) : s[i].id \in Nat
  BY SeqIs, IdsAreNumbers
<1>4. \A i \in 1 .. Len(t) : \E k \in 1 .. Len(s) :
        /\ k = (IF i < n THEN i ELSE i + 1) /\ k # n /\ t[i] = s[k]
  <2> TAKE i \in 1 .. Len(t)
  <2> DEFINE k == IF i < n THEN i ELSE i + 1
  <2>1. k \in 1 .. Len(s) /\ k # n
    BY <1>2, <1>3
  <2>2. t[i] = s[k]
    BY <1>2
  <2> QED BY <2>1, <2>2, Zenon
<1>5. \A k \in 1 .. Len(s) : k # n => \E i \in 1 .. Len(t) : t[i] = s[k]
  <2> SUFFICES ASSUME NEW k \in 1 .. Len(s), k # n PROVE \E i \in 1 .. Len(t) : t[i] = s[k]
    OBVIOUS
  <2>1. CASE k < n
    <3>1. k \in 1 .. Len(t) /\ t[k] = s[k]
      BY <1>2, <1>3, <2>1
    <3> QED BY <3>1
  <2>2. CASE k > n
    <3>1. k - 1 \in 1 .. Len(t) /\ ~(k - 1 < n) /\ k - 1 + 1 = k
      BY <1>2, <1>3, <2>2
    <3>2. t[k - 1] = s[k]
      BY <1>2, <3>1
    <3> QED BY <3>1, <3>2
  <2> QED BY <1>3, <2>1, <2>2
<1>6. \A i \in 1 .. Len(s), j \in 1 .. Len(s) : i < j => s[i].id < s[j].id
  BY DEF Ordered
<1>7. Ordered(t)
  <2> SUFFICES ASSUME NEW i \in 1 .. Len(t), NEW j \in 1 .. Len(t), i < j
               PROVE  t[i].id < t[j].id
    BY DEF Ordered
  <2>1. PICK k \in 1 .. Len(s) : k = (IF i < n THEN i ELSE i + 1) /\ t[i] = s[k]
    BY <1>4
  <2>2. PICK l \in 1 .. Len(s) : l = (IF j < n THEN j ELSE j + 1) /\ t[j] = s[l]
    BY <1>4, Zenon
  <2>3. k < l
    BY <1>3, <2>1, <2>2
  <2> QED BY <1>6, <2>1, <2>2, <2>3
<1>8. \A k \in 1 .. Len(s) : k # n => s[k].id # s[n].id
  BY <1>3, <1>6
<1>9. EventIds(s) = {s[k].id : k \in 1 .. Len(s)}
  BY DEF EventIds
<1>10. EventIds(t) = {t[k].id : k \in 1 .. Len(t)}
  BY <1>4, Zenon DEF EventIds
<1>11. EventIds(t) = EventIds(s) \ {s[n].id}
  <2> SUFFICES ASSUME NEW x PROVE x \in EventIds(t) <=> x \in EventIds(s) /\ x # s[n].id
    OBVIOUS
  <2>1. x \in EventIds(t) <=> \E k \in 1 .. Len(t) : x = t[k].id
    BY <1>10
  <2>2. x \in EventIds(s) <=> \E k \in 1 .. Len(s) : x = s[k].id
    BY <1>9
  <2>3. ASSUME x \in EventIds(t) PROVE x \in EventIds(s) /\ x # s[n].id
    BY <1>4, <1>8, <2>1, <2>2, <2>3, Zenon
  <2>4. ASSUME x \in EventIds(s), x # s[n].id PROVE x \in EventIds(t)
    <3>1. PICK k \in 1 .. Len(s) : x = s[k].id
      BY <2>2, <2>4
    <3>2. k # n
      BY <2>4, <3>1
    <3>3. PICK i \in 1 .. Len(t) : t[i] = s[k]
      BY <1>5, <3>2
    <3> QED BY <2>1, <3>1, <3>3
  <2> QED BY <2>3, <2>4
<1> QED BY <1>1, <1>7, <1>9, <1>11

\* Lines that are no events.
LEMMA Kinds ==
  /\ Greeting.kind # "event" /\ Greeting.name = "" /\ Greeting # NoLine
  /\ \A k : Reply(k).kind # "event" /\ Reply(k).name = "" /\ Reply(k).id = k /\ Reply(k) # NoLine
  /\ \A k : Reply(k) # Greeting
<1>1. /\ Greeting.kind = "greeting" /\ Greeting.name = "" /\ NoLine.kind = "none"
      /\ \A k : Reply(k).kind = "reply" /\ Reply(k).name = "" /\ Reply(k).id = k
  BY DEF Greeting, NoLine, Reply
<1>2. "greeting" # "event" /\ "greeting" # "none" /\ "reply" # "event" /\ "reply" # "none" /\ "reply" # "greeting"
  OBVIOUS
<1> QED BY <1>1, <1>2, Zenon

-----------------------------------------------------------------------------
(* Where events go.                                                        *)

\* The line that is read is the oldest, and it parses.
LEMMA ReadLineEffect ==
  ASSUME TypeOK, LineInv, OrderInv, ReadLine
  PROVE  /\ stream # <<>> /\ Head(stream) = stream[1] /\ stream[1] \in Lines /\ Parses
         /\ stream' = Tail(stream) /\ stream' \in Seq(Lines) /\ Ordered(stream')
         /\ \A i \in 1 .. Len(stream') : Sent(stream'[i])
         /\ UNCHANGED <<emitted, cmds>> /\ cut' = FALSE /\ buf' = FALSE /\ arrived' = 0
         /\ \/ IsEvent(stream[1])
            \/ stream[1].kind # "event" /\ stream[1].name = "" /\ stream[1] # NoLine
<1>1. stream # <<>> /\ stream' = Tail(stream) /\ UNCHANGED <<emitted, cmds>>
      /\ cut' = FALSE /\ buf' = FALSE /\ arrived' = 0
  BY DEF ReadLine, LineReadable
<1>2. Parses
  BY DEF Parses, LineInv
<1>3. stream \in Seq(Lines) /\ Ordered(stream)
  BY Zenon DEF TypeOK, OrderInv
<1>4. /\ Len(stream) \in Nat \ {0} /\ stream' \in Seq(Lines) /\ Len(stream') = Len(stream) - 1
      /\ Head(stream) = stream[1] /\ stream[1] \in Lines
      /\ \A i \in 1 .. Len(stream') : i + 1 \in 1 .. Len(stream) /\ stream'[i] = stream[i + 1]
  BY <1>1, <1>3, TailIs
<1>5. Ordered(stream')
  BY <1>1, <1>3, TailIds
<1>6. \A i \in 1 .. Len(stream) : Sent(stream[i])
  BY DEF LineInv
<1>7. \A i \in 1 .. Len(stream') : Sent(stream'[i])
  BY <1>4, <1>6
<1>8. 1 \in 1 .. Len(stream)
  BY <1>4
<1>9. Sent(stream[1])
  BY <1>6, <1>8
<1>10. IsEvent(stream[1]) \/ (stream[1].kind # "event" /\ stream[1].name = "" /\ stream[1] # NoLine)
  BY <1>9, Kinds, Zenon DEF Sent
<1> QED BY <1>1, <1>2, <1>4, <1>5, <1>7, <1>10, Zenon

\* A line that is no event is passed over.
LEMMA SkipKeepsOrder ==
  ASSUME TypeOK, LineInv, OrderInv, ReadLine, stream[1].kind # "event", UNCHANGED evtVars
  PROVE  OrderInv'
<1>1. stream' = Tail(stream) /\ stream # <<>> /\ Ordered(stream') /\ UNCHANGED emitted
  BY ReadLineEffect, Zenon
<1>2. EventIds(stream') = EventIds(stream)
  BY <1>1, TailIds, Zenon DEF TypeOK, OrderInv
<1>3. UNCHANGED <<events, delivered, dropped>>
  BY Zenon DEF evtVars
<1> QED BY <1>1, <1>2, <1>3 DEF OrderInv

\* An event is returned to its waiter.
LEMMA DeliverKeepsOrder ==
  ASSUME TypeOK, LineInv, OrderInv, ReadLine, IsEvent(stream[1]),
         delivered' = delivered \cup {stream[1].id}, UNCHANGED <<events, dropped>>
  PROVE  OrderInv' /\ delivered' \subseteq 1 .. emitted
<1>1. stream' = Tail(stream) /\ stream # <<>> /\ Ordered(stream') /\ emitted' = emitted
  BY ReadLineEffect
<1>2. stream[1].id \in EventIds(stream) /\ EventIds(stream') = EventIds(stream) \ {stream[1].id}
  BY <1>1, TailIds, Zenon DEF TypeOK, OrderInv, IsEvent
<1>3. PICK h, Q, S : h = stream[1].id /\ Q = EventIds(events) /\ S = EventIds(stream)
  BY Zenon
<1>4. /\ \A i \in Q, j \in S : i < j
      /\ Q \cup S \cup delivered \cup dropped = 1 .. emitted
      /\ delivered \cap dropped = {} /\ (Q \cup S) \cap (delivered \cup dropped) = {}
      /\ h \in S
  BY <1>2, <1>3 DEF OrderInv
<1>5. h \notin Q
  <2>1. h \in Nat
    BY <1>4
  <2> QED BY <1>4, <2>1
<1>6. EventIds(events') = Q /\ EventIds(stream') = S \ {h} /\ Ordered(events')
      /\ delivered' = delivered \cup {h} /\ dropped' = dropped
  BY <1>2, <1>3 DEF OrderInv
<1>7. /\ \A i \in Q, j \in S \ {h} : i < j
      /\ Q \cup (S \ {h}) \cup (delivered \cup {h}) \cup dropped = 1 .. emitted
      /\ (delivered \cup {h}) \cap dropped = {}
      /\ (Q \cup (S \ {h})) \cap ((delivered \cup {h}) \cup dropped) = {}
  BY <1>4, <1>5
<1>8. delivered' \subseteq 1 .. emitted
  BY <1>4, <1>6, Zenon
<1> QED BY <1>1, <1>6, <1>7, <1>8 DEF OrderInv

\* ... or taken out of the queue.
LEMMA TakeKeepsOrder ==
  ASSUME TypeOK, LineInv, OrderInv, NEW n \in 1 .. Len(events),
         delivered' = delivered \cup {events[n].id}, events' = SubSeq(events, 1, n - 1) \o SubSeq(events, n + 1, Len(events)),
         UNCHANGED <<stream, dropped, emitted>>
  PROVE  OrderInv' /\ delivered' \subseteq 1 .. emitted
<1>1. \A i \in 1 .. Len(events) : events[i].kind = "event"
  BY DEF LineInv, IsEvent
<1>2. /\ Ordered(events') /\ events[n].id \in EventIds(events)
      /\ EventIds(events') = EventIds(events) \ {events[n].id}
  BY <1>1, RemoveAtIds, Zenon DEF TypeOK, OrderInv, RemoveAt
<1>3. PICK h, Q, S : h = events[n].id /\ Q = EventIds(events) /\ S = EventIds(stream)
  OBVIOUS
<1>4. /\ \A i \in Q, j \in S : i < j
      /\ Q \cup S \cup delivered \cup dropped = 1 .. emitted
      /\ delivered \cap dropped = {} /\ (Q \cup S) \cap (delivered \cup dropped) = {}
      /\ h \in Q
  BY <1>2, <1>3 DEF OrderInv
<1>5. h \notin S
  <2>1. h \in Nat
    BY <1>4
  <2> QED BY <1>4, <2>1
<1>6. EventIds(events') = Q \ {h} /\ EventIds(stream') = S /\ Ordered(stream')
      /\ delivered' = delivered \cup {h} /\ dropped' = dropped
  BY <1>2, <1>3, Zenon DEF OrderInv
<1>7. /\ \A i \in Q \ {h}, j \in S : i < j
      /\ (Q \ {h}) \cup S \cup (delivered \cup {h}) \cup dropped = 1 .. emitted
      /\ (delivered \cup {h}) \cap dropped = {}
      /\ ((Q \ {h}) \cup S) \cap ((delivered \cup {h}) \cup dropped) = {}
  BY <1>4, <1>5
<1>8. delivered' \subseteq 1 .. emitted
  BY <1>4, <1>6
<1> QED BY <1>2, <1>6, <1>7, <1>8 DEF OrderInv

\* An event goes from the stream to the queue, from which the oldest may have to go.
LEMMA BufferKeepsOrder ==
  ASSUME TypeOK, LineInv, OrderInv, ReadLine, IsEvent(stream[1]), BufferEvent(stream[1]),
         UNCHANGED delivered
  PROVE  /\ OrderInv' /\ dropped' \subseteq 1 .. emitted
         /\ events' \in Seq(Lines) /\ Len(events') <= MaxBufferedEvents
         /\ \A i \in 1 .. Len(events') : events'[i] = stream[1] \/ \E j \in 1 .. Len(events) : events'[i] = events[j]
<1>1. stream' = Tail(stream) /\ stream # <<>> /\ Ordered(stream') /\ emitted' = emitted /\ stream[1] \in Lines
  BY ReadLineEffect
<1>2. /\ stream[1].id \in EventIds(stream) /\ EventIds(stream') = EventIds(stream) \ {stream[1].id}
      /\ \A i \in EventIds(stream) : i = stream[1].id \/ stream[1].id < i
  BY <1>1, TailIds, Zenon DEF TypeOK, OrderInv, IsEvent
<1>3. PICK h, Q, S : h = stream[1].id /\ Q = EventIds(events) /\ S = EventIds(stream)
  BY Zenon
<1>4. /\ \A i \in Q, j \in S : i < j
      /\ Q \cup S \cup delivered \cup dropped = 1 .. emitted
      /\ delivered \cap dropped = {} /\ (Q \cup S) \cap (delivered \cup dropped) = {}
      /\ h \in S /\ \A i \in S : i = h \/ h < i
  BY <1>2, <1>3 DEF OrderInv
<1>5. h \notin Q
  <2>1. h \in Nat
    BY <1>4
  <2> QED BY <1>4, <2>1
<1>6. /\ events \in Seq(Lines) /\ Len(events) \in Nat /\ Len(events) <= MaxBufferedEvents
      /\ MaxBufferedEvents \in Nat \ {0} /\ Ordered(events)
      /\ \A i \in 1 .. Len(events) : events[i].kind = "event"
  BY QMPAssumption, SeqIs, Zenon DEF TypeOK, OrderInv, LineInv, IsEvent
<1>7. PICK base, R : /\ base \in Seq(Lines) /\ Len(base) < MaxBufferedEvents /\ Ordered(base)
                     /\ EventIds(base) = Q \ R /\ R \subseteq Q
                     /\ \A i \in 1 .. Len(base) : \E j \in 1 .. Len(events) : base[i] = events[j]
                     /\ events' = Append(base, stream[1]) /\ dropped' = dropped \cup R
  <2>1. CASE Len(events) >= MaxBufferedEvents
    <3>1. events # <<>>
      BY <1>6, <2>1
    <3>2. /\ Tail(events) \in Seq(Lines) /\ Len(Tail(events)) = Len(events) - 1 /\ Head(events) = events[1]
          /\ Len(events) \in Nat \ {0}
          /\ \A i \in 1 .. Len(Tail(events)) : i + 1 \in 1 .. Len(events) /\ Tail(events)[i] = events[i + 1]
      BY <1>6, <3>1, TailIs
    <3>3. 1 \in 1 .. Len(events)
      BY <3>2
    <3>4. /\ Ordered(Tail(events)) /\ events[1].id \in EventIds(events)
          /\ EventIds(Tail(events)) = EventIds(events) \ {events[1].id}
      BY <1>6, <3>1, <3>3, TailIds
    <3>5. events' = Append(Tail(events), stream[1]) /\ dropped' = dropped \cup {events[1].id}
      BY <2>1, <3>2 DEF BufferEvent
    <3>6. Len(Tail(events)) < MaxBufferedEvents
      BY <1>6, <3>2
    <3>7. \A i \in 1 .. Len(Tail(events)) : \E j \in 1 .. Len(events) : Tail(events)[i] = events[j]
      BY <3>2
    <3> QED BY <1>3, <3>2, <3>4, <3>5, <3>6, <3>7, Zenon
  <2>2. CASE ~(Len(events) >= MaxBufferedEvents)
    <3>1. events' = Append(events, stream[1]) /\ dropped' = dropped \cup {}
      BY <2>2 DEF BufferEvent
    <3>2. Len(events) < MaxBufferedEvents /\ EventIds(events) = Q \ {} /\ {} \subseteq Q
      BY <1>3, <1>6, <2>2
    <3> QED BY <1>6, <3>1, <3>2, Zenon
  <2> QED BY <2>1, <2>2, Zenon
<1>8. \A i \in EventIds(base) : i < stream[1].id
  BY <1>3, <1>4, <1>7, Zenon
<1>9. Ordered(events') /\ EventIds(events') = (Q \ R) \cup {h}
  <2>1. stream[1].kind = "event"
    BY Zenon DEF IsEvent
  <2> QED BY <1>1, <1>3, <1>7, <1>8, <2>1, AppendIds
<1>10. /\ Len(base) \in Nat /\ events' \in Seq(Lines) /\ Len(events') = Len(base) + 1
       /\ events'[Len(base) + 1] = stream[1]
       /\ \A i \in 1 .. Len(base) : events'[i] = base[i]
       /\ \A i \in 1 .. Len(events') : i = Len(base) + 1 \/ i \in 1 .. Len(base)
  BY <1>1, <1>7, AppendIs
<1>11. Len(events') <= MaxBufferedEvents
  BY <1>6, <1>7, <1>10
<1>12. \A i \in 1 .. Len(events') : events'[i] = stream[1] \/ \E j \in 1 .. Len(events) : events'[i] = events[j]
  BY <1>7, <1>10
<1>13. /\ \A i \in (Q \ R) \cup {h}, j \in S \ {h} : i < j
       /\ ((Q \ R) \cup {h}) \cup (S \ {h}) \cup delivered \cup (dropped \cup R) = 1 .. emitted
       /\ delivered \cap (dropped \cup R) = {}
       /\ (((Q \ R) \cup {h}) \cup (S \ {h})) \cap (delivered \cup (dropped \cup R)) = {}
  <2>1. R \subseteq Q /\ R \cap S = {}
    <3>1. Q \cap S = {}
      BY <1>4
    <3> QED BY <1>7, <3>1
  <2>2. \A i \in (Q \ R) \cup {h}, j \in S \ {h} : i < j
    BY <1>4
  <2>3. ((Q \ R) \cup {h}) \cup (S \ {h}) \cup delivered \cup (dropped \cup R)
          = Q \cup S \cup delivered \cup dropped
    BY <1>4, <2>1
  <2>4. delivered \cap (dropped \cup R) = {}
    BY <1>4, <2>1
  <2>5. (((Q \ R) \cup {h}) \cup (S \ {h})) \cap (delivered \cup (dropped \cup R)) = {}
    BY <1>4, <1>5, <2>1, Zenon
  <2> QED BY <1>4, <2>2, <2>3, <2>4, <2>5, Zenon
<1>14. EventIds(stream') = S \ {h} /\ delivered' = delivered /\ dropped' = dropped \cup R
  BY <1>2, <1>3, <1>7, Zenon
<1>15. OrderInv'
  BY <1>1, <1>9, <1>13, <1>14 DEF OrderInv
<1>16. dropped' \subseteq 1 .. emitted
  BY <1>13, <1>14
<1> QED BY <1>10, <1>11, <1>12, <1>15, <1>16

-----------------------------------------------------------------------------
(* Which answer is a call's own.                                           *)

\* Reading an event leaves the answers as they are.
LEMMA OwnLastTail ==
  ASSUME TypeOK, OwnLast, stream # <<>>, stream[1].kind = "event", stream' = Tail(stream),
         UNCHANGED <<cmds, call, owed>>
  PROVE  OwnLast'
<1>1. /\ Len(stream) \in Nat \ {0} /\ Len(stream') = Len(stream) - 1
      /\ \A i \in 1 .. Len(stream') : i + 1 \in 1 .. Len(stream) /\ stream'[i] = stream[i + 1]
  BY TailIs, Zenon DEF TypeOK
<1>2. \A i \in 1 .. Len(stream) : i = 1 \/ (i - 1 \in 1 .. Len(stream') /\ stream'[i - 1] = stream[i])
  BY <1>1
<1>3. Reply(call') = Reply(call)
  OBVIOUS
<1>4. CASE /\ cmds # <<>> /\ cmds[Len(cmds)] = call
           /\ \A i \in 1 .. Len(cmds) - 1 : cmds[i] # call
           /\ \A i \in 1 .. Len(stream) : stream[i] # Reply(call)
           /\ ~owed <=> Len(cmds) = 1 /\ \A i \in 1 .. Len(stream) : stream[i].kind = "event"
  <2>1. (\A i \in 1 .. Len(stream) : stream[i].kind = "event")
          <=> (\A i \in 1 .. Len(stream') : stream'[i].kind = "event")
    BY <1>1, <1>2
  <2>2. \A i \in 1 .. Len(stream') : stream'[i] # Reply(call)
    BY <1>1, <1>4, Zenon
  <2> QED BY <1>4, <2>1, <2>2, Zenon DEF OwnLast
<1>5. ASSUME cmds = <<>>, NEW p \in 1 .. Len(stream), stream[p] = Reply(call),
             \A i \in 1 .. Len(stream) : i > p => stream[i].kind = "event",
             \A i \in 1 .. Len(stream) : i < p => stream[i] # Reply(call),
             ~owed <=> \A i \in 1 .. Len(stream) : i < p => stream[i].kind = "event"
      PROVE  OwnLast'
  <2>1. p # 1
    BY <1>5, Kinds, Zenon
  <2>2. PICK q \in 1 .. Len(stream') : q = p - 1
    <3>1. p - 1 \in 1 .. Len(stream')
      BY <1>1, <2>1
    <3> QED BY <3>1, Zenon
  <2>3. stream'[q] = Reply(call')
    BY <1>2, <1>3, <1>5, <2>1, <2>2, Zenon
  <2>4. \A i \in 1 .. Len(stream') : (i > q <=> i + 1 > p) /\ (i < q <=> i + 1 < p)
    BY <1>1, <2>2
  <2>5. \A i \in 1 .. Len(stream') : i > q => stream'[i].kind = "event"
    BY <1>1, <1>5, <2>4
  <2>6. \A i \in 1 .. Len(stream') : i < q => stream'[i] # Reply(call')
    BY <1>1, <1>3, <1>5, <2>4
  <2>7. \A i \in 1 .. Len(stream) : i < p => i = 1 \/ i - 1 < q
    BY <1>1, <2>2
  <2>8. (\A i \in 1 .. Len(stream) : i < p => stream[i].kind = "event")
          <=> (\A i \in 1 .. Len(stream') : i < q => stream'[i].kind = "event")
    <3>1. ASSUME \A i \in 1 .. Len(stream) : i < p => stream[i].kind = "event"
          PROVE  \A i \in 1 .. Len(stream') : i < q => stream'[i].kind = "event"
      BY <1>1, <2>4, <3>1
    <3>2. ASSUME \A i \in 1 .. Len(stream') : i < q => stream'[i].kind = "event"
          PROVE  \A i \in 1 .. Len(stream) : i < p => stream[i].kind = "event"
      BY <1>2, <2>7, <3>2, Zenon
    <3> QED BY <3>1, <3>2
  <2>9. ~owed' <=> \A i \in 1 .. Len(stream') : i < q => stream'[i].kind = "event"
    BY <1>5, <2>8
  <2> QED BY <1>5, <2>3, <2>5, <2>6, <2>9, Zenon DEF OwnLast
<1> QED BY <1>4, <1>5, Zenon DEF OwnLast

\* So does an event at the end of the stream.
LEMMA OwnLastEmit ==
  ASSUME TypeOK, OwnLast, NEW line \in Lines, line.kind = "event", stream' = Append(stream, line),
         UNCHANGED <<cmds, call, owed>>
  PROVE  OwnLast'
<1>1. /\ Len(stream) \in Nat /\ Len(stream') = Len(stream) + 1
      /\ stream'[Len(stream) + 1] = line /\ Len(stream) + 1 \in 1 .. Len(stream')
      /\ \A i \in 1 .. Len(stream) : i \in 1 .. Len(stream') /\ stream'[i] = stream[i]
      /\ \A i \in 1 .. Len(stream') : i = Len(stream) + 1 \/ i \in 1 .. Len(stream)
  <2>1. stream \in Seq(Lines) /\ cmds \in Seq(0 .. MaxCalls) /\ call \in 0 .. MaxCalls
    BY Zenon DEF TypeOK
  <2> QED BY <2>1, AppendIs
<1>2. Reply(call') = Reply(call) /\ line # Reply(call)
  BY Kinds, Zenon
<1>3. \A i \in 1 .. Len(stream') : stream'[i].kind = "event" \/ (i \in 1 .. Len(stream) /\ stream'[i] = stream[i])
  BY <1>1
<1>4. CASE /\ cmds # <<>> /\ cmds[Len(cmds)] = call
           /\ \A i \in 1 .. Len(cmds) - 1 : cmds[i] # call
           /\ \A i \in 1 .. Len(stream) : stream[i] # Reply(call)
           /\ ~owed <=> Len(cmds) = 1 /\ \A i \in 1 .. Len(stream) : stream[i].kind = "event"
  <2>1. (\A i \in 1 .. Len(stream) : stream[i].kind = "event")
          <=> (\A i \in 1 .. Len(stream') : stream'[i].kind = "event")
    BY <1>1, <1>3, Zenon
  <2>2. \A i \in 1 .. Len(stream') : stream'[i] # Reply(call)
    BY <1>1, <1>2, <1>4
  <2> QED BY <1>4, <2>1, <2>2, Zenon DEF OwnLast
<1>5. ASSUME cmds = <<>>, NEW p \in 1 .. Len(stream), stream[p] = Reply(call),
             \A i \in 1 .. Len(stream) : i > p => stream[i].kind = "event",
             \A i \in 1 .. Len(stream) : i < p => stream[i] # Reply(call),
             ~owed <=> \A i \in 1 .. Len(stream) : i < p => stream[i].kind = "event"
      PROVE  OwnLast'
  <2>1. p \in 1 .. Len(stream') /\ stream'[p] = Reply(call')
    BY <1>1, <1>2, <1>5, Zenon
  <2>2. \A i \in 1 .. Len(stream') : i > p => stream'[i].kind = "event"
    BY <1>3, <1>5, Zenon
  <2>3. \A i \in 1 .. Len(stream') : i < p => i \in 1 .. Len(stream) /\ stream'[i] = stream[i]
    BY <1>1
  <2>4. \A i \in 1 .. Len(stream') : i < p => stream'[i] # Reply(call')
    BY <1>2, <1>5, <2>3
  <2>5. (\A i \in 1 .. Len(stream) : i < p => stream[i].kind = "event")
          <=> (\A i \in 1 .. Len(stream') : i < p => stream'[i].kind = "event")
    BY <1>1, <2>3
  <2>6. ~owed' <=> \A i \in 1 .. Len(stream') : i < p => stream'[i].kind = "event"
    BY <1>5, <2>5
  <2> QED BY <1>5, <2>1, <2>2, <2>4, <2>6, Zenon DEF OwnLast
<1> QED BY <1>4, <1>5, Zenon DEF OwnLast

\* QEMU answers in order, so what it answers last is the own command.
LEMMA OwnLastAnswer ==
  ASSUME TypeOK, OwnLast, cmds # <<>>, stream' = Append(stream, Reply(cmds[1])), cmds' = Tail(cmds),
         Reply(cmds[1]) \in Lines, UNCHANGED <<call, owed>>
  PROVE  OwnLast'
<1>1. /\ Len(stream) \in Nat /\ Len(stream') = Len(stream) + 1
      /\ stream'[Len(stream) + 1] = Reply(cmds[1]) /\ Len(stream) + 1 \in 1 .. Len(stream')
      /\ \A i \in 1 .. Len(stream) : i \in 1 .. Len(stream') /\ stream'[i] = stream[i]
      /\ \A i \in 1 .. Len(stream') : i = Len(stream) + 1 \/ i \in 1 .. Len(stream)
  <2>1. stream \in Seq(Lines) /\ cmds \in Seq(0 .. MaxCalls) /\ call \in 0 .. MaxCalls
    BY Zenon DEF TypeOK
  <2> QED BY <2>1, AppendIs
<1>2. /\ Len(cmds) \in Nat \ {0} /\ cmds' \in Seq(0 .. MaxCalls) /\ Len(cmds') = Len(cmds) - 1
      /\ \A i \in 1 .. Len(cmds') : i + 1 \in 1 .. Len(cmds) /\ cmds'[i] = cmds[i + 1]
  BY TailIs, Zenon DEF TypeOK
<1>3. /\ cmds[Len(cmds)] = call
      /\ \A i \in 1 .. Len(cmds) - 1 : cmds[i] # call
      /\ \A i \in 1 .. Len(stream) : stream[i] # Reply(call)
      /\ ~owed <=> Len(cmds) = 1 /\ \A i \in 1 .. Len(stream) : stream[i].kind = "event"
  BY DEF OwnLast
<1>4. Reply(call') = Reply(call)
  BY Zenon
<1>5. CASE Len(cmds) = 1
  <2>1. cmds' = <<>>
    BY <1>2, <1>5, SeqIs
  <2>2. PICK p \in 1 .. Len(stream') : p = Len(stream) + 1
    BY <1>1, Zenon
  <2>3. stream'[p] = Reply(call')
    BY <1>1, <1>3, <1>4, <1>5, <2>2, Zenon
  <2>4. \A i \in 1 .. Len(stream') : ~(i > p) /\ (i < p => i \in 1 .. Len(stream) /\ stream'[i] = stream[i])
    BY <1>1, <2>2
  <2>5. \A i \in 1 .. Len(stream) : i < p
    BY <1>1, <2>2
  <2>6. \A i \in 1 .. Len(stream') : i < p => stream'[i] # Reply(call')
    BY <1>3, <1>4, <2>4, Zenon
  <2>7. (\A i \in 1 .. Len(stream) : stream[i].kind = "event")
          <=> (\A i \in 1 .. Len(stream') : i < p => stream'[i].kind = "event")
    BY <1>1, <2>4, <2>5, Zenon
  <2>8. ~owed' <=> \A i \in 1 .. Len(stream') : i < p => stream'[i].kind = "event"
    BY <1>3, <1>5, <2>7
  <2>9. \A i \in 1 .. Len(stream') : i > p => stream'[i].kind = "event"
    BY <2>4, Zenon
  <2> QED BY <2>1, <2>3, <2>6, <2>8, <2>9, Zenon DEF OwnLast
<1>6. CASE Len(cmds) # 1
  <2>1. Len(cmds') \in Nat \ {0} /\ Len(cmds') + 1 = Len(cmds) /\ 1 \in 1 .. Len(cmds) - 1
        /\ Len(cmds') \in 1 .. Len(cmds')
    BY <1>2, <1>6
  <2>2. cmds' # <<>> /\ cmds'[Len(cmds')] = call'
    BY <1>2, <1>3, <2>1, Zenon
  <2>3. \A i \in 1 .. Len(cmds') - 1 : cmds'[i] # call'
    <3> TAKE i \in 1 .. Len(cmds') - 1
    <3>1. i \in 1 .. Len(cmds') /\ i + 1 \in 1 .. Len(cmds) - 1
      BY <2>1
    <3> QED BY <1>2, <1>3, <3>1
  <2>4. Reply(cmds[1]) # Reply(call)
    BY <1>3, <2>1, Kinds, Zenon
  <2>5. \A i \in 1 .. Len(stream') : stream'[i] # Reply(call')
    BY <1>1, <1>3, <1>4, <2>4, Zenon
  <2>6. ~(\A i \in 1 .. Len(stream') : stream'[i].kind = "event")
    BY <1>1, Kinds, Zenon
  <2>7. owed'
    BY <1>3, <1>6, Zenon
  <2> QED BY <2>2, <2>3, <2>5, <2>6, <2>7, Zenon DEF OwnLast
<1> QED BY <1>5, <1>6

\* As a command is sent its answer is the last one to come.
LEMMA OwnLastWrite ==
  ASSUME TypeOK, \A i \in 1 .. Len(cmds) : cmds[i] # call,
         \A i \in 1 .. Len(stream) : stream[i] # Reply(call),
         owed' = AnswerOwed, cmds' = Append(cmds, call), UNCHANGED <<call, stream>>
  PROVE  OwnLast' /\ owed' \in BOOLEAN
<1>1. /\ Len(cmds) \in Nat /\ cmds' \in Seq(0 .. MaxCalls) /\ Len(cmds') = Len(cmds) + 1
      /\ cmds'[Len(cmds) + 1] = call
      /\ \A i \in 1 .. Len(cmds) : cmds'[i] = cmds[i]
  <2>1. stream \in Seq(Lines) /\ cmds \in Seq(0 .. MaxCalls) /\ call \in 0 .. MaxCalls
    BY Zenon DEF TypeOK
  <2> QED BY <2>1, AppendIs
<1>2. DOMAIN stream = 1 .. Len(stream) /\ (cmds = <<>> <=> Len(cmds) = 0)
  BY SeqIs, Zenon DEF TypeOK
<1>3. ~AnswerOwed <=> cmds = <<>> /\ \A i \in 1 .. Len(stream) : stream[i].kind = "event"
  BY <1>2 DEF AnswerOwed, Range
<1>4. cmds = <<>> <=> Len(cmds') = 1
  BY <1>1, <1>2
<1>5. ~owed' <=> Len(cmds') = 1 /\ \A i \in 1 .. Len(stream') : stream'[i].kind = "event"
  BY <1>3, <1>4
<1>6. /\ cmds' # <<>> /\ cmds'[Len(cmds')] = call'
      /\ \A i \in 1 .. Len(cmds') - 1 : cmds'[i] # call'
  BY <1>1
<1>7. \A i \in 1 .. Len(stream') : stream'[i] # Reply(call')
  OBVIOUS
<1>8. owed' \in BOOLEAN
  BY DEF AnswerOwed
<1> QED BY <1>5, <1>6, <1>7, <1>8 DEF OwnLast

-----------------------------------------------------------------------------
(* The steps.                                                              *)

\* A step that moves no line, and starts a call at most.
LEMMA QuietStep ==
  ASSUME TypeOK, LineInv, OrderInv, UNCHANGED <<evtVars, stream, cmds, emitted>>,
         cut' <=> buf', call' \in {call, call + 1}
  PROVE  LineInv' /\ OrderInv'
<1>1. UNCHANGED <<events, delivered, dropped, stream, cmds, emitted>>
  BY DEF evtVars
<1>2. call \in Nat /\ \A i \in 1 .. Len(cmds) : cmds[i] \in Nat
  <2>1. MaxCalls \in Nat /\ call \in 0 .. MaxCalls /\ cmds \in Seq(0 .. MaxCalls)
    BY QMPAssumption, Zenon DEF TypeOK
  <2>2. \A i \in 1 .. Len(cmds) : cmds[i] \in 0 .. MaxCalls
    BY <2>1, SeqIs
  <2> QED BY <2>1, <2>2
<1>3. 0 .. call \subseteq 0 .. call' /\ \A i \in 1 .. Len(cmds) : cmds[i] <= call => cmds[i] <= call'
  BY <1>2
<1>4. \A line : IsEvent(line) <=> IsEvent(line)'
  BY <1>1 DEF IsEvent
<1>5. \A i \in 1 .. Len(stream) : Sent(stream[i]) => Sent(stream[i])'
  BY <1>1, <1>3, <1>4 DEF Sent
<1>6. LineInv'
  BY <1>1, <1>3, <1>4, <1>5 DEF LineInv
<1>7. OrderInv'
  BY <1>1 DEF OrderInv
<1> QED BY <1>6, <1>7

\* A step of the callbacks or of the context, and lines that arrive.
LEMMA BackgroundStep ==
  ASSUME IInv, CallbackStep \/ MainCtxEnds \/ Arrive \/ UNCHANGED vars
  PROVE  IInv'
<1>1. UNCHANGED <<pc, buf, callVars, evtVars, repVars, stream, cut, cmds, emitted>>
  BY DEF CallbackStep, Callback, CallbackSetsDeadline, MainCtxEnds, Arrive, vars, qemuVars, sockVars
<1>2. /\ UNCHANGED <<pc, buf, call, waiting, onMain, events, delivered, dropped, owed, got>>
      /\ UNCHANGED <<stream, cut, cmds, emitted>>
  BY <1>1 DEF callVars, evtVars, repVars
<1>3. TypeOK'
  <2>1. TypeOK
    BY DEF IInv
  <2>2. /\ mainCtx \in {"live", "cancelled", "expired"} /\ armed \in BOOLEAN
        /\ conn \in {"open", "closed"} /\ deadline \in {"none", "future", "past"} /\ running \in Nat
        /\ arrived \in 0 .. 2
    BY <2>1, Zenon DEF TypeOK
  <2>3. /\ mainCtx' \in {"live", "cancelled", "expired"} /\ armed' \in BOOLEAN
        /\ conn' \in {"open", "closed"} /\ deadline' \in {"none", "future", "past"} /\ running' \in Nat
        /\ arrived' \in 0 .. 2
    <3>1. CASE Callback
      <4>1. UNCHANGED <<mainCtx, deadline, arrived>> /\ armed' = FALSE
        BY <3>1 DEF Callback, qemuVars, sockVars
      <4>2. running' \in {running, running + 1} /\ conn' \in {conn, "closed"}
        BY <3>1 DEF Callback
      <4>3. running' \in Nat
        BY <2>2, <4>2
      <4> QED BY <2>2, <4>1, <4>2, <4>3, Zenon
    <3>2. CASE CallbackSetsDeadline
      BY <2>2, <3>2 DEF CallbackSetsDeadline, qemuVars, sockVars
    <3>3. CASE MainCtxEnds
      BY <2>2, <3>3 DEF MainCtxEnds, qemuVars, sockVars
    <3>4. CASE Arrive
      <4>1. arrived' = arrived + 1 /\ arrived < PartsLeft /\ PartsLeft \in {1, 2}
        BY <3>4 DEF Arrive, PartsLeft
      <4>2. arrived' \in 0 .. 2
        BY <2>2, <4>1
      <4> QED BY <2>2, <3>4, <4>2 DEF Arrive, ctxVars, cbVars
    <3>5. CASE UNCHANGED vars
      BY <2>2, <3>5, Zenon DEF vars, ctxVars, cbVars, qemuVars, sockVars
    <3> QED BY <3>1, <3>2, <3>3, <3>4, <3>5 DEF CallbackStep
  <2> QED BY <1>2, <2>1, <2>2, <2>3, Zenon DEF TypeOK
<1>4. LineInv' /\ OrderInv'
  BY <1>1, <1>2, QuietStep DEF IInv, LineInv
<1>5. HandshakeInv' /\ WaitInv'
  BY <1>2, Zenon DEF IInv, HandshakeInv, WaitInv, Executing
<1>6. AnswerInv'
  BY <1>2, Zenon DEF IInv, AnswerInv, OwnLast, ReplyIsOwn, Returned, Executing
<1> QED BY <1>3, <1>4, <1>5, <1>6, Zenon DEF IInv

\* The end of a handshake or of a call, and Close.
LEMMA EndingStep ==
  ASSUME IInv, StopHandshake \/ StopCancel \/ ClearDeadline \/ Close
  PROVE  IInv'
<1>1. UNCHANGED <<call, buf, evtVars, stream, arrived, cut, cmds, emitted>>
  BY Zenon DEF StopHandshake, StopCancel, ClearDeadline, Close, qemuVars, sockVars, callVars
<1>2. UNCHANGED <<call, buf, events, delivered, dropped, stream, arrived, cut, cmds, emitted>>
  BY <1>1 DEF evtVars
<1>3. pc' \in {"idle", "failed", "clear", "closed"}
  BY Zenon DEF StopHandshake, StopCancel, ClearDeadline, Close, HandshakeFails
<1>4. TypeOK'
  <2>1. TypeOK
    BY DEF IInv
  <2>2. /\ mainCtx' \in {"live", "cancelled", "expired"} /\ armed' \in BOOLEAN
        /\ conn' \in {"open", "closed"} /\ deadline' \in {"none", "future", "past"} /\ running' \in Nat
    BY <2>1, Zenon DEF TypeOK, StopHandshake, StopCancel, ClearDeadline, Close, HandshakeFails, ctxVars, cbVars
  <2>3. NoLine \in Lines
    BY DEF NoLine, Lines
  <2>4. waiting' \in EventNames \cup {""} /\ onMain' \in BOOLEAN /\ owed' \in BOOLEAN /\ got' \in Lines
    <3>1. CASE ClearDeadline
      BY <2>3, <3>1, Zenon DEF ClearDeadline
    <3>2. CASE StopHandshake \/ StopCancel \/ Close
      <4>1. UNCHANGED <<waiting, onMain, owed, got>>
        BY <3>2 DEF StopHandshake, StopCancel, Close, callVars, repVars
      <4> QED BY <2>1, <4>1, Zenon DEF TypeOK
    <3> QED BY <3>1, <3>2, Zenon
  <2> QED BY <1>2, <1>3, <2>1, <2>2, <2>4, Zenon DEF TypeOK
<1>5. LineInv' /\ OrderInv'
  BY <1>1, <1>2, QuietStep, SMTT(30) DEF IInv, LineInv
<1>6. HandshakeInv' /\ WaitInv' /\ AnswerInv'
  BY <1>3 DEF HandshakeInv, WaitInv, AnswerInv, ReplyIsOwn, Returned
<1> QED BY <1>4, <1>5, <1>6 DEF IInv

LEMMA NextNumber ==
  ASSUME NEW n \in Nat, NEW c \in 0 .. n, c < n
  PROVE  /\ c \in Nat /\ c + 1 \in 0 .. n
         /\ \A x \in 0 .. n : x <= c => x # c + 1
         /\ \A k \in 0 .. c : k # c + 1
OBVIOUS

\* A call starts: the numbers of the commands under way are smaller.
LEMMA StartStep ==
  ASSUME IInv, NEW main \in BOOLEAN,
         Execute(main) \/ \E name \in EventNames : WaitForEvent(main, name)
  PROVE  IInv'
<1>1. TypeOK /\ LineInv /\ OrderInv /\ MaxCalls \in Nat
  BY QMPAssumption, Zenon DEF IInv
<1>2. ASSUME NEW ev \in EventNames \cup {""}, NEW at \in {"write", "read"}, StartCall(main, ev, at),
             got' \in {got, NoLine}, UNCHANGED <<buf, evtVars, owed, qemuVars>>
      PROVE  /\ TypeOK' /\ LineInv' /\ OrderInv' /\ HandshakeInv'
             /\ call' = call + 1 /\ waiting' = ev /\ pc' = at
             /\ UNCHANGED <<events, stream, cmds>>
             /\ \A i \in 1 .. Len(cmds) : cmds[i] # call'
             /\ \A i \in 1 .. Len(stream) : stream[i] # Reply(call')
  <2>1. /\ call < MaxCalls /\ call' = call + 1 /\ waiting' = ev /\ onMain' = main /\ pc' = at
        /\ armed' = TRUE /\ UNCHANGED <<mainCtx, running, conn>>
        /\ deadline' \in {"past", "future"}
    BY <1>2, Zenon DEF StartCall, Expiry
  <2>0. call < MaxCalls /\ call' = call + 1
    BY <2>1, Zenon
  <2>2. UNCHANGED <<buf, events, delivered, dropped, owed, stream, arrived, cut, cmds, emitted>>
    BY <1>2, Zenon DEF evtVars, qemuVars, sockVars
  <2>3. call \in Nat /\ call' \in 0 .. MaxCalls /\ got' \in Lines
    <3>1. NoLine \in Lines
      BY Zenon DEF NoLine, Lines
    <3>2. call \in 0 .. MaxCalls /\ got \in Lines
      BY <1>1, Zenon DEF TypeOK
    <3>3. call \in Nat /\ call' \in 0 .. MaxCalls
      <4>1. MaxCalls \in Nat
        BY <1>1, Zenon
      <4>2. call \in 0 .. MaxCalls
        BY <3>2, Zenon
      <4>3. call \in Nat /\ call + 1 \in 0 .. MaxCalls
        BY <2>0, <4>1, <4>2, NextNumber, Zenon
      <4> QED BY <2>0, <4>3, Zenon
    <3> QED BY <1>2, <3>1, <3>2, <3>3, Zenon
  <2>9. (\A x \in 0 .. MaxCalls : x <= call => x # call') /\ \A k \in 0 .. call : k # call'
    <3>1. MaxCalls \in Nat /\ call \in 0 .. MaxCalls
      BY <1>1, Zenon DEF TypeOK
    <3>2. (\A x \in 0 .. MaxCalls : x <= call => x # call + 1) /\ \A k \in 0 .. call : k # call + 1
      BY <2>0, <3>1, NextNumber, Zenon
    <3> QED BY <2>0, <3>2, Zenon
  <2>4. TypeOK'
    BY <1>1, <2>1, <2>2, <2>3, ZenonT(40) DEF TypeOK
  <2>5. LineInv' /\ OrderInv'
    <3>1. UNCHANGED <<evtVars, stream, cmds, emitted>> /\ (cut' <=> buf') /\ call' \in {call, call + 1}
      <4>1. cut' <=> buf'
        BY <1>1, <2>2, Zenon DEF LineInv
      <4>2. call' \in {call, call + 1}
        BY <2>0, Zenon
      <4>3. UNCHANGED <<stream, cmds, emitted>> /\ UNCHANGED evtVars
        BY <1>2, <2>2, Zenon
      <4> QED BY <4>1, <4>2, <4>3, Zenon
    <3> QED BY <1>1, <3>1, QuietStep, Zenon
  <2>6. HandshakeInv'
    BY <2>1, Zenon DEF HandshakeInv
  <2>7. \A i \in 1 .. Len(cmds) : cmds[i] # call'
    <3>1. \A i \in 1 .. Len(cmds) : cmds[i] <= call
      BY <1>1, Zenon DEF LineInv
    <3>2. \A x \in 0 .. MaxCalls : x <= call => x # call'
      BY <2>9, Zenon
    <3>3. \A i \in 1 .. Len(cmds) : cmds[i] \in 0 .. MaxCalls
      BY <1>1, SeqIs, Zenon DEF TypeOK
    <3> QED BY <3>1, <3>2, <3>3, Zenon
  <2>8. \A i \in 1 .. Len(stream) : stream[i] # Reply(call')
    <3> TAKE i \in 1 .. Len(stream)
    <3>1. Sent(stream[i])
      BY <1>1, Zenon DEF LineInv
    <3>2. \A k \in 0 .. call : k # call'
      BY <2>9, Zenon
    <3>3. \A k \in 0 .. call : Reply(k) # Reply(call')
      <4> TAKE k \in 0 .. call
      <4>1. Reply(k).id = k /\ Reply(call').id = call'
        BY Kinds, Zenon
      <4> QED BY <3>2, <4>1, Zenon
    <3>4. Reply(call').kind # "event" /\ Reply(call') # Greeting
      BY Kinds, Zenon
    <3> QED BY <3>1, <3>3, <3>4, Zenon DEF Sent, IsEvent
  <2> QED BY <2>1, <2>2, <2>4, <2>5, <2>6, <2>7, <2>8, Zenon
<1>3. CASE Execute(main)
  <2>1. StartCall(main, "", "write") /\ got' = NoLine /\ UNCHANGED <<buf, evtVars, owed, qemuVars>>
    BY <1>3, Zenon DEF Execute
  <2>2. /\ TypeOK' /\ LineInv' /\ OrderInv' /\ HandshakeInv'
        /\ waiting' = "" /\ pc' = "write" /\ UNCHANGED <<stream, cmds>>
        /\ \A i \in 1 .. Len(cmds) : cmds[i] # call'
        /\ \A i \in 1 .. Len(stream) : stream[i] # Reply(call')
    BY <1>2, <2>1, Zenon
  <2>3. WaitInv' /\ AnswerInv'
    BY <2>1, <2>2, Zenon DEF WaitInv, AnswerInv, Executing, ReplyIsOwn, Returned
  <2> QED BY <2>2, <2>3, Zenon DEF IInv
<1>4. ASSUME NEW ev \in EventNames, WaitForEvent(main, ev), Buffered(ev) = {}, StartCall(main, ev, "read"),
             UNCHANGED <<buf, evtVars, repVars, qemuVars>>
      PROVE  IInv'
  <2>1. got' = got /\ UNCHANGED <<buf, evtVars, owed, qemuVars>>
    BY <1>4 DEF repVars
  <2>2. /\ TypeOK' /\ LineInv' /\ OrderInv' /\ HandshakeInv'
        /\ waiting' = ev /\ pc' = "read" /\ UNCHANGED events
    BY <1>2, <1>4, <2>1, Zenon
  <2>3. ~Executing'
    BY <2>2, QMPAssumption, Zenon DEF Executing
  <2>4. \A i \in 1 .. Len(events) : events[i].name # ev
    <3>1. DOMAIN events = 1 .. Len(events)
      BY <1>1, SeqIs, Zenon DEF TypeOK
    <3> QED BY <1>4, <3>1 DEF Buffered
  <2>5. WaitInv' /\ AnswerInv'
    BY <2>2, <2>3, <2>4 DEF WaitInv, AnswerInv, ReplyIsOwn, Returned
  <2> QED BY <2>2, <2>5 DEF IInv
<1>5. ASSUME NEW ev \in EventNames, NEW i \in Buffered(ev), Idle, call < MaxCalls,
             delivered' = delivered \cup {events[i].id},
             events' = SubSeq(events, 1, i - 1) \o SubSeq(events, i + 1, Len(events)),
             call' = call + 1,
             UNCHANGED <<pc, waiting, onMain, buf, repVars, dropped, ctxVars, qemuVars>>
      PROVE  IInv'
  <2>1. events \in Seq(Lines) /\ DOMAIN events = 1 .. Len(events) /\ Len(events) \in Nat
    BY <1>1, SeqIs, Zenon DEF TypeOK
  <2>2. i \in 1 .. Len(events)
    BY <2>1, Zenon DEF Buffered
  <2>3. /\ UNCHANGED <<pc, waiting, onMain, buf, owed, got, dropped, mainCtx, armed, running, deadline, conn>>
        /\ UNCHANGED <<stream, arrived, cut, cmds, emitted>> /\ pc = "idle"
    BY <1>5 DEF repVars, ctxVars, cbVars, qemuVars, sockVars, Idle
  <2>4. OrderInv' /\ delivered' \subseteq 1 .. emitted
    BY <1>1, <1>5, <2>2, <2>3, TakeKeepsOrder, Zenon
  <2>5. /\ events' \in Seq(Lines) /\ Len(events') = Len(events) - 1
        /\ \A j \in 1 .. Len(events) - 1 : events'[j] = events[IF j < i THEN j ELSE j + 1]
    BY <1>5, <2>1, <2>2, RemoveAtIs, Zenon DEF RemoveAt
  <2>6. \A j \in 1 .. Len(events') : \E k \in 1 .. Len(events) : events'[j] = events[k]
    <3> TAKE j \in 1 .. Len(events')
    <3>1. j \in 1 .. Len(events) /\ j + 1 \in 1 .. Len(events)
      BY <2>1, <2>5
    <3> QED BY <2>5, <3>1
  <2>7. call \in Nat /\ call' \in 0 .. MaxCalls
    <3>1. call \in 0 .. MaxCalls /\ MaxCalls \in Nat
      BY <1>1, Zenon DEF TypeOK
    <3> QED BY <1>5, <3>1
  <2>8. TypeOK'
    <3>1. delivered' \subseteq 1 .. MaxEvents
      <4>1. emitted \in 0 .. MaxEvents /\ MaxEvents \in Nat
        BY <1>1, QMPAssumption, Zenon DEF TypeOK
      <4>2. 1 .. emitted \subseteq 1 .. MaxEvents
        BY <4>1
      <4> QED BY <2>4, <4>2
    <3>2. Len(events') <= MaxBufferedEvents
      <4>1. Len(events) <= MaxBufferedEvents /\ MaxBufferedEvents \in Nat
        BY <1>1, QMPAssumption, Zenon DEF TypeOK
      <4>2. Len(events') = Len(events) - 1
        BY <2>5, SMTT(30)
      <4> QED BY <2>1, <4>1, <4>2
    <3> QED BY <1>1, <2>3, <2>5, <2>7, <3>1, <3>2, ZenonT(40) DEF TypeOK
  <2>9. LineInv'
    <3>1. \A j \in 1 .. Len(cmds) : cmds[j] \in Nat /\ cmds[j] <= call
      <4>1. MaxCalls \in Nat /\ \A j \in 1 .. Len(cmds) : cmds[j] \in 0 .. MaxCalls
        BY <1>1, SeqIs, Zenon DEF TypeOK
      <4>2. \A j \in 1 .. Len(cmds) : cmds[j] <= call
        BY <1>1 DEF LineInv
      <4> QED BY <4>1, <4>2
    <3>2. \A j \in 1 .. Len(cmds) : cmds[j] <= call'
      BY <1>5, <2>7, <3>1, SMTT(30)
    <3>3. 0 .. call \subseteq 0 .. call'
      BY <1>5, <2>7
    <3>4. \A line : IsEvent(line) <=> IsEvent(line)'
      BY <2>3 DEF IsEvent
    <3>5. \A j \in 1 .. Len(stream) : Sent(stream[j])'
      BY <1>1, <2>3, <3>3, <3>4, Zenon DEF Sent, LineInv
    <3>6. \A j \in 1 .. Len(events') : IsEvent(events'[j])
      BY <1>1, <2>6, Zenon DEF LineInv
    <3> QED BY <1>1, <2>3, <3>2, <3>4, <3>5, <3>6, Zenon DEF LineInv, IsEvent
  <2>10. HandshakeInv' /\ WaitInv' /\ AnswerInv'
    BY <2>3, SMTT(30) DEF HandshakeInv, WaitInv, AnswerInv, ReplyIsOwn, Returned
  <2> QED BY <2>4, <2>8, <2>9, <2>10 DEF IInv
<1>6. ASSUME NEW ev \in EventNames, WaitForEvent(main, ev) PROVE IInv'
  BY <1>4, <1>5, <1>6, Zenon DEF WaitForEvent
<1> QED BY <1>3, <1>6

\* No event is in the stream before QEMU has emitted one.
LEMMA NoEventYet ==
  ASSUME emitted = 0, NEW line, Sent(line) PROVE line.kind # "event"
<1>1. \A k \in 1 .. emitted : FALSE
  OBVIOUS
<1> QED BY <1>1, Kinds, Zenon DEF Sent, IsEvent

\* A line is read completely: what is left of the stream, and the queue, hold what they may.
LEMMA ReadKeepsLines ==
  ASSUME TypeOK, LineInv, OrderInv, ReadLine, UNCHANGED call,
         \A i \in 1 .. Len(events') : IsEvent(events'[i])
  PROVE  LineInv' /\ stream' \in Seq(Lines) /\ arrived' \in 0 .. 2 /\ cut' \in BOOLEAN /\ buf' \in BOOLEAN
<1>1. /\ stream' \in Seq(Lines) /\ \A i \in 1 .. Len(stream') : Sent(stream'[i])
      /\ UNCHANGED <<emitted, cmds>> /\ cut' = FALSE /\ buf' = FALSE /\ arrived' = 0
  BY ReadLineEffect, Zenon
<1>2. 0 \in 0 .. 2
  OBVIOUS
<1>3. \A i \in 1 .. Len(events') : IsEvent(events[i])'
  BY <1>1, Zenon DEF IsEvent
<1>4. \A i \in 1 .. Len(stream') : Sent(stream[i])'
  BY <1>1 DEF Sent, IsEvent
<1>5. \A i \in 1 .. Len(cmds') : cmds'[i] <= call'
  BY <1>1 DEF LineInv
<1> QED BY <1>1, <1>2, <1>3, <1>4, <1>5, Zenon DEF LineInv

\* The same when the line is no event and is passed over.
LEMMA SkipStep ==
  ASSUME TypeOK, LineInv, OrderInv, ReadLine, stream[1].kind # "event", UNCHANGED <<evtVars, call>>
  PROVE  /\ LineInv' /\ OrderInv' /\ UNCHANGED <<emitted, cmds>>
         /\ stream' \in Seq(Lines) /\ arrived' \in 0 .. 2 /\ cut' \in BOOLEAN /\ buf' \in BOOLEAN
<1>1. UNCHANGED events
  BY DEF evtVars
<1>2. \A i \in 1 .. Len(events') : IsEvent(events'[i])
  BY <1>1 DEF LineInv
<1> QED BY <1>2, ReadKeepsLines, SkipKeepsOrder, ReadLineEffect, Zenon

\* A read that fails keeps what it has read.
LEMMA ErrorStep ==
  ASSUME TypeOK, LineInv, ReadError
  PROVE  (cut' <=> buf') /\ arrived' \in 0 .. 2 /\ cut' \in BOOLEAN /\ buf' \in BOOLEAN
<1>1. arrived \in 0 .. 2 /\ cut \in BOOLEAN /\ buf \in BOOLEAN /\ (cut <=> buf)
  BY Zenon DEF TypeOK, LineInv
<1>2. 0 \in 0 .. 2
  OBVIOUS
<1>3. CASE UNCHANGED <<buf, arrived, cut>>
  BY <1>1, <1>3
<1>4. CASE cut' = TRUE /\ buf' = TRUE /\ arrived' = 0
  BY <1>2, <1>4, Zenon
<1> QED BY <1>3, <1>4, Zenon DEF ReadError

\* NewClient's steps: the line it takes for the answer to qmp_capabilities is no event.
LEMMA GreetStep ==
  ASSUME IInv, ReadGreeting \/ WriteCapabilities \/ ReadCapabilities
  PROVE  IInv'
<1>1. TypeOK /\ LineInv /\ OrderInv /\ HandshakeInv
  BY Zenon DEF IInv
<1>2. ASSUME TypeOK', LineInv', OrderInv', HandshakeInv', pc' \in {"caps", "capsRead", "handshaken", "failed"}
      PROVE  IInv'
  BY <1>2, Zenon DEF IInv, WaitInv, AnswerInv, ReplyIsOwn, Returned
<1>3. UNCHANGED <<call, waiting, onMain, events, delivered, dropped, evtVars, owed, got>>
  BY DEF ReadGreeting, WriteCapabilities, ReadCapabilities, callVars, evtVars, repVars
<1>4. CASE HandshakeFails /\ UNCHANGED <<stream, arrived, cut, cmds, emitted, buf>>
  <2>1. pc' = "failed" /\ conn' = "closed" /\ armed' = FALSE /\ UNCHANGED <<running, deadline, mainCtx>>
    BY <1>4 DEF HandshakeFails
  <2>2. TypeOK'
    BY <1>1, <1>3, <1>4, <2>1, Zenon DEF TypeOK
  <2>3. (cut' <=> buf') /\ call' \in {call, call + 1}
    BY <1>1, <1>3, <1>4 DEF LineInv
  <2>4. LineInv' /\ OrderInv'
    BY <1>1, <1>3, <1>4, <2>3, QuietStep
  <2>5. HandshakeInv'
    BY <2>1 DEF HandshakeInv
  <2> QED BY <1>2, <2>1, <2>2, <2>4, <2>5
<1>5. CASE pc = "greet" /\ ReadLine /\ pc' = "caps" /\ UNCHANGED ctxVars
  <2>1. emitted = 0 /\ cmds = <<>>
    BY <1>1, <1>5 DEF HandshakeInv
  <2>2. stream[1].kind # "event"
    <3>1. IsEvent(stream[1]) \/ stream[1].kind # "event"
      BY <1>1, <1>5, ReadLineEffect, Zenon
    <3> QED BY <2>1, <3>1, NoEventYet DEF Sent
  <2>3. /\ LineInv' /\ OrderInv' /\ UNCHANGED <<emitted, cmds>>
        /\ stream' \in Seq(Lines) /\ arrived' \in 0 .. 2 /\ cut' \in BOOLEAN /\ buf' \in BOOLEAN
    BY <1>1, <1>3, <1>5, <2>2, SkipStep
  <2>4. UNCHANGED <<mainCtx, armed, running, deadline, conn>>
    BY <1>5 DEF ctxVars, cbVars
  <2>5. TypeOK'
    BY <1>1, <1>3, <1>5, <2>3, <2>4, Zenon DEF TypeOK
  <2>6. HandshakeInv'
    BY <1>5, <2>1, <2>3 DEF HandshakeInv
  <2> QED BY <1>2, <1>5, <2>3, <2>5, <2>6
<1>6. CASE pc = "greet" /\ ReadError /\ pc' = "caps" /\ UNCHANGED <<ctxVars, stream, cmds, emitted>>
  <2>1. (cut' <=> buf') /\ arrived' \in 0 .. 2 /\ cut' \in BOOLEAN /\ buf' \in BOOLEAN
    BY <1>1, <1>6, ErrorStep
  <2>2. UNCHANGED <<mainCtx, armed, running, deadline, conn>>
    BY <1>6 DEF ctxVars, cbVars
  <2>3. TypeOK'
    BY <1>1, <1>3, <1>6, <2>1, <2>2, Zenon DEF TypeOK
  <2>4. call' \in {call, call + 1}
    BY <1>3
  <2>5. LineInv' /\ OrderInv'
    BY <1>1, <1>3, <1>6, <2>1, <2>4, QuietStep, Zenon
  <2>6. HandshakeInv'
    BY <1>1, <1>6, Zenon DEF HandshakeInv
  <2> QED BY <1>2, <1>6, <2>3, <2>5, <2>6, Zenon
<1>7. CASE /\ pc = "caps" /\ cmds' = Append(cmds, 0) /\ pc' = "capsRead"
           /\ UNCHANGED <<ctxVars, sockVars, emitted, buf>>
  <2>1. emitted = 0 /\ cmds = <<>>
    BY <1>1, <1>7 DEF HandshakeInv
  <2>2. cmds' = <<0>>
    BY <1>7, <2>1
  <2>3. UNCHANGED <<mainCtx, armed, running, deadline, conn, stream, arrived, cut, emitted, buf>>
    BY <1>7 DEF ctxVars, cbVars, sockVars
  <2>4. call \in 0 .. MaxCalls /\ MaxCalls \in Nat
    BY <1>1, QMPAssumption, Zenon DEF TypeOK
  <2>5. cmds' \in Seq(0 .. MaxCalls) /\ \A i \in 1 .. Len(cmds') : cmds'[i] <= call
    BY <2>2, <2>4
  <2>6. TypeOK'
    BY <1>1, <1>3, <1>7, <2>3, <2>5, ZenonT(40) DEF TypeOK
  <2>7. LineInv'
    BY <1>1, <1>3, <2>3, <2>5 DEF LineInv, Sent, IsEvent
  <2>8. OrderInv'
    BY <1>1, <1>3, <2>3 DEF OrderInv, EventIds, Ordered
  <2>9. HandshakeInv'
    BY <1>7, <2>1, <2>2, <2>3, Zenon DEF HandshakeInv
  <2> QED BY <1>2, <1>7, <2>6, <2>7, <2>8, <2>9, Zenon
<1>8. CASE /\ pc = "capsRead" /\ ReadLine /\ pc' = "handshaken" /\ deadline' = "none"
           /\ UNCHANGED <<cbVars, conn>>
  <2>1. stream[1].kind # "event"
    <3>1. IsEvent(stream[1]) \/ stream[1].kind # "event"
      BY <1>1, <1>8, ReadLineEffect, Zenon
    <3>2. emitted = 0 \/ stream[1].kind # "event"
      BY <1>1, <1>8, Zenon DEF HandshakeInv
    <3> QED BY <3>1, <3>2, NoEventYet DEF Sent
  <2>2. /\ LineInv' /\ OrderInv' /\ UNCHANGED <<emitted, cmds>>
        /\ stream' \in Seq(Lines) /\ arrived' \in 0 .. 2 /\ cut' \in BOOLEAN /\ buf' \in BOOLEAN
    BY <1>1, <1>3, <1>8, <2>1, SkipStep
  <2>3. UNCHANGED <<mainCtx, armed, running, conn>>
    BY <1>8 DEF cbVars
  <2>4. TypeOK'
    BY <1>1, <1>3, <1>8, <2>2, <2>3, Zenon DEF TypeOK
  <2>5. HandshakeInv'
    BY <1>8 DEF HandshakeInv
  <2> QED BY <1>2, <1>8, <2>2, <2>4, <2>5, Zenon
<1> QED
  BY <1>4, <1>5, <1>6, <1>7, <1>8
  DEF ReadGreeting, WriteCapabilities, ReadCapabilities, qemuVars, sockVars

\* Execute sends its command, or gives up.
LEMMA WriteStep == ASSUME IInv, WriteCommand PROVE IInv'
<1>1. TypeOK /\ LineInv /\ OrderInv /\ AnswerInv /\ pc = "write"
  BY Zenon DEF IInv, WriteCommand
<1>2. /\ UNCHANGED <<call, waiting, onMain, buf, events, delivered, dropped, evtVars, got, mainCtx, armed>>
      /\ UNCHANGED <<running, deadline, conn, stream, arrived, cut, emitted>>
  BY DEF WriteCommand, callVars, evtVars, ctxVars, cbVars, sockVars
<1>3. /\ Executing /\ got = NoLine /\ waiting = ""
      /\ \A i \in 1 .. Len(cmds) : cmds[i] # call
      /\ \A i \in 1 .. Len(stream) : stream[i] # Reply(call)
  BY <1>1, Zenon DEF AnswerInv, Executing
<1>4. CASE owed' = AnswerOwed /\ cmds' = Append(cmds, call) /\ pc' = "read"
  <2>1. OwnLast' /\ owed' \in BOOLEAN
    BY <1>1, <1>2, <1>3, <1>4, OwnLastWrite, Zenon
  <2>2. cmds \in Seq(0 .. MaxCalls) /\ call \in 0 .. MaxCalls /\ MaxCalls \in Nat
    BY <1>1, QMPAssumption, Zenon DEF TypeOK
  <2>3. /\ cmds' \in Seq(0 .. MaxCalls) /\ cmds'[Len(cmds) + 1] = call
        /\ \A i \in 1 .. Len(cmds) : cmds'[i] = cmds[i]
        /\ \A i \in 1 .. Len(cmds') : i = Len(cmds) + 1 \/ i \in 1 .. Len(cmds)
    BY <1>4, <2>2, AppendIs
  <2>4. call <= call
    BY <2>2
  <2>5. \A i \in 1 .. Len(cmds') : cmds'[i] <= call
    BY <1>1, <2>3, <2>4 DEF LineInv
  <2>6. TypeOK'
    BY <1>1, <1>2, <1>4, <2>1, <2>3, ZenonT(40) DEF TypeOK
  <2>7. LineInv' /\ OrderInv'
    <3>1. LineInv'
      BY <1>1, <1>2, <2>5, Zenon DEF LineInv, Sent, IsEvent
    <3>2. EventIds(events)' = EventIds(events) /\ EventIds(stream)' = EventIds(stream)
      BY <1>2, Zenon DEF EventIds
    <3>3. Ordered(events)' = Ordered(events) /\ Ordered(stream)' = Ordered(stream)
      BY <1>2, Zenon DEF Ordered
    <3>4. OrderInv'
      BY <1>1, <1>2, <3>2, <3>3, Zenon DEF OrderInv
    <3> QED BY <3>1, <3>4, Zenon
  <2>8. HandshakeInv' /\ WaitInv' /\ AnswerInv'
    BY <1>2, <1>3, <1>4, <2>1, Zenon DEF HandshakeInv, WaitInv, AnswerInv, Executing, ReplyIsOwn, Returned
  <2> QED BY <2>6, <2>7, <2>8 DEF IInv
<1>5. CASE pc' = "stop" /\ UNCHANGED <<cmds, owed>>
  <2>1. TypeOK'
    BY <1>1, <1>2, <1>5, ZenonT(40) DEF TypeOK
  <2>2. (cut' <=> buf') /\ call' \in {call, call + 1}
    BY <1>1, <1>2, Zenon DEF LineInv
  <2>3. LineInv' /\ OrderInv'
    BY <1>1, <1>2, <1>5, <2>2, QuietStep
  <2>4. HandshakeInv' /\ WaitInv' /\ AnswerInv'
    BY <1>2, <1>3, <1>5, Zenon DEF HandshakeInv, WaitInv, AnswerInv, ReplyIsOwn, Returned
  <2> QED BY <2>1, <2>3, <2>4 DEF IInv
<1> QED BY <1>4, <1>5 DEF WriteCommand

\* The first line that is no event answers the call exactly when nothing else was owed.
LEMMA FirstAnswer ==
  ASSUME TypeOK, OwnLast, stream # <<>>, stream[1].kind # "event"
  PROVE  stream[1] = Reply(call) <=> ~owed
<1>1. stream \in Seq(Lines)
  BY Zenon DEF TypeOK
<1>2. Len(stream) \in Nat \ {0}
  BY <1>1, TailIs
<1>3. 1 \in 1 .. Len(stream) /\ \A p \in 1 .. Len(stream) : p = 1 \/ 1 < p
  BY <1>2
<1>4. \A i \in 1 .. Len(stream) : ~(i < 1)
  BY <1>2
<1>5. CASE /\ \A i \in 1 .. Len(stream) : stream[i] # Reply(call)
           /\ ~owed <=> Len(cmds) = 1 /\ \A i \in 1 .. Len(stream) : stream[i].kind = "event"
  BY <1>3, <1>5, Zenon
<1>6. ASSUME NEW p \in 1 .. Len(stream), stream[p] = Reply(call),
             \A i \in 1 .. Len(stream) : i < p => stream[i] # Reply(call),
             ~owed <=> \A i \in 1 .. Len(stream) : i < p => stream[i].kind = "event"
      PROVE  stream[1] = Reply(call) <=> ~owed
  <2>1. CASE p = 1
    BY <1>4, <1>6, <2>1, Zenon
  <2>2. CASE 1 < p
    BY <1>3, <1>6, <2>2, Zenon
  <2> QED BY <1>3, <2>1, <2>2
<1> QED BY <1>5, <1>6 DEF OwnLast

\* An event that is read goes to the end of the queue.
LEMMA BufferStep ==
  ASSUME TypeOK, LineInv, OrderInv, ReadLine, IsEvent(stream[1]), BufferEvent(stream[1]),
         UNCHANGED <<pc, call, waiting, onMain, owed, got, delivered, mainCtx, armed, running, deadline, conn>>
  PROVE  /\ TypeOK' /\ LineInv' /\ OrderInv' /\ UNCHANGED <<emitted, cmds>>
         /\ \A i \in 1 .. Len(events') : events'[i] = stream[1] \/ \E j \in 1 .. Len(events) : events'[i] = events[j]
<1>1. /\ OrderInv' /\ dropped' \subseteq 1 .. emitted
      /\ events' \in Seq(Lines) /\ Len(events') <= MaxBufferedEvents
      /\ \A i \in 1 .. Len(events') : events'[i] = stream[1] \/ \E j \in 1 .. Len(events) : events'[i] = events[j]
  BY BufferKeepsOrder, Zenon
<1>2. \A i \in 1 .. Len(events') : IsEvent(events'[i])
  BY <1>1, Zenon DEF LineInv
<1>3. /\ LineInv' /\ UNCHANGED <<emitted, cmds>>
      /\ stream' \in Seq(Lines) /\ arrived' \in 0 .. 2 /\ cut' \in BOOLEAN /\ buf' \in BOOLEAN
  BY <1>2, ReadKeepsLines, ReadLineEffect, Zenon
<1>4. dropped' \subseteq 1 .. MaxEvents
  <2>1. emitted \in 0 .. MaxEvents /\ MaxEvents \in Nat
    BY QMPAssumption, Zenon DEF TypeOK
  <2>2. 1 .. emitted \subseteq 1 .. MaxEvents
    BY <2>1
  <2> QED BY <1>1, <2>2
<1>5. TypeOK'
  BY <1>1, <1>3, <1>4, ZenonT(90) DEF TypeOK
<1> QED BY <1>1, <1>3, <1>5, Zenon

\* Execute reads a line: an event is kept, any other line is the answer.
LEMMA ResponseStep == ASSUME IInv, ReadResponse PROVE IInv'
<1>1. TypeOK /\ LineInv /\ OrderInv /\ AnswerInv /\ pc = "read" /\ Executing /\ ReadLine
  BY DEF IInv, ReadResponse
<1>2. UNCHANGED <<call, waiting, onMain, owed, delivered, mainCtx, armed, running, deadline, conn>>
  BY DEF ReadResponse, callVars, ctxVars, cbVars
<1>3. /\ stream # <<>> /\ Head(stream) = stream[1] /\ stream[1] \in Lines /\ Parses
      /\ stream' = Tail(stream) /\ UNCHANGED <<emitted, cmds>>
      /\ IsEvent(stream[1]) \/ (stream[1].kind # "event" /\ stream[1] # NoLine)
  BY <1>1, ReadLineEffect, Zenon
<1>4. got = NoLine /\ OwnLast /\ Executing'
  BY <1>1, <1>2, Zenon DEF AnswerInv, Executing
<1>5. CASE stream[1].kind = "event" /\ BufferEvent(stream[1]) /\ UNCHANGED <<pc, got>>
  <2>1. IsEvent(stream[1])
    BY <1>3, <1>5
  <2>2. TypeOK' /\ LineInv' /\ OrderInv'
    BY <1>1, <1>2, <1>5, <2>1, BufferStep
  <2>3. OwnLast'
    BY <1>1, <1>2, <1>3, <1>4, <1>5, OwnLastTail
  <2>4. HandshakeInv' /\ WaitInv' /\ AnswerInv'
    BY <1>1, <1>4, <1>5, <2>3 DEF HandshakeInv, WaitInv, AnswerInv, ReplyIsOwn, Returned
  <2> QED BY <2>2, <2>4 DEF IInv
<1>6. CASE stream[1].kind # "event" /\ got' = stream[1] /\ pc' = "stop" /\ UNCHANGED <<events, dropped>>
  <2>1. UNCHANGED <<evtVars, call>>
    BY <1>2, <1>6 DEF evtVars
  <2>2. /\ LineInv' /\ OrderInv' /\ UNCHANGED <<emitted, cmds>>
        /\ stream' \in Seq(Lines) /\ arrived' \in 0 .. 2 /\ cut' \in BOOLEAN /\ buf' \in BOOLEAN
    BY <1>1, <1>6, <2>1, SkipStep, SMTT(30)
  <2>3. TypeOK'
    BY <1>1, <1>2, <1>3, <1>6, <2>2, ZenonT(40) DEF TypeOK
  <2>4. got' = Reply(call') <=> ~owed'
    BY <1>1, <1>2, <1>3, <1>4, <1>6, FirstAnswer, Zenon
  <2>5. HandshakeInv' /\ WaitInv' /\ AnswerInv'
    BY <1>6, <2>4 DEF HandshakeInv, WaitInv, AnswerInv, ReplyIsOwn, Returned
  <2> QED BY <2>2, <2>3, <2>5 DEF IInv
<1> QED BY <1>3, <1>5, <1>6 DEF ReadResponse

\* WaitForEvent reads a line: the event it waits for, another one, or none.
LEMMA EventStep == ASSUME IInv, ReadEvent PROVE IInv'
<1>1. TypeOK /\ LineInv /\ OrderInv /\ WaitInv /\ pc = "read" /\ ~Executing /\ ReadLine
  BY Zenon DEF IInv, ReadEvent
<1>2. UNCHANGED <<call, waiting, onMain, owed, got, mainCtx, armed, running, deadline, conn>>
  BY DEF ReadEvent, callVars, repVars, ctxVars, cbVars
<1>3. /\ stream # <<>> /\ Head(stream) = stream[1] /\ stream[1] \in Lines /\ Parses
      /\ stream' = Tail(stream) /\ UNCHANGED <<emitted, cmds>>
      /\ IsEvent(stream[1]) \/ (stream[1].kind # "event" /\ stream[1].name = "")
  BY <1>1, ReadLineEffect, Zenon
<1>4. ~Executing' /\ waiting # ""
  BY <1>1, <1>2, Zenon DEF Executing
<1>5. CASE stream[1].name = waiting /\ delivered' = delivered \cup {stream[1].id} /\ pc' = "stop"
           /\ UNCHANGED <<events, dropped>>
  <2>1. IsEvent(stream[1])
    BY <1>3, <1>4, <1>5, Zenon
  <2>2. OrderInv' /\ delivered' \subseteq 1 .. emitted
    BY <1>1, <1>5, <2>1, DeliverKeepsOrder
  <2>3. \A i \in 1 .. Len(events') : IsEvent(events'[i])
    BY <1>1, <1>5 DEF LineInv
  <2>4. LineInv' /\ stream' \in Seq(Lines) /\ arrived' \in 0 .. 2 /\ cut' \in BOOLEAN /\ buf' \in BOOLEAN
    BY <1>1, <1>2, <2>3, ReadKeepsLines
  <2>5. delivered' \subseteq 1 .. MaxEvents
    <3>1. emitted \in 0 .. MaxEvents /\ MaxEvents \in Nat
      BY <1>1, QMPAssumption, Zenon DEF TypeOK
    <3>2. 1 .. emitted \subseteq 1 .. MaxEvents
      BY <3>1, SMTT(30)
    <3> QED BY <2>2, <3>2
  <2>6. TypeOK'
    BY <1>1, <1>2, <1>3, <1>5, <2>4, <2>5, ZenonT(40) DEF TypeOK
  <2>7. HandshakeInv' /\ WaitInv' /\ AnswerInv'
    BY <1>4, <1>5, Zenon DEF HandshakeInv, WaitInv, AnswerInv, ReplyIsOwn, Returned
  <2> QED BY <2>2, <2>4, <2>6, <2>7 DEF IInv
<1>6. CASE stream[1].kind = "event" /\ stream[1].name # waiting /\ BufferEvent(stream[1])
           /\ UNCHANGED <<pc, delivered>>
  <2>1. IsEvent(stream[1])
    BY <1>3, <1>6, SMTT(30)
  <2>2. /\ TypeOK' /\ LineInv' /\ OrderInv'
        /\ \A i \in 1 .. Len(events') : events'[i] = stream[1] \/ \E j \in 1 .. Len(events) : events'[i] = events[j]
    BY <1>1, <1>2, <1>6, <2>1, BufferStep, ZenonT(40)
  <2>3. \A i \in 1 .. Len(events') : events'[i].name # waiting'
    BY <1>1, <1>2, <1>6, <2>2, Zenon DEF WaitInv
  <2>4. HandshakeInv' /\ WaitInv' /\ AnswerInv'
    BY <1>1, <1>4, <1>6, <2>3, Zenon DEF HandshakeInv, WaitInv, AnswerInv, ReplyIsOwn, Returned
  <2> QED BY <2>2, <2>4, Zenon DEF IInv
<1>7. CASE stream[1].kind # "event" /\ UNCHANGED <<pc, evtVars>>
  <2>1. /\ LineInv' /\ OrderInv'
        /\ stream' \in Seq(Lines) /\ arrived' \in 0 .. 2 /\ cut' \in BOOLEAN /\ buf' \in BOOLEAN
    BY <1>1, <1>2, <1>7, SkipStep
  <2>2. UNCHANGED <<events, delivered, dropped>>
    BY <1>7, SMTT(30) DEF evtVars
  <2>3. TypeOK'
    BY <1>1, <1>2, <1>3, <1>7, <2>1, <2>2, Zenon DEF TypeOK
  <2>4. HandshakeInv' /\ WaitInv' /\ AnswerInv'
    BY <1>1, <1>2, <1>4, <1>7, <2>2, Zenon DEF HandshakeInv, WaitInv, AnswerInv, ReplyIsOwn, Returned
  <2> QED BY <2>1, <2>3, <2>4, Zenon DEF IInv
<1> QED BY <1>3, <1>5, <1>6, <1>7, Zenon DEF ReadEvent

\* A read fails; the call returns without a line.
LEMMA FailStep == ASSUME IInv, ReadFails PROVE IInv'
<1>1. TypeOK /\ LineInv /\ OrderInv /\ AnswerInv /\ pc = "read" /\ pc' = "stop" /\ ReadError
  BY Zenon DEF IInv, ReadFails
<1>2. /\ UNCHANGED <<call, waiting, onMain, owed, got, evtVars, events, delivered, dropped, stream, cmds>>
      /\ UNCHANGED <<emitted, mainCtx, armed, running, deadline, conn>>
  BY DEF ReadFails, callVars, evtVars, repVars, ctxVars, cbVars
<1>3. (cut' <=> buf') /\ arrived' \in 0 .. 2 /\ cut' \in BOOLEAN /\ buf' \in BOOLEAN
  BY <1>1, ErrorStep
<1>4. TypeOK'
  BY <1>1, <1>2, <1>3, Zenon DEF TypeOK
<1>5. call' \in {call, call + 1}
  BY <1>2
<1>6. LineInv' /\ OrderInv'
  BY <1>1, <1>2, <1>3, <1>5, QuietStep
<1>7. ~Returned'
  BY <1>1, <1>2, ZenonT(40) DEF AnswerInv, Returned, Executing
<1>8. HandshakeInv' /\ WaitInv' /\ AnswerInv'
  BY <1>1, <1>7, SMTT(30) DEF HandshakeInv, WaitInv, AnswerInv, ReplyIsOwn
<1> QED BY <1>4, <1>6, <1>8 DEF IInv

\* QEMU only writes to the stream.
LEMMA QemuTypes ==
  ASSUME TypeOK, stream' \in Seq(Lines), cmds' \in Seq(0 .. MaxCalls), emitted' \in 0 .. MaxEvents,
         UNCHANGED <<pc, call, waiting, onMain, buf, events, delivered, dropped, owed, got, mainCtx, armed>>,
         UNCHANGED <<running, deadline, conn, arrived, cut>>
  PROVE  TypeOK'
<1>1. /\ pc' \in {"greet", "caps", "capsRead", "handshaken", "failed",
                  "idle", "write", "read", "stop", "clear", "closed"}
      /\ waiting' \in EventNames \cup {""} /\ onMain' \in BOOLEAN
      /\ mainCtx' \in {"live", "cancelled", "expired"} /\ armed' \in BOOLEAN
      /\ conn' \in {"open", "closed"} /\ deadline' \in {"none", "future", "past"}
      /\ buf' \in BOOLEAN /\ cut' \in BOOLEAN
  BY ZenonT(40) DEF TypeOK
<1>2. /\ call' \in 0 .. MaxCalls /\ running' \in Nat /\ arrived' \in 0 .. 2 /\ owed' \in BOOLEAN
      /\ delivered' \subseteq 1 .. MaxEvents /\ dropped' \subseteq 1 .. MaxEvents
  BY Zenon DEF TypeOK
<1>3. events' \in Seq(Lines) /\ Len(events') <= MaxBufferedEvents /\ got' \in Lines
  BY Zenon DEF TypeOK
<1> QED BY <1>1, <1>2, <1>3, Zenon DEF TypeOK

\* QEMU answers its oldest command.
LEMMA AnswerStep == ASSUME IInv, Answer PROVE IInv'
<1>1. TypeOK /\ LineInv /\ OrderInv /\ HandshakeInv /\ WaitInv /\ AnswerInv
  BY DEF IInv
<1>2. /\ UNCHANGED <<pc, call, waiting, onMain, buf, events, delivered, dropped, owed, got, mainCtx, armed>>
      /\ UNCHANGED <<running, deadline, conn, arrived, cut, emitted>>
      /\ cmds # <<>> /\ stream' = Append(stream, Reply(Head(cmds))) /\ cmds' = Tail(cmds)
  BY DEF Answer, Sends, callVars, evtVars, repVars, ctxVars, cbVars
<1>3. stream \in Seq(Lines) /\ cmds \in Seq(0 .. MaxCalls) /\ call \in 0 .. MaxCalls /\ MaxCalls \in Nat
  BY <1>1, QMPAssumption, Zenon DEF TypeOK
<1>4. /\ Len(cmds) \in Nat \ {0} /\ cmds' \in Seq(0 .. MaxCalls) /\ Head(cmds) = cmds[1]
      /\ cmds[1] \in 0 .. MaxCalls
      /\ \A i \in 1 .. Len(cmds') : i + 1 \in 1 .. Len(cmds) /\ cmds'[i] = cmds[i + 1]
  BY <1>2, <1>3, TailIs
<1>5. 1 \in 1 .. Len(cmds)
  BY <1>4
<1>6. PICK line : line = Reply(cmds[1])
  OBVIOUS
<1>7. line \in Lines /\ line.kind # "event" /\ \A k : k # cmds[1] => line # Reply(k)
  <2>1. cmds[1] \in Nat
    BY <1>3, <1>4
  <2>2. Reply(cmds[1]) \in Lines
    BY <2>1, SMTT(30) DEF Reply, Lines
  <2> QED BY <1>6, <2>2, Kinds, Zenon
<1>8. /\ Len(stream) \in Nat /\ stream' \in Seq(Lines)
      /\ stream'[Len(stream) + 1] = line /\ Len(stream) + 1 \in 1 .. Len(stream')
      /\ \A i \in 1 .. Len(stream) : i \in 1 .. Len(stream') /\ stream'[i] = stream[i]
      /\ \A i \in 1 .. Len(stream') : i = Len(stream) + 1 \/ i \in 1 .. Len(stream)
  BY <1>2, <1>3, <1>4, <1>6, <1>7, AppendIs
<1>9. TypeOK'
  <2>1. stream' \in Seq(Lines) /\ cmds' \in Seq(0 .. MaxCalls) /\ emitted' \in 0 .. MaxEvents
    BY <1>1, <1>2, <1>4, <1>8, Zenon DEF TypeOK
  <2>2. /\ UNCHANGED <<pc, call, waiting, onMain, buf, events, delivered, dropped, owed, got, mainCtx, armed>>
        /\ UNCHANGED <<running, deadline, conn, arrived, cut>>
    BY <1>2, Zenon
  <2> QED BY <1>1, <2>1, <2>2, QemuTypes, SMTT(30)
<1>10. LineInv'
  <2>1. cmds[1] <= call /\ cmds[1] \in 0 .. call
    <3>1. cmds[1] <= call
      BY <1>1, <1>5 DEF LineInv
    <3> QED BY <1>3, <1>4, <3>1
  <2>2. Sent(line)
    BY <1>6, <2>1, Zenon DEF Sent
  <2>3. \A i \in 1 .. Len(stream') : Sent(stream'[i])
    BY <1>1, <1>8, <2>2, Zenon DEF LineInv
  <2>4. \A i \in 1 .. Len(cmds') : cmds'[i] <= call
    BY <1>1, <1>4, Zenon DEF LineInv
  <2> QED BY <1>1, <1>2, <2>3, <2>4 DEF LineInv, Sent, IsEvent
<1>11. OrderInv'
  <2>1. Ordered(stream') /\ EventIds(stream') = EventIds(stream)
    <3>1. Ordered(stream)
      BY <1>1 DEF OrderInv
    <3>2. stream' = Append(stream, line)
      BY <1>2, <1>4, <1>6, Zenon
    <3> QED BY <1>3, <1>7, <3>1, <3>2, AppendIds, Zenon
  <2>2. Ordered(events') /\ EventIds(events') = EventIds(events)
    BY <1>1, <1>2 DEF OrderInv
  <2>3. Ordered(stream)' /\ EventIds(stream)' = EventIds(stream) /\ Ordered(events)' /\ EventIds(events)' = EventIds(events)
    BY <2>1, <2>2, Zenon DEF Ordered, EventIds
  <2> QED BY <1>1, <1>2, <2>3 DEF OrderInv
<1>12. HandshakeInv'
  <2>1. pc \notin {"greet", "caps"}
    BY <1>1, <1>2 DEF HandshakeInv
  <2>2. ASSUME pc = "capsRead" PROVE stream' # <<>> /\ stream'[1].kind # "event"
    <3>1. stream' # <<>>
      BY <1>8
    <3>2. CASE stream = <<>>
      <4>1. Len(stream) = 0
        BY <3>2, Zenon
      <4> QED BY <1>7, <1>8, <3>1, <4>1
    <3>3. CASE stream # <<>>
      <4>1. Len(stream) \in Nat \ {0}
        BY <1>3, <3>3, TailIs
      <4>2. 1 \in 1 .. Len(stream)
        BY <4>1
      <4>3. stream'[1] = stream[1] /\ Sent(stream[1])
        BY <1>1, <1>8, <4>2 DEF LineInv
      <4>4. stream[1].kind # "event"
        BY <1>1, <2>2, <4>3, NoEventYet DEF HandshakeInv
      <4> QED BY <3>1, <4>3, <4>4
    <3> QED BY <3>2, <3>3
  <2> QED BY <1>2, <2>1, <2>2, Zenon DEF HandshakeInv
<1>13. WaitInv'
  BY <1>1, <1>2, Zenon DEF WaitInv, Executing
<1>14. AnswerInv'
  <2>1. ASSUME pc = "write"
        PROVE  /\ \A i \in 1 .. Len(cmds') : cmds'[i] # call
               /\ \A i \in 1 .. Len(stream') : stream'[i] # Reply(call)
    BY <1>1, <1>4, <1>5, <1>7, <1>8, <2>1, ZenonT(40) DEF AnswerInv
  <2>2. ASSUME pc = "read", Executing PROVE OwnLast'
    <3>1. OwnLast
      BY <1>1, <2>2 DEF AnswerInv
    <3> QED BY <1>1, <1>2, <1>4, <1>6, <1>7, <3>1, OwnLastAnswer
  <2>3. Executing' <=> Executing
    BY <1>2 DEF Executing
  <2>4. ReplyIsOwn'
    BY <1>1, <1>2, <2>3, Zenon DEF AnswerInv, ReplyIsOwn, Returned, Reply
  <2> QED BY <1>1, <1>2, <2>1, <2>2, <2>3, <2>4, SMTT(30) DEF AnswerInv
<1> QED BY <1>9, <1>10, <1>11, <1>12, <1>13, <1>14 DEF IInv

LEMMA NextEvent ==
  ASSUME NEW m \in Nat, NEW n \in 0 .. m, n < m
  PROVE  /\ n + 1 \in 0 .. m /\ n + 1 \in Nat /\ n + 1 \notin 1 .. n
         /\ 1 .. (n + 1) = (1 .. n) \cup {n + 1} /\ \A i \in 1 .. n : i < n + 1
OBVIOUS

\* QEMU emits an event: it is newer than all.
LEMMA EmitStep == ASSUME IInv, NEW name \in EventNames, Emit(name) PROVE IInv'
<1>1. TypeOK /\ LineInv /\ OrderInv /\ HandshakeInv /\ WaitInv /\ AnswerInv
  BY DEF IInv
<1>2. PICK line : line = Event(name, emitted + 1)
  BY Zenon
<1>3. /\ UNCHANGED <<pc, call, waiting, onMain, buf, events, delivered, dropped, owed, got, mainCtx, armed>>
      /\ UNCHANGED <<running, deadline, conn, arrived, cut, cmds>>
      /\ pc \notin {"greet", "caps"} /\ 0 \notin Range(cmds)
      /\ emitted < MaxEvents /\ emitted' = emitted + 1 /\ stream' = Append(stream, line)
  BY <1>2 DEF Emit, Sends, callVars, evtVars, repVars, ctxVars, cbVars
<1>4. stream \in Seq(Lines) /\ emitted \in 0 .. MaxEvents /\ MaxEvents \in Nat
  BY <1>1, QMPAssumption, Zenon DEF TypeOK
<1>5. /\ emitted' \in 0 .. MaxEvents /\ emitted' \in Nat /\ emitted' \notin 1 .. emitted
      /\ 1 .. emitted' = (1 .. emitted) \cup {emitted'} /\ \A i \in 1 .. emitted : i < emitted'
  BY <1>3, <1>4, NextEvent, Zenon
<1>6. line.kind = "event" /\ line.name = name /\ line.id = emitted'
  BY <1>2, <1>3 DEF Event
<1>7. line \in Lines /\ \A k : line # Reply(k)
  <2>1. line \in Lines
    BY <1>2, <1>3, <1>5, Zenon DEF Event, Lines
  <2> QED BY <1>6, <2>1, Kinds, Zenon
<1>8. /\ Len(stream) \in Nat /\ stream' \in Seq(Lines)
      /\ stream'[Len(stream) + 1] = line /\ Len(stream) + 1 \in 1 .. Len(stream')
      /\ \A i \in 1 .. Len(stream) : i \in 1 .. Len(stream') /\ stream'[i] = stream[i]
      /\ \A i \in 1 .. Len(stream') : i = Len(stream) + 1 \/ i \in 1 .. Len(stream)
  BY <1>3, <1>4, <1>7, AppendIs
<1>9. TypeOK'
  <2>1. stream' \in Seq(Lines) /\ cmds' \in Seq(0 .. MaxCalls) /\ emitted' \in 0 .. MaxEvents
    BY <1>1, <1>3, <1>5, <1>8, Zenon DEF TypeOK
  <2>2. /\ UNCHANGED <<pc, call, waiting, onMain, buf, events, delivered, dropped, owed, got, mainCtx, armed>>
        /\ UNCHANGED <<running, deadline, conn, arrived, cut>>
    BY <1>3, Zenon
  <2> QED BY <1>1, <2>1, <2>2, QemuTypes, SMTT(30)
<1>10. LineInv'
  <2>1. \A l : IsEvent(l) => IsEvent(l)'
    BY <1>5 DEF IsEvent
  <2>2. IsEvent(line)'
    BY <1>5, <1>6, Zenon DEF IsEvent
  <2>3. \A l : Sent(l) => Sent(l)'
    BY <1>3, <2>1, Zenon DEF Sent
  <2>4. \A i \in 1 .. Len(events) : IsEvent(events[i])'
    BY <1>1, <1>3, <2>1, Zenon DEF LineInv
  <2>5. \A i \in 1 .. Len(stream') : Sent(stream[i])'
    <3>1. Sent(line)'
      BY <2>2, Zenon DEF Sent
    <3>2. \A i \in 1 .. Len(stream') : stream'[i] = line \/ \E j \in 1 .. Len(stream) : stream'[i] = stream[j]
      BY <1>8
    <3>3. \A j \in 1 .. Len(stream) : Sent(stream[j])
      BY <1>1, Zenon DEF LineInv
    <3> QED BY <1>3, <2>1, <2>2, <3>2, <3>3 DEF Sent, IsEvent
  <2> QED BY <1>1, <1>3, <2>4, <2>5, Zenon DEF LineInv
<1>11. OrderInv'
  <2>1. EventIds(events) \subseteq 1 .. emitted /\ EventIds(stream) \subseteq 1 .. emitted
        /\ delivered \subseteq 1 .. emitted /\ dropped \subseteq 1 .. emitted
    BY <1>1, Zenon DEF OrderInv
  <2>2. Ordered(stream') /\ EventIds(stream') = EventIds(stream) \cup {emitted'}
    <3>1. Ordered(stream)
      BY <1>1 DEF OrderInv
    <3>2. \A i \in EventIds(stream) : i < line.id
      BY <1>5, <1>6, <2>1, Zenon
    <3> QED BY <1>3, <1>4, <1>6, <1>7, <3>1, <3>2, AppendIds, Zenon
  <2>3. Ordered(events)' /\ EventIds(events)' = EventIds(events)
    BY <1>1, <1>3, Zenon DEF Ordered, EventIds, OrderInv
  <2>4. Ordered(stream)' /\ EventIds(stream)' = EventIds(stream) \cup {emitted'}
    BY <2>2, Zenon
  <2>5. UNCHANGED <<delivered, dropped>>
    BY <1>3, Zenon
  <2>6. \A i \in EventIds(events)', j \in EventIds(stream)' : i < j
    <3>1. \A i \in EventIds(events) : i < emitted'
      BY <1>5, <2>1, Zenon
    <3>2. \A i \in EventIds(events), j \in EventIds(stream) : i < j
      BY <1>1, Zenon DEF OrderInv
    <3> QED BY <2>3, <2>4, <3>1, <3>2, Zenon
  <2>7. (EventIds(events) \cup EventIds(stream) \cup delivered \cup dropped = 1 .. emitted)'
    <3>1. EventIds(events) \cup EventIds(stream) \cup delivered \cup dropped = 1 .. emitted
      BY <1>1 DEF OrderInv
    <3>2. 1 .. emitted' = (1 .. emitted) \cup {emitted'}
      BY <1>5, Zenon
    <3> QED BY <2>3, <2>4, <2>5, <3>1, <3>2, Zenon
  <2>8. delivered' \cap dropped' = {}
        /\ (EventIds(events)' \cup EventIds(stream)') \cap (delivered' \cup dropped') = {}
    <3>1. delivered \cap dropped = {} /\ (EventIds(events) \cup EventIds(stream)) \cap (delivered \cup dropped) = {}
      BY <1>1 DEF OrderInv
    <3>2. emitted' \notin delivered \cup dropped
      BY <1>5, <2>1, Zenon
    <3> QED BY <2>3, <2>4, <2>5, <3>1, <3>2, Zenon
  <2> QED BY <2>3, <2>4, <2>6, <2>7, <2>8, Zenon DEF OrderInv
<1>12. HandshakeInv'
  <2>1. ASSUME pc = "capsRead" PROVE stream' # <<>> /\ stream'[1].kind # "event"
    <3>1. cmds # <<0>>
      BY <1>3 DEF Range
    <3>2. stream # <<>> /\ stream[1].kind # "event"
      BY <1>1, <2>1, <3>1, Zenon DEF HandshakeInv
    <3>3. Len(stream) \in Nat \ {0}
      BY <1>4, <3>2, TailIs
    <3>4. 1 \in 1 .. Len(stream)
      BY <3>3, SMTT(30)
    <3> QED BY <1>8, <3>2, <3>4
  <2> QED BY <1>3, <2>1, Zenon DEF HandshakeInv
<1>13. WaitInv'
  BY <1>1, <1>3, ZenonT(40) DEF WaitInv, Executing
<1>14. AnswerInv'
  <2>1. ASSUME pc = "write" PROVE \A i \in 1 .. Len(stream') : stream'[i] # Reply(call)
    BY <1>1, <1>7, <1>8, <2>1, Zenon DEF AnswerInv
  <2>2. ASSUME pc = "read", Executing PROVE OwnLast'
    <3>1. OwnLast
      BY <1>1, <2>2, Zenon DEF AnswerInv
    <3> QED BY <1>1, <1>3, <1>6, <1>7, <3>1, OwnLastEmit, Zenon
  <2>3. Executing' <=> Executing
    BY <1>3, SMTT(30) DEF Executing
  <2>4. ReplyIsOwn'
    BY <1>1, <1>3, <2>3, Zenon DEF AnswerInv, ReplyIsOwn, Returned, Reply
  <2>5. ASSUME pc = "write"
        PROVE  /\ Executing' /\ got' = NoLine
               /\ \A i \in 1 .. Len(cmds') : cmds'[i] # call'
               /\ \A i \in 1 .. Len(stream') : stream'[i] # Reply(call')
    <3>1. Executing /\ got = NoLine /\ \A i \in 1 .. Len(cmds) : cmds[i] # call
      BY <1>1, <2>5, Zenon DEF AnswerInv
    <3> QED BY <1>3, <2>1, <2>3, <2>5, <3>1, Zenon
  <2>6. ASSUME pc = "read", Executing PROVE got' = NoLine /\ OwnLast'
    <3>1. got = NoLine
      BY <1>1, <2>6, Zenon DEF AnswerInv
    <3> QED BY <1>3, <2>2, <2>6, <3>1, Zenon
  <2>7. pc' = pc
    BY <1>3, Zenon
  <2> QED BY <2>3, <2>4, <2>5, <2>6, <2>7, Zenon DEF AnswerInv
<1> QED BY <1>9, <1>10, <1>11, <1>12, <1>13, <1>14 DEF IInv

-----------------------------------------------------------------------------
(* The theorems.                                                           *)

LEMMA InitIInv == Init => IInv
<1> SUFFICES ASSUME Init PROVE IInv
  OBVIOUS
<1>1. /\ pc = "greet" /\ events = <<>> /\ cmds = <<>> /\ emitted = 0 /\ delivered = {} /\ dropped = {}
      /\ cut = FALSE /\ buf = FALSE /\ call = 0
  BY Zenon DEF Init
<1>2. stream \in Seq(Lines) /\ \A i \in 1 .. Len(stream) : stream[i] = Greeting
  <2>1. Greeting \in Lines
    BY DEF Greeting, Lines
  <2>2. CASE stream = <<>>
    BY <2>2
  <2>3. CASE stream = <<Greeting>>
    BY <2>1, <2>3
  <2> QED BY <2>2, <2>3, Zenon DEF Init
<1>3. TypeOK
  <2>1. NoLine \in Lines
    BY DEF NoLine, Lines
  <2>2. 0 \in 0 .. MaxCalls /\ 0 \in 0 .. MaxEvents /\ 0 \in 0 .. 2 /\ 0 \in Nat /\ 0 <= MaxBufferedEvents
    <3>1. MaxCalls \in Nat /\ MaxEvents \in Nat /\ MaxBufferedEvents \in Nat
      BY QMPAssumption, Zenon
    <3> QED BY <3>1
  <2>3. events \in Seq(Lines) /\ Len(events) = 0 /\ cmds \in Seq(0 .. MaxCalls)
    BY <1>1
  <2> QED BY <1>1, <1>2, <2>1, <2>2, <2>3, Zenon DEF TypeOK, Init
<1>4. LineInv
  BY <1>1, <1>2 DEF LineInv, Sent
<1>5. OrderInv
  <2>1. \A i \in 1 .. Len(stream) : stream[i].kind # "event"
    BY <1>2, Kinds, Zenon
  <2>2. Ordered(events) /\ Ordered(stream) /\ EventIds(events) = {} /\ EventIds(stream) = {}
    BY <1>1, <2>1 DEF Ordered, EventIds
  <2>3. 1 .. emitted = {}
    BY <1>1
  <2> QED BY <1>1, <2>2, <2>3 DEF OrderInv
<1>6. HandshakeInv /\ WaitInv /\ AnswerInv
  BY <1>1 DEF HandshakeInv, WaitInv, AnswerInv, ReplyIsOwn, Returned
<1> QED BY <1>3, <1>4, <1>5, <1>6 DEF IInv

LEMMA NextIInv == IInv /\ [Next]_vars => IInv'
<1> SUFFICES ASSUME IInv, [Next]_vars PROVE IInv'
  OBVIOUS
<1>1. CASE Calls
  BY <1>1, StartStep DEF Calls
<1>2. CASE ClientStep
  BY <1>2, GreetStep, EndingStep, WriteStep, ResponseStep, EventStep, FailStep DEF ClientStep
<1>3. CASE Close \/ CallbackStep \/ MainCtxEnds \/ UNCHANGED vars
  BY <1>3, EndingStep, BackgroundStep
<1>4. CASE QemuStep
  BY <1>4, AnswerStep, EmitStep, BackgroundStep DEF QemuStep
<1> QED BY <1>1, <1>2, <1>3, <1>4 DEF Next

\* Every state of a connection satisfies the invariant of the lines.
THEOREM LinesAccountedFor == Spec => []IInv
BY InitIInv, NextIInv, PTL DEF Spec

\* The queue of buffered events never exceeds maxBufferedEvents, and all of the client's
\* state keeps its type (client.go:352-361).
THEOREM ClientTypes == Spec => []TypeOK
<1>1. IInv => TypeOK
  BY DEF IInv
<1> QED BY <1>1, LinesAccountedFor, PTL

\* However QEMU orders answers and events and wherever a read ends, Execute returns the
\* answer to its own command exactly when nothing else was owed (client.go:282-311).
THEOREM RepliesInStep == Spec => []ReplyIsOwn
<1>1. IInv => ReplyIsOwn
  BY Zenon DEF IInv, AnswerInv
<1> QED BY <1>1, LinesAccountedFor, PTL

\* The events that are left are the ones in the queue and the ones in the stream.
LEMMA UndeliveredIs ==
  ASSUME TypeOK, NEW ev
  PROVE  ev \in Undelivered <=> \/ \E i \in 1 .. Len(events) : events[i].kind = "event" /\ ev = events[i]
                                \/ \E i \in 1 .. Len(stream) : stream[i].kind = "event" /\ ev = stream[i]
<1>1. DOMAIN events = 1 .. Len(events) /\ DOMAIN stream = 1 .. Len(stream)
  BY SeqIs, Zenon DEF TypeOK
<1> QED BY <1>1 DEF Undelivered, Range

\* The ids of the events that are left.
LEMMA UndeliveredIds ==
  ASSUME TypeOK PROVE {ev.id : ev \in Undelivered} = EventIds(events) \cup EventIds(stream)
BY UndeliveredIs, SMTT(30) DEF EventIds

\* No event is lost or seen twice: each one QEMU emitted is in the stream, in the queue,
\* was returned by one WaitForEvent, or was the oldest of a full queue, although replies
\* and events share the connection and a read may end in the middle of a line
\* (client.go:197-226, 352-361).
THEOREM NoEventLost == Spec => []EventsConserved
<1>1. ASSUME IInv PROVE EventsConserved
  <2>1. TypeOK /\ OrderInv /\ events \in Seq(Lines) /\ stream \in Seq(Lines)
    BY <1>1, Zenon DEF IInv, TypeOK
  <2>2. {ev.id : ev \in Undelivered} = EventIds(events) \cup EventIds(stream)
    BY <2>1, UndeliveredIds
  <2>3. PICK left : left = events \o stream
    BY Zenon
  <2>4. Len(events) \in Nat /\ Len(stream) \in Nat
    BY <2>1, SeqIs, Zenon
  <2>5. /\ left \in Seq(Lines) /\ Len(left) = Len(events) + Len(stream)
        /\ \A i \in 1 .. Len(left) : left[i] = IF i <= Len(events) THEN events[i] ELSE stream[i - Len(events)]
    BY <2>1, <2>3, ConcatIs
  <2>6. DOMAIN left = 1 .. Len(left) /\ \A i \in 1 .. Len(left) : left[i].id \in Nat
    BY <2>5, SeqIs, IdsAreNumbers, Zenon
  <2>7. ASSUME NEW i \in 1 .. Len(left), NEW j \in 1 .. Len(left), i < j,
               left[i].kind = "event", left[j].kind = "event"
        PROVE  left[i].id < left[j].id
    <3>1. CASE j <= Len(events)
      <4>1. i \in 1 .. Len(events) /\ j \in 1 .. Len(events) /\ i <= Len(events)
        BY <2>4, <2>5, <2>7, <3>1
      <4>2. left[i] = events[i] /\ left[j] = events[j]
        BY <2>5, <3>1, <4>1, Zenon
      <4> QED BY <2>1, <2>7, <4>1, <4>2, Zenon DEF OrderInv, Ordered
    <3>2. CASE i <= Len(events) /\ ~(j <= Len(events))
      <4>1. i \in 1 .. Len(events) /\ j - Len(events) \in 1 .. Len(stream)
        BY <2>4, <2>5, <3>2
      <4>2. left[i] = events[i] /\ left[j] = stream[j - Len(events)]
        BY <2>5, <3>2, Zenon
      <4>3. left[i].id \in EventIds(events) /\ left[j].id \in EventIds(stream)
        BY <2>7, <4>1, <4>2, Zenon DEF EventIds
      <4> QED BY <2>1, <4>3 DEF OrderInv
    <3>3. CASE ~(i <= Len(events))
      <4>1. /\ i - Len(events) \in 1 .. Len(stream) /\ j - Len(events) \in 1 .. Len(stream)
            /\ i - Len(events) < j - Len(events) /\ ~(j <= Len(events))
        BY <2>4, <2>5, <2>7, <3>3
      <4>2. left[i] = stream[i - Len(events)] /\ left[j] = stream[j - Len(events)]
        BY <2>5, <3>3, <4>1
      <4> QED BY <2>1, <2>7, <4>1, <4>2, Zenon DEF OrderInv, Ordered
    <3> QED BY <3>1, <3>2, <3>3, Zenon
  <2>8. ASSUME NEW i \in DOMAIN left, NEW j \in DOMAIN left, left[i] = left[j], left[i].kind = "event"
        PROVE  i = j
    <3>1. i < j \/ i = j \/ j < i
      BY <2>4, <2>5, <2>6
    <3>2. \A x \in Nat : ~(x < x)
      OBVIOUS
    <3> QED BY <2>6, <2>7, <2>8, <3>1, <3>2, Zenon
  <2> QED BY <2>1, <2>2, <2>3, <2>8, SMTT(30) DEF EventsConserved, OrderInv
<1> QED BY <1>1, LinesAccountedFor, PTL

\* WaitForEvent returns the oldest event of its name the client still has: the first one of
\* the queue, which it looks through before it reads on, or else the first of the stream
\* (client.go:336-345, 363-420).
THEOREM EventsInOrder == Spec => OldestFirst
<1> DEFINE Oldest(i) == \E ev \in Undelivered :
                          /\ ev.id = i
                          /\ \A other \in Undelivered : other.name = ev.name => i <= other.id
<1>1. ASSUME IInv, [Next]_vars, NEW id \in delivered' \ delivered PROVE Oldest(id)
  <2>1. TypeOK /\ LineInv /\ OrderInv /\ WaitInv /\ events \in Seq(Lines) /\ stream \in Seq(Lines)
    BY <1>1, Zenon DEF IInv, TypeOK
  <2>2. /\ \A i \in 1 .. Len(events) : events[i].id \in Nat
        /\ \A i \in 1 .. Len(stream) : stream[i].id \in Nat
    BY <2>1, IdsAreNumbers
  <2>3. \A x \in Nat : x <= x
    OBVIOUS
  <2>4. \A x, y \in Nat : x < y => x <= y
    OBVIOUS
  <2>5. ASSUME NEW name \in EventNames, NEW i \in Buffered(name), id = events[i].id,
               \A j \in Buffered(name) : i <= j
        PROVE  Oldest(id)
    <3>1. DOMAIN events = 1 .. Len(events) /\ Len(events) \in Nat
      BY <2>1, SeqIs, Zenon
    <3>2. i \in 1 .. Len(events) /\ events[i].name = name
      BY <2>5, <3>1, Zenon DEF Buffered
    <3>3. events[i].kind = "event"
      BY <2>1, <3>2, Zenon DEF LineInv, IsEvent
    <3>4. events[i] \in Undelivered
      BY <2>1, <3>2, <3>3, UndeliveredIs, Zenon
    <3>5. ASSUME NEW other \in Undelivered, other.name = name PROVE id <= other.id
      <4>1. ASSUME NEW j \in 1 .. Len(events), events[j].kind = "event", other = events[j]
            PROVE  id <= other.id
        <5>1. i <= j
          BY <2>5, <3>1, <3>5, <4>1 DEF Buffered
        <5>2. i = j \/ i < j
          BY <3>1, <3>2, <5>1, SMTT(30)
        <5>3. i < j => events[i].id < events[j].id
          BY <2>1, <3>2, <3>3, <4>1 DEF OrderInv, Ordered
        <5> QED BY <2>2, <2>3, <2>4, <2>5, <3>2, <4>1, <5>2, <5>3, Zenon
      <4>2. ASSUME NEW j \in 1 .. Len(stream), stream[j].kind = "event", other = stream[j]
            PROVE  id <= other.id
        <5>1. events[i].id \in EventIds(events) /\ stream[j].id \in EventIds(stream)
          BY <3>2, <3>3, <4>2, Zenon DEF EventIds
        <5>2. events[i].id < stream[j].id
          BY <2>1, <5>1, Zenon DEF OrderInv
        <5> QED BY <2>2, <2>4, <2>5, <3>2, <4>2, <5>2, Zenon
      <4> QED BY <2>1, <4>1, <4>2, UndeliveredIs
    <3> QED BY <2>5, <3>2, <3>4, <3>5
  <2>6. ASSUME ReadEvent PROVE Oldest(id)
    <3>1. pc = "read" /\ ~Executing /\ ReadLine /\ waiting # ""
      BY <2>6, Zenon DEF ReadEvent, Executing
    <3>2. /\ stream # <<>> /\ Head(stream) = stream[1] /\ Parses
          /\ IsEvent(stream[1]) \/ (stream[1].kind # "event" /\ stream[1].name = "")
      BY <2>1, <3>1, ReadLineEffect, Zenon
    <3>3. delivered' = delivered \/ (stream[1].name = waiting /\ delivered' = delivered \cup {stream[1].id})
      BY <2>6, <3>2, Zenon DEF ReadEvent, evtVars
    <3>4. stream[1].name = waiting /\ id = stream[1].id
      BY <1>1, <3>3
    <3>5. stream[1].kind = "event"
      BY <3>1, <3>2, <3>4, Zenon DEF IsEvent
    <3>6. Len(stream) \in Nat \ {0}
      BY <2>1, <3>2, TailIs, Zenon
    <3>7. 1 \in 1 .. Len(stream)
      BY <3>6
    <3>8. stream[1] \in Undelivered
      BY <2>1, <3>5, <3>7, UndeliveredIs, SMTT(30)
    <3>9. \A i \in EventIds(stream) : i = stream[1].id \/ stream[1].id < i
      BY <2>1, <3>2, <3>5, TailIds, Zenon DEF OrderInv
    <3>10. ASSUME NEW other \in Undelivered, other.name = waiting PROVE id <= other.id
      <4>1. \A j \in 1 .. Len(events) : events[j].name # waiting
        BY <2>1, <3>1, Zenon DEF WaitInv
      <4>2. PICK j \in 1 .. Len(stream) : stream[j].kind = "event" /\ other = stream[j]
        BY <2>1, <3>10, <4>1, UndeliveredIs, Zenon
      <4>3. stream[j].id \in EventIds(stream)
        BY <4>2, Zenon DEF EventIds
      <4> QED BY <2>2, <2>3, <2>4, <3>4, <3>7, <3>9, <4>2, <4>3, Zenon
    <3> QED BY <3>4, <3>8, <3>10
  <2>7. CASE \E main \in BOOLEAN : \E name \in EventNames : WaitForEvent(main, name)
    <3>1. PICK main \in BOOLEAN, name \in EventNames : WaitForEvent(main, name)
      BY <2>7
    <3>2. delivered' # delivered
      BY <1>1
    <3>3. PICK i \in Buffered(name) : (\A j \in Buffered(name) : i <= j) /\ delivered' = delivered \cup {events[i].id}
      BY <3>1, <3>2, Zenon DEF WaitForEvent, evtVars
    <3>4. id = events[i].id
      BY <1>1, <3>3, Zenon
    <3> QED BY <2>5, <3>3, <3>4
  <2>8. CASE ReadResponse
    BY <1>1, <2>8 DEF ReadResponse
  <2>9. CASE \/ \E main \in BOOLEAN : Execute(main)
             \/ ReadGreeting \/ WriteCapabilities \/ ReadCapabilities \/ StopHandshake
             \/ WriteCommand \/ ReadFails \/ StopCancel \/ ClearDeadline \/ Close \/ CallbackStep
             \/ MainCtxEnds \/ QemuStep \/ UNCHANGED vars
    <3>1. UNCHANGED evtVars
      BY <2>9, Zenon DEF Execute, ReadGreeting, WriteCapabilities, ReadCapabilities, StopHandshake, WriteCommand,
                  ReadFails, StopCancel, ClearDeadline, Close, CallbackStep, Callback, CallbackSetsDeadline,
                  MainCtxEnds, QemuStep, Answer, Arrive, Emit, vars
    <3> QED BY <1>1, <3>1 DEF evtVars
  <2> QED BY <1>1, <2>6, <2>7, <2>8, <2>9 DEF Next, Calls, ClientStep
<1>2. IInv /\ [Next]_vars =>
        [\A i \in delivered' \ delivered : Oldest(i)]_vars
  BY <1>1
<1> QED BY <1>2, LinesAccountedFor, PTL DEF Spec, OldestFirst
=============================================================================
