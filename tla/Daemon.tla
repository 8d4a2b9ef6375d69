------------------------------- MODULE Daemon -------------------------------
(***************************************************************************)
(* The daemon process around the library: the main thread that waits for a *)
(* signal and then closes the two gRPC services, the queue of policy       *)
(* notifications, and the handlers of readPolicyNotifyData that stream the *)
(* queue to the REST server.  The queue is guarded by                      *)
(* mutexForCallBackDataList; a stretch under that mutex is one step.  The  *)
(* two stop flags are atomic booleans that are written without the mutex.  *)
(***************************************************************************)
EXTENDS Naturals, Sequences, FiniteSets, SequencesExt

CONSTANTS
    Handlers,    \* gRPC threads that may run readPolicyNotifyData
    Service,     \* "priv" and "upri", the two services
    MaxSize,     \* maxSize of xpum_notify_callback_func (200)
    MaxNotes     \* bound: number of notifications

ASSUME DaemonAssumption == MaxSize \in Nat \ {0} /\ MaxNotes \in Nat

VARIABLES
    main,        \* where the main thread is
    stop,        \* the global flag of daemon.cpp
    closed,      \* services whose own stop flag is set
    handler,     \* [pc, svc, up] per gRPC thread; up: its client is connected
    queue,       \* callBackDataList
    made,        \* number of notifications so far; each is its number
    sent,        \* history: <<handler, notification>> in the order of the writes
    lost         \* history: notifications written to a client that had gone

vars == <<main, stop, closed, handler, queue, made, sent, lost>>

NoCall == [pc |-> "none", svc |-> "priv", up |-> FALSE]

Init ==
    /\ main = "test" /\ stop = FALSE /\ closed = {}
    /\ handler = [h \in Handlers |-> NoCall]
    /\ queue = <<>> /\ made = 0
    /\ sent = <<>> /\ lost = {}

-----------------------------------------------------------------------------
(* The main thread *)

(* while (!stop) cv.wait(lock) *)
MainTest ==
    /\ main = "test"
    /\ main' = IF stop THEN "close_priv" ELSE "to_wait"
    /\ UNCHANGED <<stop, closed, handler, queue, made, sent, lost>>

MainWait ==
    /\ main = "to_wait" /\ main' = "waiting"
    /\ UNCHANGED <<stop, closed, handler, queue, made, sent, lost>>

(* signalHandler, on any thread: stop = true; cv.notify_all()              *)
Signal ==
    /\ stop' = TRUE
    /\ main' = IF main = "waiting" THEN "test" ELSE main
    /\ UNCHANGED <<closed, handler, queue, made, sent, lost>>

WakeNone(f) == f

WakeAll(f) == [h \in Handlers |-> IF f[h].pc = "waiting" THEN [f[h] EXCEPT !.pc = "woken"]
                                  ELSE f[h]]

(* XpumCoreServiceImpl::close: the flag, then notify_all, without the mutex*)
SetStop(s) ==
    /\ main = "close_" \o s
    /\ closed' = closed \cup {s}
    /\ main' = "notify_" \o s
    /\ UNCHANGED <<stop, handler, queue, made, sent, lost>>

NotifyStop(s) ==
    /\ main = "notify_" \o s
    /\ handler' = WakeAll(handler)
    /\ main' = "shutdown_" \o s
    /\ UNCHANGED <<stop, closed, queue, made, sent, lost>>

(* server->Shutdown() returns when the handlers of the server have.        *)
Shutdown(s) ==
    /\ main = "shutdown_" \o s
    /\ \A h \in Handlers : handler[h].svc = s => handler[h].pc = "none"
    /\ main' = IF s = "priv" THEN "close_upri" ELSE "down"
    /\ UNCHANGED <<stop, closed, handler, queue, made, sent, lost>>

ShutDownOver(s) ==
    \/ s = "priv" /\ main \in {"close_upri", "notify_upri", "shutdown_upri", "down"}
    \/ s = "upri" /\ main = "down"

Stopping(s) == main = "shutdown_" \o s \/ ShutDownOver(s)

-----------------------------------------------------------------------------
NoOldOnes(q) == IF Len(q) >= MaxSize THEN <<>> ELSE q

(* xpum_notify_callback_func, called by the policy check for a policy with *)
(* a callback url: the oldest make room, then every handler is woken.      *)
RoomForOne(q) == IF Len(q) >= MaxSize THEN Tail(q) ELSE q

Notify ==
    /\ made < MaxNotes
    /\ made' = made + 1
    /\ queue' = Append(RoomForOne(queue), made')
    /\ handler' = WakeAll(handler)
    /\ UNCHANGED <<main, stop, closed, sent, lost>>

-----------------------------------------------------------------------------
(* readPolicyNotifyData *)

Connect(h, s) ==
    /\ handler[h].pc = "none" /\ ~Stopping(s)
    /\ handler' = [handler EXCEPT ![h] = [pc |-> "test", svc |-> s, up |-> TRUE]]
    /\ UNCHANGED <<main, stop, closed, queue, made, sent, lost>>

(* The client goes away; the handler looks neither at its context nor at   *)
(* the result of Write and goes on.                                        *)
Disconnect(h) ==
    /\ handler[h].up
    /\ handler' = [handler EXCEPT ![h].up = FALSE]
    /\ UNCHANGED <<main, stop, closed, queue, made, sent, lost>>

(* while (!this->stop) *)
HandlerTest(h) ==
    /\ handler[h].pc = "test"
    /\ handler' = [handler EXCEPT ![h] =
         IF @.svc \in closed THEN NoCall ELSE [@ EXCEPT !.pc = "enter"]]
    /\ UNCHANGED <<main, stop, closed, queue, made, sent, lost>>

DeliverKeep(h) ==
    /\ handler' = [handler EXCEPT ![h] =
         IF @.svc \in closed THEN NoCall ELSE [@ EXCEPT !.pc = "test"]]
    /\ IF handler[h].svc \in closed THEN UNCHANGED <<queue, sent, lost>>
       ELSE /\ queue' = queue
            /\ sent' = IF handler[h].up /\ Len(sent) < 2 * MaxNotes
                       THEN sent \o [i \in DOMAIN queue |-> <<h, queue[i]>>] ELSE sent
            /\ lost' = IF handler[h].up THEN lost ELSE lost \cup Range(queue)
    /\ UNCHANGED <<main, stop, closed, made>>

(* if (this->stop) break; write every notification; clear the list *)
Deliver(h) ==
    /\ handler' = [handler EXCEPT ![h] =
         IF @.svc \in closed THEN NoCall ELSE [@ EXCEPT !.pc = "test"]]
    /\ IF handler[h].svc \in closed THEN UNCHANGED <<queue, sent, lost>>
       ELSE /\ queue' = <<>>
            /\ sent' = IF handler[h].up
                       THEN sent \o [i \in DOMAIN queue |-> <<h, queue[i]>>] ELSE sent
            /\ lost' = IF handler[h].up THEN lost ELSE lost \cup Range(queue)
    /\ UNCHANGED <<main, stop, closed, made>>

(* lock; if the list is empty, wait *)
HandlerWait(h) ==
    /\ handler[h].pc = "enter" /\ queue = <<>>
    /\ handler' = [handler EXCEPT ![h].pc = "waiting"]
    /\ UNCHANGED <<main, stop, closed, queue, made, sent, lost>>

HandlerGo(h) ==
    /\ \/ handler[h].pc = "enter" /\ queue # <<>>
       \/ handler[h].pc = "woken"
    /\ Deliver(h)

SpuriousWake(h) ==
    /\ handler[h].pc = "waiting"
    /\ handler' = [handler EXCEPT ![h].pc = "woken"]
    /\ UNCHANGED <<main, stop, closed, queue, made, sent, lost>>

-----------------------------------------------------------------------------
MainStep ==
    MainTest \/ MainWait \/ \E s \in Service : SetStop(s) \/ NotifyStop(s) \/ Shutdown(s)

HandlerStep(h) == HandlerTest(h) \/ HandlerWait(h) \/ HandlerGo(h)

Next ==
    \/ MainStep \/ Signal \/ Notify
    \/ \E h \in Handlers : HandlerStep(h) \/ Disconnect(h) \/ SpuriousWake(h)
    \/ \E h \in Handlers, s \in Service : Connect(h, s)

Spec == Init /\ [][Next]_vars

(* The threads run; signals, clients and policies owe nothing.             *)
FairSpec == Spec /\ WF_vars(MainStep) /\ \A h \in Handlers : WF_vars(HandlerStep(h))

-----------------------------------------------------------------------------
(* Properties *)

Sent == {sent[i][2] : i \in DOMAIN sent}

(* Every notification is written at most once, and the writes of all       *)
(* handlers together keep the order in which the policies triggered.       *)
SentInOrder ==
    \A i, j \in DOMAIN sent : i < j => sent[i][2] < sent[j][2]

(* The list holds the latest notifications without a gap, and one that is  *)
(* neither in it nor written was pushed out by MaxSize later ones.         *)
NothingVanishes ==
    /\ \A i \in DOMAIN queue : queue[i] = made - Len(queue) + i
    /\ \A n \in 1..made :
         n \in Sent \cup lost \cup Range(queue) \/ n + MaxSize <= made

(* A notification does not stay behind while a handler is running: the     *)
(* wakeup of notify_all cannot slip between the test and the wait.         *)
NoForgottenNote ==
    (queue # <<>> /\ \E h \in Handlers : handler[h].pc # "none")
      ~> (queue = <<>> \/ closed # {})

(* "must close service before shutdown the server to avoid stuck in        *)
(* server->Shutdown()": once closing has begun, the daemon goes down.      *)
ShutdownEnds == main = "close_priv" ~> main = "down"

=============================================================================
