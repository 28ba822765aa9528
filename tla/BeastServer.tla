---------------------------- MODULE BeastServer ----------------------------
(***************************************************************************)
(* The HTTP server of src/webpp/beast: the class beast (beast.hpp), its    *)
(* thread_worker and its http_workers (beast_server.hpp).                  *)
(*                                                                         *)
(* The threads that call io_context::run ("runners") execute completion    *)
(* handlers.  A handler is one asynchronous call's lambda; it is broken    *)
(* into the steps between which another runner can observe or change the   *)
(* shared state (the round-robin iterator, the workers' streams, the two   *)
(* mutexes).  Sockets, timers and the HTTP parser are libraries: they are  *)
(* modelled by what the handlers can see of them.                          *)
(*                                                                         *)
(* A request is a sequence of pieces of the byte stream; only the last     *)
(* piece of a request has ends = TRUE.                                     *)
(***************************************************************************)
EXTENDS Naturals, Sequences, FiniteSets

CONSTANTS
    Conns,        \* the connections that clients may open
    NoConn,       \* a stream that holds no socket
    NumWorkers,   \* http_worker_count: the length of the list http_workers
    Hardware,     \* std::thread::hardware_concurrency()
    Synced,       \* enable_sync() / disable_sync()
    Ends,         \* what a client may send: {TRUE} whole requests only
    MaxPieces,    \* bound: the pieces a client sends on each connection
    MayThrow,     \* may start_work throw (it allocates the stream)?
    MaySignal     \* may SIGINT or SIGTERM arrive?

ASSUME BeastAssumption ==
    /\ NoConn \notin Conns
    /\ NumWorkers \in Nat \ {0}
    /\ Hardware \in Nat \ {0, 1}
    /\ Synced \in BOOLEAN
    /\ Ends \subseteq BOOLEAN
    /\ MaxPieces \in [Conns -> Nat]
    /\ MayThrow \in BOOLEAN
    /\ MaySignal \in BOOLEAN

Workers == 1 .. NumWorkers

\* The main thread runs get_thread(0); the posting loop of operator() starts
\* get_thread(i) for i = 1 up to thread_worker_count - 2.
Runners == 0 .. (Hardware - 2)

NoThread == Hardware       \* no runner has this number
NoWorker == 0

Piece == [from : Conns, ends : BOOLEAN]

VARIABLES
    pc,        \* where each runner is
    hnd,       \* the http_worker whose handler a runner executes
    acc,       \* the accept chain
    accConn,   \* the socket the accept handler was given (NoConn: an error)
    worker,    \* thread_worker::worker, the round-robin iterator
    lock,      \* worker_mutex: the runner that holds it
    appLock,   \* app_call_mutex: the runner that holds it
    stream,    \* http_worker::stream
    dying,     \* the destructor of this worker's old stream is running
    op,        \* the asynchronous operation a worker waits for
    buf,       \* http_worker::buf
    parser,    \* http_worker::parser: the pieces it has consumed
    stopped,   \* io.stopped()
    signal,    \* the signal_set's single async_wait
    cst,       \* the client's view of each connection
    inbox,     \* what the client sent and the server has not read
    nsent,     \* pieces sent so far on each connection
    answers    \* the requests whose responses went out on each connection

threadVars == <<pc, hnd, lock, appLock>>
acceptVars == <<acc, accConn, worker>>
workerVars == <<stream, dying, op, buf, parser>>
ioVars     == <<stopped, signal>>
clientVars == <<cst, inbox, nsent, answers>>
vars == <<threadVars, acceptVars, workerVars, ioVars, clientVars>>

Labels == {"boot", "run", "accept", "spin", "start", "rearm", "call", "app",
           "write", "reset", "disengage", "destroy", "stopio", "stoptest",
           "stopcancel", "out"}
----------------------------------------------------------------------------
Init ==
    /\ pc = [t \in Runners |-> "boot"]
    /\ hnd = [t \in Runners |-> NoWorker]
    /\ acc = "off"
    /\ accConn = NoConn
    /\ worker = 1                         \* worker = http_workers.begin()
    /\ lock = NoThread
    /\ appLock = NoThread
    /\ stream = [w \in Workers |-> NoConn]
    /\ dying = [w \in Workers |-> FALSE]
    /\ op = [w \in Workers |-> "none"]
    /\ buf = [w \in Workers |-> <<>>]
    /\ parser = [w \in Workers |-> <<>>]
    /\ stopped = FALSE
    /\ signal = "armed"
    /\ cst = [c \in Conns |-> "new"]
    /\ inbox = [c \in Conns |-> <<>>]
    /\ nsent = [c \in Conns |-> 0]
    /\ answers = [c \in Conns |-> <<>>]

Goto(t, label) == pc' = [pc EXCEPT ![t] = label]

is_idle(w) == stream[w] = NoConn

Successor(w) == IF w = NumWorkers THEN 1 ELSE w + 1

\* A runner takes a completion handler only inside io.run().
InRun(t) == pc[t] = "run" /\ ~stopped
----------------------------------------------------------------------------
(* operator()(): open, bind and listen, then start the runners.            *)

Boot ==
    /\ \A t \in Runners : pc[t] = "boot"
    /\ \/ /\ pc' = [t \in Runners |-> "run"]
          /\ acc' = "posted"
       \/ /\ pc' = [t \in Runners |-> "out"]      \* return -1
          /\ UNCHANGED acc
    /\ UNCHANGED <<hnd, lock, appLock, accConn, worker, workerVars, ioVars, clientVars>>

\* io.run() returns once the context is stopped; the loop of get_thread ends.
Leave(t) ==
    /\ pc[t] = "run" /\ stopped
    /\ Goto(t, "out")
    /\ UNCHANGED <<hnd, lock, appLock, acceptVars, workerVars, ioVars, clientVars>>
----------------------------------------------------------------------------
(* The accept chain.                                                       *)

\* The dispatched first call of async_accept.
RunPosted(t) ==
    /\ InRun(t) /\ acc = "posted"
    /\ Goto(t, "rearm")
    /\ acc' = "handler"
    /\ UNCHANGED <<hnd, lock, appLock, accConn, worker, workerVars, ioVars, clientVars>>

async_accept(t) ==
    /\ pc[t] = "rearm"
    /\ Goto(t, "run")
    /\ acc' = "armed"
    /\ UNCHANGED <<hnd, lock, appLock, accConn, worker, workerVars, ioVars, clientVars>>

\* The kernel completes the accept, with a connection or with an error.
Accept ==
    /\ acc = "armed"
    /\ acc' = "ready"
    /\ \/ \E c \in Conns : /\ cst[c] = "backlog"
                           /\ accConn' = c
                           /\ cst' = [cst EXCEPT ![c] = "accepted"]
       \/ /\ accConn' = NoConn
          /\ UNCHANGED cst
    /\ UNCHANGED <<threadVars, worker, workerVars, ioVars, inbox, nsent, answers>>

\* Mistake: the next accept is armed before the socket is handed over.
RunAcceptRearmFirst(t) ==
    /\ InRun(t) /\ acc = "ready"
    /\ acc' = "armed"
    /\ Goto(t, IF accConn = NoConn THEN "rearm" ELSE "accept")
    /\ UNCHANGED <<hnd, lock, appLock, accConn, worker, workerVars, ioVars, clientVars>>

RunAccept(t) ==
    /\ InRun(t) /\ acc = "ready"
    /\ acc' = "handler"
    /\ Goto(t, IF accConn = NoConn THEN "rearm" ELSE "accept")
    /\ UNCHANGED <<hnd, lock, appLock, accConn, worker, workerVars, ioVars, clientVars>>

\* start_work up to next_worker(): the lock, then set_socket on the worker
\* the iterator designates.
start_work(t) ==
    /\ pc[t] = "accept"
    /\ lock = NoThread
    /\ lock' = t
    /\ hnd' = [hnd EXCEPT ![t] = worker]
    /\ stream' = [stream EXCEPT ![worker] = accConn]
    /\ accConn' = NoConn
    /\ Goto(t, "spin")
    /\ UNCHANGED <<appLock, acc, worker, dying, op, buf, parser, ioVars, clientVars>>

\* Building the stream throws: the mutex is released, the socket is closed,
\* the exception leaves io.run() and the loop of get_thread calls it again.
\* async_accept is not reached.
StartWorkThrows(t) ==
    /\ MayThrow
    /\ pc[t] = "accept"
    /\ lock = NoThread
    /\ Goto(t, "run")
    /\ acc' = "off"
    /\ cst' = [cst EXCEPT ![accConn] = "closed"]
    /\ accConn' = NoConn
    /\ UNCHANGED <<hnd, lock, appLock, worker, workerVars, ioVars, inbox, nsent, answers>>

\* Mistake: plain round robin, whether the next worker is idle or not.
next_worker_unchecked(t) ==
    /\ pc[t] = "spin"
    /\ worker' = Successor(worker)
    /\ lock' = NoThread
    /\ Goto(t, "start")
    /\ UNCHANGED <<hnd, appLock, acc, accConn, workerVars, ioVars, clientVars>>

\* One turn of the loop of next_worker; leaving it releases worker_mutex.
next_worker(t) ==
    /\ pc[t] = "spin"
    /\ worker' = Successor(worker)
    /\ IF is_idle(Successor(worker))
       THEN /\ lock' = NoThread
            /\ Goto(t, "start")
       ELSE UNCHANGED <<lock, pc>>
    /\ UNCHANGED <<hnd, appLock, acc, accConn, workerVars, ioVars, clientVars>>

\* worker_ptr->start(): async_read_request, then the handler re-arms.
start(t) ==
    /\ pc[t] = "start"
    /\ op' = [op EXCEPT ![hnd[t]] = "reading"]
    /\ hnd' = [hnd EXCEPT ![t] = NoWorker]
    /\ Goto(t, "rearm")
    /\ UNCHANGED <<lock, appLock, acceptVars, stream, dying, buf, parser, ioVars, clientVars>>
----------------------------------------------------------------------------
(* beast::http::async_read and async_write, and the stream's timer.        *)

Complete(s) == \E i \in DOMAIN s : s[i].ends

\* The first n pieces of s are one whole request.
FirstMessage(s, n) == s[n].ends /\ \A j \in 1 .. (n - 1) : ~s[j].ends

\* Bytes already in the buffer are parsed before the socket is read.
ReadParse(w) ==
    /\ op[w] = "reading"
    /\ LET all == parser[w] \o buf[w]
       IN  \E n \in 1 .. Len(all) :
             /\ FirstMessage(all, n)
             /\ parser' = [parser EXCEPT ![w] = SubSeq(all, 1, n)]
             /\ buf' = [buf EXCEPT ![w] = SubSeq(all, n + 1, Len(all))]
    /\ op' = [op EXCEPT ![w] = "read_ok"]
    /\ UNCHANGED <<threadVars, acceptVars, stream, dying, ioVars, clientVars>>

\* One read_some takes any prefix of what has arrived; of an incomplete
\* request the parser may keep some pieces (a header without its body).
ReadSome(w) ==
    /\ op[w] = "reading"
    /\ ~Complete(parser[w] \o buf[w])
    /\ LET c == stream[w]
       IN  \E k \in 1 .. Len(inbox[c]) :
             LET all == buf[w] \o SubSeq(inbox[c], 1, k)
             IN  /\ inbox' = [inbox EXCEPT ![c] = SubSeq(@, k + 1, Len(@))]
                 /\ \E n \in IF Complete(all) THEN {0} ELSE 0 .. Len(all) :
                      /\ parser' = [parser EXCEPT ![w] = @ \o SubSeq(all, 1, n)]
                      /\ buf' = [buf EXCEPT ![w] = SubSeq(all, n + 1, Len(all))]
    /\ UNCHANGED <<threadVars, acceptVars, stream, dying, op, ioVars, cst, nsent, answers>>

\* The timer fires or the client is gone before the request is whole, or what
\* the buffer holds is no request: pieces of two connections may not parse.
ReadFails(w) ==
    /\ op[w] = "reading"
    /\ LET all == parser[w] \o buf[w]
       IN  \A n \in 1 .. Len(all) :
             FirstMessage(all, n) => \E i \in 1 .. n : all[i].from # stream[w]
    /\ op' = [op EXCEPT ![w] = "read_err"]
    /\ UNCHANGED <<threadVars, acceptVars, stream, dying, buf, parser, ioVars, clientVars>>

WriteSucceeds(w) ==
    /\ op[w] = "writing"
    /\ op' = [op EXCEPT ![w] = "written"]
    /\ answers' = [answers EXCEPT ![stream[w]] = Append(@, parser[w])]
    /\ UNCHANGED <<threadVars, acceptVars, stream, dying, buf, parser, ioVars, cst, inbox, nsent>>

\* The deadline set before the read also covers the write.
WriteFails(w) ==
    /\ op[w] = "writing"
    /\ op' = [op EXCEPT ![w] = "written"]
    /\ UNCHANGED <<threadVars, acceptVars, stream, dying, buf, parser, ioVars, clientVars>>
----------------------------------------------------------------------------
(* The handlers of http_worker.                                            *)

\* Mistake: no reset() after a connection error.
RunReadNoReset(t, w) ==
    /\ InRun(t)
    /\ op[w] \in {"read_ok", "read_err"}
    /\ op' = [op EXCEPT ![w] = "none"]
    /\ IF op[w] = "read_ok"
       THEN Goto(t, "call") /\ hnd' = [hnd EXCEPT ![t] = w]
       ELSE UNCHANGED <<pc, hnd>>
    /\ UNCHANGED <<lock, appLock, acceptVars, stream, dying, buf, parser, ioVars, clientVars>>

\* The lambda of async_read_request.
RunRead(t, w) ==
    /\ InRun(t)
    /\ op[w] \in {"read_ok", "read_err"}
    /\ op' = [op EXCEPT ![w] = "none"]
    /\ hnd' = [hnd EXCEPT ![t] = w]
    /\ Goto(t, IF op[w] = "read_ok" THEN "call" ELSE "reset")
    /\ UNCHANGED <<lock, appLock, acceptVars, stream, dying, buf, parser, ioVars, clientVars>>

\* Mistake: synced is ignored.
call_app_unlocked(t) ==
    /\ pc[t] = "call"
    /\ Goto(t, "app")
    /\ UNCHANGED <<hnd, lock, appLock, acceptVars, workerVars, ioVars, clientVars>>

\* call_app: the application runs under app_call_mutex when synced.
call_app(t) ==
    /\ pc[t] = "call"
    /\ IF Synced THEN appLock = NoThread /\ appLock' = t
                 ELSE UNCHANGED appLock
    /\ Goto(t, "app")
    /\ UNCHANGED <<hnd, lock, acceptVars, workerVars, ioVars, clientVars>>

\* Mistake: the mutex is not released.
AppReturnsLocked(t) ==
    /\ pc[t] = "app"
    /\ Goto(t, "write")
    /\ UNCHANGED <<hnd, lock, appLock, acceptVars, workerVars, ioVars, clientVars>>

AppReturns(t) ==
    /\ pc[t] = "app"
    /\ appLock' = IF Synced THEN NoThread ELSE appLock
    /\ Goto(t, "write")
    /\ UNCHANGED <<hnd, lock, acceptVars, workerVars, ioVars, clientVars>>

\* The rest of make_beast_response and the call of async_write.
async_write_response(t) ==
    /\ pc[t] = "write"
    /\ op' = [op EXCEPT ![hnd[t]] = "writing"]
    /\ hnd' = [hnd EXCEPT ![t] = NoWorker]
    /\ Goto(t, "run")
    /\ UNCHANGED <<lock, appLock, acceptVars, stream, dying, buf, parser, ioVars, clientVars>>

\* Mistake: the connection is kept alive with the old request's parser.
RunWrittenKeepAlive(t, w) ==
    /\ InRun(t)
    /\ op[w] = "written"
    /\ op' = [op EXCEPT ![w] = "reading"]
    /\ UNCHANGED <<threadVars, acceptVars, stream, dying, buf, parser, ioVars, clientVars>>

\* The lambda of async_write_response: reset() whatever the result.
RunWritten(t, w) ==
    /\ InRun(t)
    /\ op[w] = "written"
    /\ op' = [op EXCEPT ![w] = "none"]
    /\ hnd' = [hnd EXCEPT ![t] = w]
    /\ Goto(t, "reset")
    /\ UNCHANGED <<lock, appLock, acceptVars, stream, dying, buf, parser, ioVars, clientVars>>

\* Mistake: the old parser stays.
reset_keeping_parser(t) ==
    /\ pc[t] = "reset"
    /\ cst' = [cst EXCEPT ![stream[hnd[t]]] = "closed"]
    /\ Goto(t, "disengage")
    /\ UNCHANGED <<hnd, lock, appLock, acceptVars, workerVars, ioVars, inbox, nsent, answers>>

\* Mistake: the socket stays open.
reset_without_close(t) ==
    /\ pc[t] = "reset"
    /\ parser' = [parser EXCEPT ![hnd[t]] = <<>>]
    /\ Goto(t, "disengage")
    /\ UNCHANGED <<hnd, lock, appLock, acceptVars, stream, dying, op, buf, ioVars, clientVars>>

\* reset(): close the socket, renew the request and the parser.  buf stays.
reset(t) ==
    /\ pc[t] = "reset"
    /\ LET w == hnd[t]
       IN  /\ cst' = [cst EXCEPT ![stream[w]] = "closed"]
           /\ parser' = [parser EXCEPT ![w] = <<>>]
    /\ Goto(t, "disengage")
    /\ UNCHANGED <<hnd, lock, appLock, acceptVars, stream, dying, op, buf, ioVars, inbox, nsent, answers>>

\* stream.reset(): the optional is disengaged, then its value is destroyed.
Disengage(t) ==
    /\ pc[t] = "disengage"
    /\ stream' = [stream EXCEPT ![hnd[t]] = NoConn]
    /\ dying' = [dying EXCEPT ![hnd[t]] = TRUE]
    /\ Goto(t, "destroy")
    /\ UNCHANGED <<hnd, lock, appLock, acceptVars, op, buf, parser, ioVars, clientVars>>

Destroy(t) ==
    /\ pc[t] = "destroy"
    /\ dying' = [dying EXCEPT ![hnd[t]] = FALSE]
    /\ hnd' = [hnd EXCEPT ![t] = NoWorker]
    /\ Goto(t, "run")
    /\ UNCHANGED <<lock, appLock, acceptVars, stream, op, buf, parser, ioVars, clientVars>>
----------------------------------------------------------------------------
(* The signal handler.                                                     *)

RunSignal(t) ==
    /\ InRun(t) /\ signal = "arrived"
    /\ signal' = "handled"
    /\ Goto(t, "stopio")
    /\ UNCHANGED <<hnd, lock, appLock, acceptVars, workerVars, stopped, clientVars>>

\* io.stop(), then thread_workers.stop() begins with the first worker.
StopIo(t) ==
    /\ pc[t] = "stopio"
    /\ stopped' = TRUE
    /\ hnd' = [hnd EXCEPT ![t] = 1]
    /\ Goto(t, "stoptest")
    /\ UNCHANGED <<lock, appLock, acceptVars, workerVars, signal, clientVars>>

\* Mistake: the loop runs past the last worker.
NextStopPastEnd(t) ==
    /\ hnd' = [hnd EXCEPT ![t] = @ + 1]
    /\ Goto(t, "stoptest")

\* After the last worker: pool.stop() and back to io.run().
NextStop(t) ==
    IF hnd[t] = NumWorkers
    THEN /\ hnd' = [hnd EXCEPT ![t] = NoWorker]
         /\ Goto(t, "run")
    ELSE /\ hnd' = [hnd EXCEPT ![t] = @ + 1]
         /\ Goto(t, "stoptest")

\* stop(): if (stream) ...
StopTest(t) ==
    /\ pc[t] = "stoptest"
    /\ IF is_idle(hnd[t])
       THEN NextStop(t)
       ELSE Goto(t, "stopcancel") /\ UNCHANGED hnd
    /\ UNCHANGED <<lock, appLock, acceptVars, workerVars, ioVars, clientVars>>

\* Mistake: the stream is destroyed instead of cancelled.
StopDestroys(t) ==
    /\ pc[t] = "stopcancel"
    /\ stream' = [stream EXCEPT ![hnd[t]] = NoConn]
    /\ NextStop(t)
    /\ UNCHANGED <<lock, appLock, acceptVars, dying, op, buf, parser, ioVars, clientVars>>

\* ... stream->cancel(): a pending operation ends with an error.
StopCancel(t) ==
    /\ pc[t] = "stopcancel"
    /\ op' = [op EXCEPT ![hnd[t]] = CASE @ = "reading" -> "read_err"
                                      [] @ = "writing" -> "written"
                                      [] OTHER -> @]
    /\ NextStop(t)
    /\ UNCHANGED <<lock, appLock, acceptVars, stream, dying, buf, parser, ioVars, clientVars>>
----------------------------------------------------------------------------
(* Clients and the user.                                                   *)

Connect(c) ==
    /\ cst[c] = "new"
    /\ \E t \in Runners : pc[t] \notin {"boot", "out"}
    /\ cst' = [cst EXCEPT ![c] = "backlog"]
    /\ UNCHANGED <<threadVars, acceptVars, workerVars, ioVars, inbox, nsent, answers>>

Send(c, e) ==
    /\ cst[c] \in {"backlog", "accepted"}
    /\ nsent[c] < MaxPieces[c]
    /\ nsent' = [nsent EXCEPT ![c] = @ + 1]
    /\ inbox' = [inbox EXCEPT ![c] = Append(@, [from |-> c, ends |-> e])]
    /\ UNCHANGED <<threadVars, acceptVars, workerVars, ioVars, cst, answers>>

Signal ==
    /\ MaySignal
    /\ signal = "armed"
    /\ signal' = "arrived"
    /\ UNCHANGED <<threadVars, acceptVars, workerVars, stopped, clientVars>>
----------------------------------------------------------------------------
Pick(t) == RunPosted(t) \/ RunAccept(t) \/ RunSignal(t)
           \/ \E w \in Workers : RunRead(t, w) \/ RunWritten(t, w)

Step(t) == \/ async_accept(t) \/ start_work(t) \/ StartWorkThrows(t)
           \/ next_worker(t) \/ start(t)
           \/ call_app(t) \/ AppReturns(t) \/ async_write_response(t)
           \/ reset(t) \/ Disengage(t) \/ Destroy(t)
           \/ StopIo(t) \/ StopTest(t) \/ StopCancel(t)
           \/ Leave(t)

Stream(w) == ReadParse(w) \/ ReadSome(w) \/ ReadFails(w)
             \/ WriteSucceeds(w) \/ WriteFails(w)

Client(c) == Connect(c) \/ \E e \in Ends : Send(c, e)

\* operator() has returned and every runner has left.
Down == \A t \in Runners : pc[t] = "out"
Terminated == Down /\ UNCHANGED vars

Next == \/ Boot \/ Accept \/ Signal \/ Terminated
        \/ \E t \in Runners : Pick(t) \/ Step(t)
        \/ \E w \in Workers : Stream(w)
        \/ \E c \in Conns : Client(c)

Spec == Init /\ [][Next]_vars

\* A runner in a handler keeps executing; the queue of io_context is FIFO, so
\* a handler that is ready is run if runners keep coming for work; the
\* stream's timer ends an operation that nothing else ends; the application
\* returns.  Nothing is assumed of the clients or of the user.
Fairness ==
    /\ WF_vars(Boot)
    /\ \A t \in Runners : WF_vars(Step(t))
    /\ SF_vars(\E t \in Runners : RunPosted(t))
    /\ SF_vars(\E t \in Runners : RunAccept(t))
    /\ SF_vars(\E t \in Runners : RunSignal(t))
    /\ \A w \in Workers :
         /\ SF_vars(\E t \in Runners : RunRead(t, w) \/ RunWritten(t, w))
         /\ WF_vars(Stream(w))

FairSpec == Spec /\ Fairness
----------------------------------------------------------------------------
(* Properties.                                                             *)

TypeOK ==
    /\ pc \in [Runners -> Labels]
    /\ hnd \in [Runners -> Workers \cup {NoWorker}]
    /\ acc \in {"off", "posted", "armed", "ready", "handler"}
    /\ accConn \in Conns \cup {NoConn}
    /\ worker \in Workers
    /\ lock \in Runners \cup {NoThread}
    /\ appLock \in Runners \cup {NoThread}
    /\ stream \in [Workers -> Conns \cup {NoConn}]
    /\ dying \in [Workers -> BOOLEAN]
    /\ op \in [Workers -> {"none", "reading", "read_ok", "read_err",
                           "writing", "written"}]
    /\ buf \in [Workers -> Seq(Piece)]
    /\ parser \in [Workers -> Seq(Piece)]
    /\ stopped \in BOOLEAN
    /\ signal \in {"armed", "arrived", "handled"}
    /\ cst \in [Conns -> {"new", "backlog", "accepted", "closed"}]
    /\ inbox \in [Conns -> Seq(Piece)]
    /\ nsent \in [Conns -> Nat]
    /\ answers \in [Conns -> Seq(Seq(Piece))]

\* The precondition start_work relies on and nothing tests: when an accept
\* handler is about to call set_socket, the worker the iterator designates is
\* idle, although it was chosen during an earlier accept and any number of
\* handlers have run since.  Otherwise stream.emplace would destroy a live
\* connection whose asynchronous operation is pending.
ReservedWorkerIdle ==
    (\A t \in Runners : pc[t] # "spin") => is_idle(worker)

\* Runners at work for a worker, the signal handler's loop aside.
Serving(t) == pc[t] \in {"spin", "start", "call", "app", "write", "reset", "disengage"}

\* No socket is lost and none is shared: a connection the server accepted is
\* open exactly as long as the accept handler or one worker that has not
\* closed it holds its socket, and two workers never hold the same one.
OpenSocketsOwned ==
    /\ \A c \in Conns :
         cst[c] = "accepted" <=>
            \/ accConn = c
            \/ \E w \in Workers :
                 /\ stream[w] = c
                 /\ \A t \in Runners : pc[t] = "disengage" => hnd[t] # w
    /\ \A v, w \in Workers :
         stream[w] # NoConn => stream[w] # accConn /\ (v # w => stream[v] # stream[w])

\* No worker is lost: one that is not idle waits for an operation, or a runner
\* is at work for it.  A busy worker without either would never be idle again
\* ("if we don't reset here, the connection will hang").
BusyWorkerProgresses ==
    \A w \in Workers :
        stream[w] # NoConn =>
            op[w] # "none" \/ \E t \in Runners : Serving(t) /\ hnd[t] = w

\* Whatever a worker waits for or whatever a runner does in its name, there is
\* a stream under it (operator-> of a disengaged optional is undefined), and
\* no other runner is executing a handler of the same worker (but for the
\* destructor of its previous stream: is_idle reads the optional without a
\* lock, and reset() disengages it first, so the next connection may be built
\* in the storage of a stream that is still being destroyed).
HandlerOwnsStream ==
    /\ \A w \in Workers : op[w] # "none" => stream[w] # NoConn
    /\ \A t \in Runners :
         Serving(t) =>
            /\ hnd[t] \in Workers /\ stream[hnd[t]] # NoConn
            /\ op[hnd[t]] = "none"
            /\ \A u \in Runners \ {t} :
                 Serving(u) => hnd[u] # hnd[t]

\* The chain of accepts neither forks nor breaks while the server runs, except
\* when start_work throws: then the handler never reaches async_accept again.
AcceptChain ==
    /\ Cardinality({t \in Runners : pc[t] \in {"accept", "spin", "start", "rearm"}})
         = (IF acc = "handler" THEN 1 ELSE 0)
    /\ acc = "off" /\ ~MayThrow => \A t \in Runners : pc[t] \in {"boot", "out"}

\* enable_sync(): the application is never entered by two threads at once.
SyncedApp ==
    Synced => \A t, u \in Runners : pc[t] = "app" /\ pc[u] = "app" => t = u

\* A connection gets at most one response (the server closes it after the
\* first), whatever the client pipelines.
AtMostOneAnswer == \A c \in Conns : Len(answers[c]) <= 1

\* reset() "destroy[s] the request type + be[s] ready for the next request":
\* the response on a connection answers that connection's own bytes.
AnswersOwnRequest ==
    \A c \in Conns : \A i \in DOMAIN answers[c] :
        \A k \in DOMAIN answers[c][i] : answers[c][i][k].from = c

\* What the code does guarantee: a request that came whole, in one piece and
\* alone on its connection is never answered on another one.  Bytes of another
\* connection come in front, and only where its client sent more than the one
\* request, or a request in parts, of which a timeout or a disconnect cut off
\* the rest.
ForeignBytesAreLeftovers ==
    \A c \in Conns : \A i \in DOMAIN answers[c] :
        LET a == answers[c][i]
        IN  (\E k \in DOMAIN a : a[k].from # c) =>
                a[1].from # c /\ (~a[1].ends \/ nsent[a[1].from] > 1)

KeepsLiveStreams ==
    \A w \in Workers :
        stream[w] # NoConn /\ stream'[w] # stream[w] =>
            stream'[w] = NoConn /\ cst[stream[w]] = "closed"

\* A live connection is never taken out of its worker except by its own reset,
\* which has closed it: no accept, signal or other handler replaces it.
StreamReplacedOnlyByReset == [][KeepsLiveStreams]_vars

\* "each request should finish before this" (timeout_val): a connection the
\* server has accepted ends, unless the server is stopped first.
AcceptedEnds ==
    \A c \in Conns : cst[c] = "accepted" ~> (cst[c] = "closed" \/ stopped)

\* "a clean shutdown": after the signal is handled every runner leaves.
ShutdownCompletes == stopped ~> Down

\* What the code does guarantee of a shutdown: every runner leaves, but one
\* that looks for an idle worker may look for ever.
ShutdownUnlessSpinning ==
    stopped ~> \A t \in Runners : pc[t] \in {"out", "spin"}
============================================================================
