------------------------- MODULE BeastServerProofs -------------------------
(***************************************************************************)
(* Theorems about BeastServer, for any number of connections, workers and  *)
(* runners and any clients: who is where and what a reset touches; then    *)
(* the accept chain and the sockets: the chain neither forks nor breaks,   *)
(* every accepted socket has one owner, and no worker is lost.             *)
(***************************************************************************)
EXTENDS BeastServer, SequenceTheorems, FiniteSetTheorems, TLAPS

\* Runners inside the lambda of async_accept.
Accepting(t) == pc[t] \in {"accept", "spin", "start", "rearm"}

\* The chain of accepts does not fork: one runner at most is in the handler,
\* and while it is, no other accept is armed.
OneAcceptHandler ==
    /\ \A t \in Runners : Accepting(t) => acc = "handler"
    /\ \A t, u \in Runners : Accepting(t) /\ Accepting(u) => t = u

\* The socket a runner is about to hand over is there.
SocketAtHand == \A t \in Runners : pc[t] = "accept" => accConn # NoConn

\* app_call_mutex is held by the runner that is inside the application.
AppLockHeld == Synced => \A t \in Runners : pc[t] = "app" => appLock = t

\* reset() closes the socket before it destroys the stream.
ClosedBeforeDestroyed ==
    \A t \in Runners : pc[t] = "disengage" => cst[stream[hnd[t]]] = "closed"

IInv == /\ TypeOK
        /\ OneAcceptHandler
        /\ SocketAtHand
        /\ AppLockHeld
        /\ ReservedWorkerIdle
        /\ HandlerOwnsStream
        /\ ClosedBeforeDestroyed

\* Each handler of the accept chain leaves it before the next one is armed.
LEMMA AcceptStep ==
    ASSUME IInv, [Next]_vars
    PROVE  OneAcceptHandler'
<1> USE BeastAssumption DEF Workers, Runners, Goto, InRun,
        vars, threadVars, acceptVars, workerVars, ioVars, clientVars
<1>0. /\ pc \in [Runners -> Labels]
      /\ OneAcceptHandler
  BY DEF IInv, TypeOK
<1> USE <1>0 DEF OneAcceptHandler, Accepting
<1>1. ASSUME Boot PROVE OneAcceptHandler'
  BY <1>1 DEF Boot
<1>2. ASSUME Accept PROVE OneAcceptHandler'
  BY <1>2 DEF Accept
<1>3. ASSUME Signal PROVE OneAcceptHandler'
  BY <1>3 DEF Signal
<1>4. ASSUME Terminated PROVE OneAcceptHandler'
  BY <1>4 DEF Terminated
<1>5. ASSUME NEW t \in Runners, RunPosted(t) PROVE OneAcceptHandler'
  BY <1>5 DEF RunPosted
<1>6. ASSUME NEW t \in Runners, RunAccept(t) PROVE OneAcceptHandler'
  BY <1>6 DEF RunAccept
<1>7. ASSUME NEW t \in Runners, RunSignal(t) PROVE OneAcceptHandler'
  BY <1>7 DEF RunSignal
<1>8. ASSUME NEW t \in Runners, async_accept(t) PROVE OneAcceptHandler'
  BY <1>8 DEF async_accept
<1>9. ASSUME NEW t \in Runners, start_work(t) PROVE OneAcceptHandler'
  BY <1>9 DEF start_work
<1>10. ASSUME NEW t \in Runners, StartWorkThrows(t) PROVE OneAcceptHandler'
  BY <1>10 DEF StartWorkThrows
<1>11. ASSUME NEW t \in Runners, next_worker(t) PROVE OneAcceptHandler'
  BY <1>11 DEF next_worker, Successor, is_idle
<1>12. ASSUME NEW t \in Runners, start(t) PROVE OneAcceptHandler'
  BY <1>12 DEF start
<1>13. ASSUME NEW t \in Runners, call_app(t) PROVE OneAcceptHandler'
  BY <1>13 DEF call_app, NoThread
<1>14. ASSUME NEW t \in Runners, AppReturns(t) PROVE OneAcceptHandler'
  BY <1>14 DEF AppReturns
<1>15. ASSUME NEW t \in Runners, async_write_response(t)
      PROVE OneAcceptHandler'
  BY <1>15 DEF async_write_response
<1>16. ASSUME NEW t \in Runners, reset(t) PROVE OneAcceptHandler'
  BY <1>16 DEF reset
<1>17. ASSUME NEW t \in Runners, Disengage(t) PROVE OneAcceptHandler'
  BY <1>17 DEF Disengage
<1>18. ASSUME NEW t \in Runners, Destroy(t) PROVE OneAcceptHandler'
  BY <1>18 DEF Destroy
<1>19. ASSUME NEW t \in Runners, StopIo(t) PROVE OneAcceptHandler'
  BY <1>19 DEF StopIo
<1>20. ASSUME NEW t \in Runners, StopTest(t) PROVE OneAcceptHandler'
  BY <1>20 DEF StopTest, NextStop, is_idle
<1>21. ASSUME NEW t \in Runners, StopCancel(t) PROVE OneAcceptHandler'
  <2>1. /\ pc[t] \in {"run", "stoptest", "stopcancel"}
        /\ \E l \in {"run", "stoptest", "stopcancel"} : pc' = [pc EXCEPT ![t] = l]
    BY <1>21 DEF StopCancel, NextStop
  <2>2. UNCHANGED <<acc>>
    BY <1>21 DEF StopCancel
  <2>3. QED
    BY <2>1, <2>2
<1>22. ASSUME NEW t \in Runners, Leave(t) PROVE OneAcceptHandler'
  BY <1>22 DEF Leave
<1>23. ASSUME NEW t \in Runners, NEW w \in Workers, RunRead(t, w)
      PROVE OneAcceptHandler'
  BY <1>23 DEF RunRead
<1>24. ASSUME NEW t \in Runners, NEW w \in Workers, RunWritten(t, w)
      PROVE OneAcceptHandler'
  BY <1>24 DEF RunWritten
<1>25. ASSUME NEW w \in Workers, ReadParse(w) PROVE OneAcceptHandler'
  BY <1>25 DEF ReadParse
<1>26. ASSUME NEW w \in Workers, ReadSome(w) PROVE OneAcceptHandler'
  BY <1>26 DEF ReadSome
<1>27. ASSUME NEW w \in Workers, ReadFails(w) PROVE OneAcceptHandler'
  BY <1>27 DEF ReadFails
<1>28. ASSUME NEW w \in Workers, WriteSucceeds(w) PROVE OneAcceptHandler'
  BY <1>28 DEF WriteSucceeds
<1>29. ASSUME NEW w \in Workers, WriteFails(w) PROVE OneAcceptHandler'
  BY <1>29 DEF WriteFails
<1>30. ASSUME NEW c \in Conns, Connect(c) PROVE OneAcceptHandler'
  BY <1>30 DEF Connect
<1>31. ASSUME NEW c \in Conns, NEW e \in Ends, Send(c, e)
      PROVE OneAcceptHandler'
  BY <1>31 DEF Send
<1>32. CASE UNCHANGED vars
  BY <1>32
<1>33. QED
  BY <1>1, <1>2, <1>3, <1>4, <1>5, <1>6, <1>7, <1>8, <1>9, <1>10, <1>11,
     <1>12, <1>13, <1>14, <1>15, <1>16, <1>17, <1>18, <1>19, <1>20,
     <1>21, <1>22, <1>23, <1>24, <1>25, <1>26, <1>27, <1>28, <1>29,
     <1>30, <1>31, <1>32
     DEF Next, Pick, Step, Stream, Client

\* The socket of an accept handler stays until start_work takes it.
LEMMA SocketStep ==
    ASSUME IInv, [Next]_vars
    PROVE  SocketAtHand'
<1> USE BeastAssumption DEF Workers, Runners, Goto, InRun,
        vars, threadVars, acceptVars, workerVars, ioVars, clientVars
<1>0. /\ pc \in [Runners -> Labels]
      /\ OneAcceptHandler
      /\ SocketAtHand
  BY DEF IInv, TypeOK
<1> USE <1>0 DEF SocketAtHand, OneAcceptHandler, Accepting
<1>1. ASSUME Boot PROVE SocketAtHand'
  BY <1>1 DEF Boot
<1>2. ASSUME Accept PROVE SocketAtHand'
  BY <1>2 DEF Accept
<1>3. ASSUME Signal PROVE SocketAtHand'
  BY <1>3 DEF Signal
<1>4. ASSUME Terminated PROVE SocketAtHand'
  BY <1>4 DEF Terminated
<1>5. ASSUME NEW t \in Runners, RunPosted(t) PROVE SocketAtHand'
  BY <1>5 DEF RunPosted
<1>6. ASSUME NEW t \in Runners, RunAccept(t) PROVE SocketAtHand'
  BY <1>6 DEF RunAccept
<1>7. ASSUME NEW t \in Runners, RunSignal(t) PROVE SocketAtHand'
  BY <1>7 DEF RunSignal
<1>8. ASSUME NEW t \in Runners, async_accept(t) PROVE SocketAtHand'
  BY <1>8 DEF async_accept
<1>9. ASSUME NEW t \in Runners, start_work(t) PROVE SocketAtHand'
  BY <1>9 DEF start_work
<1>10. ASSUME NEW t \in Runners, StartWorkThrows(t) PROVE SocketAtHand'
  BY <1>10 DEF StartWorkThrows
<1>11. ASSUME NEW t \in Runners, next_worker(t) PROVE SocketAtHand'
  BY <1>11 DEF next_worker, Successor, is_idle
<1>12. ASSUME NEW t \in Runners, start(t) PROVE SocketAtHand'
  BY <1>12 DEF start
<1>13. ASSUME NEW t \in Runners, call_app(t) PROVE SocketAtHand'
  BY <1>13 DEF call_app, NoThread
<1>14. ASSUME NEW t \in Runners, AppReturns(t) PROVE SocketAtHand'
  BY <1>14 DEF AppReturns
<1>15. ASSUME NEW t \in Runners, async_write_response(t) PROVE SocketAtHand'
  BY <1>15 DEF async_write_response
<1>16. ASSUME NEW t \in Runners, reset(t) PROVE SocketAtHand'
  BY <1>16 DEF reset
<1>17. ASSUME NEW t \in Runners, Disengage(t) PROVE SocketAtHand'
  BY <1>17 DEF Disengage
<1>18. ASSUME NEW t \in Runners, Destroy(t) PROVE SocketAtHand'
  BY <1>18 DEF Destroy
<1>19. ASSUME NEW t \in Runners, StopIo(t) PROVE SocketAtHand'
  BY <1>19 DEF StopIo
<1>20. ASSUME NEW t \in Runners, StopTest(t) PROVE SocketAtHand'
  BY <1>20 DEF StopTest, NextStop, is_idle
<1>21. ASSUME NEW t \in Runners, StopCancel(t) PROVE SocketAtHand'
  <2>1. /\ pc[t] \in {"run", "stoptest", "stopcancel"}
        /\ \E l \in {"run", "stoptest", "stopcancel"} : pc' = [pc EXCEPT ![t] = l]
    BY <1>21 DEF StopCancel, NextStop
  <2>2. UNCHANGED <<accConn>>
    BY <1>21 DEF StopCancel
  <2>3. QED
    BY <2>1, <2>2
<1>22. ASSUME NEW t \in Runners, Leave(t) PROVE SocketAtHand'
  BY <1>22 DEF Leave
<1>23. ASSUME NEW t \in Runners, NEW w \in Workers, RunRead(t, w)
      PROVE SocketAtHand'
  BY <1>23 DEF RunRead
<1>24. ASSUME NEW t \in Runners, NEW w \in Workers, RunWritten(t, w)
      PROVE SocketAtHand'
  BY <1>24 DEF RunWritten
<1>25. ASSUME NEW w \in Workers, ReadParse(w) PROVE SocketAtHand'
  BY <1>25 DEF ReadParse
<1>26. ASSUME NEW w \in Workers, ReadSome(w) PROVE SocketAtHand'
  BY <1>26 DEF ReadSome
<1>27. ASSUME NEW w \in Workers, ReadFails(w) PROVE SocketAtHand'
  BY <1>27 DEF ReadFails
<1>28. ASSUME NEW w \in Workers, WriteSucceeds(w) PROVE SocketAtHand'
  BY <1>28 DEF WriteSucceeds
<1>29. ASSUME NEW w \in Workers, WriteFails(w) PROVE SocketAtHand'
  BY <1>29 DEF WriteFails
<1>30. ASSUME NEW c \in Conns, Connect(c) PROVE SocketAtHand'
  BY <1>30 DEF Connect
<1>31. ASSUME NEW c \in Conns, NEW e \in Ends, Send(c, e) PROVE SocketAtHand'
  BY <1>31 DEF Send
<1>32. CASE UNCHANGED vars
  BY <1>32
<1>33. QED
  BY <1>1, <1>2, <1>3, <1>4, <1>5, <1>6, <1>7, <1>8, <1>9, <1>10, <1>11,
     <1>12, <1>13, <1>14, <1>15, <1>16, <1>17, <1>18, <1>19, <1>20,
     <1>21, <1>22, <1>23, <1>24, <1>25, <1>26, <1>27, <1>28, <1>29,
     <1>30, <1>31, <1>32
     DEF Next, Pick, Step, Stream, Client

\* call_app enters the application with app_call_mutex and gives it back.
LEMMA AppLockStep ==
    ASSUME IInv, [Next]_vars
    PROVE  AppLockHeld'
<1> USE BeastAssumption DEF Workers, Runners, Goto, InRun,
        vars, threadVars, acceptVars, workerVars, ioVars, clientVars
<1>0. /\ pc \in [Runners -> Labels]
      /\ AppLockHeld
  BY DEF IInv, TypeOK
<1> USE <1>0 DEF AppLockHeld
<1>1. ASSUME Boot PROVE AppLockHeld'
  BY <1>1 DEF Boot
<1>2. ASSUME Accept PROVE AppLockHeld'
  BY <1>2 DEF Accept
<1>3. ASSUME Signal PROVE AppLockHeld'
  BY <1>3 DEF Signal
<1>4. ASSUME Terminated PROVE AppLockHeld'
  BY <1>4 DEF Terminated
<1>5. ASSUME NEW t \in Runners, RunPosted(t) PROVE AppLockHeld'
  BY <1>5 DEF RunPosted
<1>6. ASSUME NEW t \in Runners, RunAccept(t) PROVE AppLockHeld'
  BY <1>6 DEF RunAccept
<1>7. ASSUME NEW t \in Runners, RunSignal(t) PROVE AppLockHeld'
  BY <1>7 DEF RunSignal
<1>8. ASSUME NEW t \in Runners, async_accept(t) PROVE AppLockHeld'
  BY <1>8 DEF async_accept
<1>9. ASSUME NEW t \in Runners, start_work(t) PROVE AppLockHeld'
  BY <1>9 DEF start_work
<1>10. ASSUME NEW t \in Runners, StartWorkThrows(t) PROVE AppLockHeld'
  BY <1>10 DEF StartWorkThrows
<1>11. ASSUME NEW t \in Runners, next_worker(t) PROVE AppLockHeld'
  BY <1>11 DEF next_worker, Successor, is_idle
<1>12. ASSUME NEW t \in Runners, start(t) PROVE AppLockHeld'
  BY <1>12 DEF start
<1>13. ASSUME NEW t \in Runners, call_app(t) PROVE AppLockHeld'
  BY <1>13 DEF call_app, NoThread
<1>14. ASSUME NEW t \in Runners, AppReturns(t) PROVE AppLockHeld'
  BY <1>14 DEF AppReturns
<1>15. ASSUME NEW t \in Runners, async_write_response(t) PROVE AppLockHeld'
  BY <1>15 DEF async_write_response
<1>16. ASSUME NEW t \in Runners, reset(t) PROVE AppLockHeld'
  BY <1>16 DEF reset
<1>17. ASSUME NEW t \in Runners, Disengage(t) PROVE AppLockHeld'
  BY <1>17 DEF Disengage
<1>18. ASSUME NEW t \in Runners, Destroy(t) PROVE AppLockHeld'
  BY <1>18 DEF Destroy
<1>19. ASSUME NEW t \in Runners, StopIo(t) PROVE AppLockHeld'
  BY <1>19 DEF StopIo
<1>20. ASSUME NEW t \in Runners, StopTest(t) PROVE AppLockHeld'
  BY <1>20 DEF StopTest, NextStop, is_idle
<1>21. ASSUME NEW t \in Runners, StopCancel(t) PROVE AppLockHeld'
  <2>1. /\ pc[t] \in {"run", "stoptest", "stopcancel"}
        /\ \E l \in {"run", "stoptest", "stopcancel"} : pc' = [pc EXCEPT ![t] = l]
    BY <1>21 DEF StopCancel, NextStop
  <2>2. UNCHANGED <<appLock>>
    BY <1>21 DEF StopCancel
  <2>3. QED
    BY <2>1, <2>2
<1>22. ASSUME NEW t \in Runners, Leave(t) PROVE AppLockHeld'
  BY <1>22 DEF Leave
<1>23. ASSUME NEW t \in Runners, NEW w \in Workers, RunRead(t, w)
      PROVE AppLockHeld'
  BY <1>23 DEF RunRead
<1>24. ASSUME NEW t \in Runners, NEW w \in Workers, RunWritten(t, w)
      PROVE AppLockHeld'
  BY <1>24 DEF RunWritten
<1>25. ASSUME NEW w \in Workers, ReadParse(w) PROVE AppLockHeld'
  BY <1>25 DEF ReadParse
<1>26. ASSUME NEW w \in Workers, ReadSome(w) PROVE AppLockHeld'
  BY <1>26 DEF ReadSome
<1>27. ASSUME NEW w \in Workers, ReadFails(w) PROVE AppLockHeld'
  BY <1>27 DEF ReadFails
<1>28. ASSUME NEW w \in Workers, WriteSucceeds(w) PROVE AppLockHeld'
  BY <1>28 DEF WriteSucceeds
<1>29. ASSUME NEW w \in Workers, WriteFails(w) PROVE AppLockHeld'
  BY <1>29 DEF WriteFails
<1>30. ASSUME NEW c \in Conns, Connect(c) PROVE AppLockHeld'
  BY <1>30 DEF Connect
<1>31. ASSUME NEW c \in Conns, NEW e \in Ends, Send(c, e) PROVE AppLockHeld'
  BY <1>31 DEF Send
<1>32. CASE UNCHANGED vars
  BY <1>32
<1>33. QED
  BY <1>1, <1>2, <1>3, <1>4, <1>5, <1>6, <1>7, <1>8, <1>9, <1>10, <1>11,
     <1>12, <1>13, <1>14, <1>15, <1>16, <1>17, <1>18, <1>19, <1>20,
     <1>21, <1>22, <1>23, <1>24, <1>25, <1>26, <1>27, <1>28, <1>29,
     <1>30, <1>31, <1>32
     DEF Next, Pick, Step, Stream, Client

\* next_worker stops on an idle worker, and only start_work fills one.
LEMMA ReservedStep ==
    ASSUME IInv, [Next]_vars
    PROVE  ReservedWorkerIdle'
<1> USE BeastAssumption DEF Workers, Runners, Goto, InRun,
        vars, threadVars, acceptVars, workerVars, ioVars, clientVars
<1>0. /\ pc \in [Runners -> Labels]
      /\ worker \in Workers
      /\ stream \in [Workers -> Conns \cup {NoConn}]
      /\ OneAcceptHandler
      /\ ReservedWorkerIdle
  BY DEF IInv, TypeOK
<1> USE <1>0 DEF ReservedWorkerIdle, OneAcceptHandler, Accepting, is_idle
<1>1. ASSUME Boot PROVE ReservedWorkerIdle'
  BY <1>1 DEF Boot
<1>2. ASSUME Accept PROVE ReservedWorkerIdle'
  BY <1>2 DEF Accept
<1>3. ASSUME Signal PROVE ReservedWorkerIdle'
  BY <1>3 DEF Signal
<1>4. ASSUME Terminated PROVE ReservedWorkerIdle'
  BY <1>4 DEF Terminated
<1>5. ASSUME NEW t \in Runners, RunPosted(t) PROVE ReservedWorkerIdle'
  BY <1>5 DEF RunPosted
<1>6. ASSUME NEW t \in Runners, RunAccept(t) PROVE ReservedWorkerIdle'
  BY <1>6 DEF RunAccept
<1>7. ASSUME NEW t \in Runners, RunSignal(t) PROVE ReservedWorkerIdle'
  BY <1>7 DEF RunSignal
<1>8. ASSUME NEW t \in Runners, async_accept(t) PROVE ReservedWorkerIdle'
  BY <1>8 DEF async_accept
<1>9. ASSUME NEW t \in Runners, start_work(t) PROVE ReservedWorkerIdle'
  BY <1>9 DEF start_work
<1>10. ASSUME NEW t \in Runners, StartWorkThrows(t) PROVE ReservedWorkerIdle'
  BY <1>10 DEF StartWorkThrows
<1>11. ASSUME NEW t \in Runners, next_worker(t) PROVE ReservedWorkerIdle'
  BY <1>11 DEF next_worker, Successor, is_idle
<1>12. ASSUME NEW t \in Runners, start(t) PROVE ReservedWorkerIdle'
  BY <1>12 DEF start
<1>13. ASSUME NEW t \in Runners, call_app(t) PROVE ReservedWorkerIdle'
  BY <1>13 DEF call_app, NoThread
<1>14. ASSUME NEW t \in Runners, AppReturns(t) PROVE ReservedWorkerIdle'
  BY <1>14 DEF AppReturns
<1>15. ASSUME NEW t \in Runners, async_write_response(t)
      PROVE ReservedWorkerIdle'
  BY <1>15 DEF async_write_response
<1>16. ASSUME NEW t \in Runners, reset(t) PROVE ReservedWorkerIdle'
  BY <1>16 DEF reset
<1>17. ASSUME NEW t \in Runners, Disengage(t) PROVE ReservedWorkerIdle'
  BY <1>17 DEF Disengage
<1>18. ASSUME NEW t \in Runners, Destroy(t) PROVE ReservedWorkerIdle'
  BY <1>18 DEF Destroy
<1>19. ASSUME NEW t \in Runners, StopIo(t) PROVE ReservedWorkerIdle'
  BY <1>19 DEF StopIo
<1>20. ASSUME NEW t \in Runners, StopTest(t) PROVE ReservedWorkerIdle'
  BY <1>20 DEF StopTest, NextStop, is_idle
<1>21. ASSUME NEW t \in Runners, StopCancel(t) PROVE ReservedWorkerIdle'
  <2>1. /\ pc[t] \in {"run", "stoptest", "stopcancel"}
        /\ \E l \in {"run", "stoptest", "stopcancel"} : pc' = [pc EXCEPT ![t] = l]
    BY <1>21 DEF StopCancel, NextStop
  <2>2. UNCHANGED <<stream, worker>>
    BY <1>21 DEF StopCancel
  <2>3. QED
    BY <2>1, <2>2
<1>22. ASSUME NEW t \in Runners, Leave(t) PROVE ReservedWorkerIdle'
  BY <1>22 DEF Leave
<1>23. ASSUME NEW t \in Runners, NEW w \in Workers, RunRead(t, w)
      PROVE ReservedWorkerIdle'
  BY <1>23 DEF RunRead
<1>24. ASSUME NEW t \in Runners, NEW w \in Workers, RunWritten(t, w)
      PROVE ReservedWorkerIdle'
  BY <1>24 DEF RunWritten
<1>25. ASSUME NEW w \in Workers, ReadParse(w) PROVE ReservedWorkerIdle'
  BY <1>25 DEF ReadParse
<1>26. ASSUME NEW w \in Workers, ReadSome(w) PROVE ReservedWorkerIdle'
  BY <1>26 DEF ReadSome
<1>27. ASSUME NEW w \in Workers, ReadFails(w) PROVE ReservedWorkerIdle'
  BY <1>27 DEF ReadFails
<1>28. ASSUME NEW w \in Workers, WriteSucceeds(w) PROVE ReservedWorkerIdle'
  BY <1>28 DEF WriteSucceeds
<1>29. ASSUME NEW w \in Workers, WriteFails(w) PROVE ReservedWorkerIdle'
  BY <1>29 DEF WriteFails
<1>30. ASSUME NEW c \in Conns, Connect(c) PROVE ReservedWorkerIdle'
  BY <1>30 DEF Connect
<1>31. ASSUME NEW c \in Conns, NEW e \in Ends, Send(c, e)
      PROVE ReservedWorkerIdle'
  BY <1>31 DEF Send
<1>32. CASE UNCHANGED vars
  BY <1>32
<1>33. QED
  BY <1>1, <1>2, <1>3, <1>4, <1>5, <1>6, <1>7, <1>8, <1>9, <1>10, <1>11,
     <1>12, <1>13, <1>14, <1>15, <1>16, <1>17, <1>18, <1>19, <1>20,
     <1>21, <1>22, <1>23, <1>24, <1>25, <1>26, <1>27, <1>28, <1>29,
     <1>30, <1>31, <1>32
     DEF Next, Pick, Step, Stream, Client

\* A handler takes its worker over from the operation that completed and gives
\* it to the next one; the accept handler takes only an idle worker.
LEMMA HandlerStep ==
    ASSUME IInv, [Next]_vars
    PROVE  HandlerOwnsStream'
<1> USE BeastAssumption DEF Workers, Runners, Goto, InRun,
        vars, threadVars, acceptVars, workerVars, ioVars, clientVars
<1>0. /\ pc \in [Runners -> Labels]
      /\ hnd \in [Runners -> Workers \cup {NoWorker}]
      /\ worker \in Workers
      /\ stream \in [Workers -> Conns \cup {NoConn}]
      /\ op \in [Workers -> {"none", "reading", "read_ok", "read_err", "writing", "written"}]
      /\ OneAcceptHandler
      /\ SocketAtHand
      /\ ReservedWorkerIdle
      /\ HandlerOwnsStream
  BY DEF IInv, TypeOK
<1> USE <1>0 DEF HandlerOwnsStream, Serving, ReservedWorkerIdle,
        OneAcceptHandler, SocketAtHand, Accepting, is_idle
<1>1. ASSUME Boot PROVE HandlerOwnsStream'
  BY <1>1 DEF Boot
<1>2. ASSUME Accept PROVE HandlerOwnsStream'
  BY <1>2 DEF Accept
<1>3. ASSUME Signal PROVE HandlerOwnsStream'
  BY <1>3 DEF Signal
<1>4. ASSUME Terminated PROVE HandlerOwnsStream'
  BY <1>4 DEF Terminated
<1>5. ASSUME NEW t \in Runners, RunPosted(t) PROVE HandlerOwnsStream'
  BY <1>5 DEF RunPosted
<1>6. ASSUME NEW t \in Runners, RunAccept(t) PROVE HandlerOwnsStream'
  BY <1>6 DEF RunAccept
<1>7. ASSUME NEW t \in Runners, RunSignal(t) PROVE HandlerOwnsStream'
  BY <1>7 DEF RunSignal
<1>8. ASSUME NEW t \in Runners, async_accept(t) PROVE HandlerOwnsStream'
  BY <1>8 DEF async_accept
<1>9. ASSUME NEW t \in Runners, start_work(t) PROVE HandlerOwnsStream'
  <2>1. \A u \in Runners : pc[u] # "spin"
    BY <1>9 DEF start_work
  <2>2. stream[worker] = NoConn /\ op[worker] = "none" /\ accConn # NoConn
    BY <1>9, <2>1 DEF start_work
  <2>3. \A u \in Runners : Serving(u) => hnd[u] # worker
    BY <2>2
  <2>4. /\ stream' = [stream EXCEPT ![worker] = accConn] /\ UNCHANGED op
        /\ \A u \in Runners \ {t} : (Serving(u)' <=> Serving(u)) /\ hnd'[u] = hnd[u]
        /\ hnd'[t] = worker
    BY <1>9 DEF start_work
  <2>5. \A w \in Workers : stream[w] # NoConn => stream'[w] = stream[w]
    BY <2>2, <2>4
  <2>6. stream'[worker] # NoConn
    BY <2>2, <2>4
  <2>7. worker \in Workers
    OBVIOUS
  <2> HIDE DEF TypeOK, Runners, Workers, Serving, Accepting,
          OneAcceptHandler, SocketAtHand, ReservedWorkerIdle, vars
  <2>8. QED
    BY <2>2, <2>3, <2>4, <2>5, <2>6, <2>7
<1>10. ASSUME NEW t \in Runners, StartWorkThrows(t) PROVE HandlerOwnsStream'
  BY <1>10 DEF StartWorkThrows
<1>11. ASSUME NEW t \in Runners, next_worker(t) PROVE HandlerOwnsStream'
  BY <1>11 DEF next_worker, Successor, is_idle
<1>12. ASSUME NEW t \in Runners, start(t) PROVE HandlerOwnsStream'
  BY <1>12 DEF start
<1>13. ASSUME NEW t \in Runners, call_app(t) PROVE HandlerOwnsStream'
  BY <1>13 DEF call_app, NoThread
<1>14. ASSUME NEW t \in Runners, AppReturns(t) PROVE HandlerOwnsStream'
  BY <1>14 DEF AppReturns
<1>15. ASSUME NEW t \in Runners, async_write_response(t)
      PROVE HandlerOwnsStream'
  BY <1>15 DEF async_write_response
<1>16. ASSUME NEW t \in Runners, reset(t) PROVE HandlerOwnsStream'
  BY <1>16 DEF reset
<1>17. ASSUME NEW t \in Runners, Disengage(t) PROVE HandlerOwnsStream'
  BY <1>17 DEF Disengage
<1>18. ASSUME NEW t \in Runners, Destroy(t) PROVE HandlerOwnsStream'
  BY <1>18 DEF Destroy
<1>19. ASSUME NEW t \in Runners, StopIo(t) PROVE HandlerOwnsStream'
  BY <1>19 DEF StopIo
<1>20. ASSUME NEW t \in Runners, StopTest(t) PROVE HandlerOwnsStream'
  <2>1. /\ ~Serving(t)'
        /\ \A u \in Runners \ {t} : (Serving(u)' <=> Serving(u)) /\ hnd'[u] = hnd[u]
    BY <1>20 DEF StopTest, NextStop
  <2>2. UNCHANGED stream /\ \A w \in Workers : op'[w] = "none" <=> op[w] = "none"
    BY <1>20 DEF StopTest
  <2> HIDE DEF TypeOK, Runners, Workers, Serving, Accepting,
          OneAcceptHandler, SocketAtHand, ReservedWorkerIdle, vars
  <2>3. QED
    BY <2>1, <2>2
<1>21. ASSUME NEW t \in Runners, StopCancel(t) PROVE HandlerOwnsStream'
  <2>1. /\ ~Serving(t)'
        /\ \A u \in Runners \ {t} : (Serving(u)' <=> Serving(u)) /\ hnd'[u] = hnd[u]
    BY <1>21 DEF StopCancel, NextStop
  <2>2. UNCHANGED stream /\ \A w \in Workers : op'[w] = "none" <=> op[w] = "none"
    BY <1>21 DEF StopCancel
  <2> HIDE DEF TypeOK, Runners, Workers, Serving, Accepting,
          OneAcceptHandler, SocketAtHand, ReservedWorkerIdle, vars
  <2>3. QED
    BY <2>1, <2>2
<1>22. ASSUME NEW t \in Runners, Leave(t) PROVE HandlerOwnsStream'
  BY <1>22 DEF Leave
<1>23. ASSUME NEW t \in Runners, NEW w \in Workers, RunRead(t, w)
      PROVE HandlerOwnsStream'
  <2>1. stream[w] # NoConn /\ op[w] # "none"
    BY <1>23 DEF RunRead
  <2>2. \A u \in Runners : Serving(u) => hnd[u] # w
    BY <2>1
  <2>3. /\ op' = [op EXCEPT ![w] = "none"] /\ UNCHANGED stream
        /\ \A u \in Runners \ {t} : (Serving(u)' <=> Serving(u)) /\ hnd'[u] = hnd[u]
        /\ hnd'[t] = w
    BY <1>23 DEF RunRead
  <2>4. op \in [Workers -> {"none", "reading", "read_ok", "read_err", "writing", "written"}]
    BY DEF TypeOK
  <2> HIDE DEF TypeOK, Runners, Workers, Serving, Accepting,
          OneAcceptHandler, SocketAtHand, ReservedWorkerIdle, vars
  <2>5. QED
    BY <2>1, <2>2, <2>3, <2>4
<1>24. ASSUME NEW t \in Runners, NEW w \in Workers, RunWritten(t, w)
      PROVE HandlerOwnsStream'
  BY <1>24 DEF RunWritten
<1>25. ASSUME NEW w \in Workers, ReadParse(w) PROVE HandlerOwnsStream'
  BY <1>25 DEF ReadParse
<1>26. ASSUME NEW w \in Workers, ReadSome(w) PROVE HandlerOwnsStream'
  BY <1>26 DEF ReadSome
<1>27. ASSUME NEW w \in Workers, ReadFails(w) PROVE HandlerOwnsStream'
  BY <1>27 DEF ReadFails
<1>28. ASSUME NEW w \in Workers, WriteSucceeds(w) PROVE HandlerOwnsStream'
  BY <1>28 DEF WriteSucceeds
<1>29. ASSUME NEW w \in Workers, WriteFails(w) PROVE HandlerOwnsStream'
  BY <1>29 DEF WriteFails
<1>30. ASSUME NEW c \in Conns, Connect(c) PROVE HandlerOwnsStream'
  BY <1>30 DEF Connect
<1>31. ASSUME NEW c \in Conns, NEW e \in Ends, Send(c, e)
      PROVE HandlerOwnsStream'
  BY <1>31 DEF Send
<1>32. CASE UNCHANGED vars
  BY <1>32
<1>33. QED
  BY <1>1, <1>2, <1>3, <1>4, <1>5, <1>6, <1>7, <1>8, <1>9, <1>10, <1>11,
     <1>12, <1>13, <1>14, <1>15, <1>16, <1>17, <1>18, <1>19, <1>20,
     <1>21, <1>22, <1>23, <1>24, <1>25, <1>26, <1>27, <1>28, <1>29,
     <1>30, <1>31, <1>32
     DEF Next, Pick, Step, Stream, Client

\* reset() closes the socket first, and a closed connection stays closed.
LEMMA ClosedStep ==
    ASSUME IInv, [Next]_vars
    PROVE  ClosedBeforeDestroyed'
<1> USE BeastAssumption DEF Workers, Runners, Goto, InRun,
        vars, threadVars, acceptVars, workerVars, ioVars, clientVars
<1>0. /\ pc \in [Runners -> Labels]
      /\ hnd \in [Runners -> Workers \cup {NoWorker}]
      /\ worker \in Workers
      /\ stream \in [Workers -> Conns \cup {NoConn}]
      /\ cst \in [Conns -> {"new", "backlog", "accepted", "closed"}]
      /\ OneAcceptHandler
      /\ ReservedWorkerIdle
      /\ HandlerOwnsStream
      /\ ClosedBeforeDestroyed
  BY DEF IInv, TypeOK
<1> USE <1>0 DEF ClosedBeforeDestroyed, HandlerOwnsStream, Serving
<1>1. ASSUME Boot PROVE ClosedBeforeDestroyed'
  BY <1>1 DEF Boot
<1>2. ASSUME Accept PROVE ClosedBeforeDestroyed'
  BY <1>2 DEF Accept
<1>3. ASSUME Signal PROVE ClosedBeforeDestroyed'
  BY <1>3 DEF Signal
<1>4. ASSUME Terminated PROVE ClosedBeforeDestroyed'
  BY <1>4 DEF Terminated
<1>5. ASSUME NEW t \in Runners, RunPosted(t) PROVE ClosedBeforeDestroyed'
  BY <1>5 DEF RunPosted
<1>6. ASSUME NEW t \in Runners, RunAccept(t) PROVE ClosedBeforeDestroyed'
  BY <1>6 DEF RunAccept
<1>7. ASSUME NEW t \in Runners, RunSignal(t) PROVE ClosedBeforeDestroyed'
  BY <1>7 DEF RunSignal
<1>8. ASSUME NEW t \in Runners, async_accept(t) PROVE ClosedBeforeDestroyed'
  BY <1>8 DEF async_accept
<1>9. ASSUME NEW t \in Runners, start_work(t) PROVE ClosedBeforeDestroyed'
  <2>1. \A u \in Runners : pc[u] # "spin"
    BY <1>9 DEF start_work, OneAcceptHandler, Accepting
  <2>2. stream[worker] = NoConn
    BY <2>1 DEF ReservedWorkerIdle, is_idle
  <2>3. \A u \in Runners : pc[u] = "disengage" => hnd[u] # worker
    BY <2>2
  <2>4. QED
    BY <1>9, <2>3 DEF start_work
<1>10. ASSUME NEW t \in Runners, StartWorkThrows(t)
      PROVE ClosedBeforeDestroyed'
  BY <1>10 DEF StartWorkThrows
<1>11. ASSUME NEW t \in Runners, next_worker(t) PROVE ClosedBeforeDestroyed'
  BY <1>11 DEF next_worker, Successor, is_idle
<1>12. ASSUME NEW t \in Runners, start(t) PROVE ClosedBeforeDestroyed'
  BY <1>12 DEF start
<1>13. ASSUME NEW t \in Runners, call_app(t) PROVE ClosedBeforeDestroyed'
  BY <1>13 DEF call_app, NoThread
<1>14. ASSUME NEW t \in Runners, AppReturns(t) PROVE ClosedBeforeDestroyed'
  BY <1>14 DEF AppReturns
<1>15. ASSUME NEW t \in Runners, async_write_response(t)
      PROVE ClosedBeforeDestroyed'
  BY <1>15 DEF async_write_response
<1>16. ASSUME NEW t \in Runners, reset(t) PROVE ClosedBeforeDestroyed'
  BY <1>16 DEF reset
<1>17. ASSUME NEW t \in Runners, Disengage(t) PROVE ClosedBeforeDestroyed'
  BY <1>17 DEF Disengage
<1>18. ASSUME NEW t \in Runners, Destroy(t) PROVE ClosedBeforeDestroyed'
  BY <1>18 DEF Destroy
<1>19. ASSUME NEW t \in Runners, StopIo(t) PROVE ClosedBeforeDestroyed'
  BY <1>19 DEF StopIo
<1>20. ASSUME NEW t \in Runners, StopTest(t) PROVE ClosedBeforeDestroyed'
  BY <1>20 DEF StopTest, NextStop, is_idle
<1>21. ASSUME NEW t \in Runners, StopCancel(t) PROVE ClosedBeforeDestroyed'
  <2>1. /\ pc'[t] # "disengage"
        /\ \A u \in Runners \ {t} : pc'[u] = pc[u] /\ hnd'[u] = hnd[u]
    BY <1>21 DEF StopCancel, NextStop
  <2>2. UNCHANGED <<stream, cst>>
    BY <1>21 DEF StopCancel
  <2>3. QED
    BY <2>1, <2>2
<1>22. ASSUME NEW t \in Runners, Leave(t) PROVE ClosedBeforeDestroyed'
  BY <1>22 DEF Leave
<1>23. ASSUME NEW t \in Runners, NEW w \in Workers, RunRead(t, w)
      PROVE ClosedBeforeDestroyed'
  BY <1>23 DEF RunRead
<1>24. ASSUME NEW t \in Runners, NEW w \in Workers, RunWritten(t, w)
      PROVE ClosedBeforeDestroyed'
  BY <1>24 DEF RunWritten
<1>25. ASSUME NEW w \in Workers, ReadParse(w) PROVE ClosedBeforeDestroyed'
  BY <1>25 DEF ReadParse
<1>26. ASSUME NEW w \in Workers, ReadSome(w) PROVE ClosedBeforeDestroyed'
  BY <1>26 DEF ReadSome
<1>27. ASSUME NEW w \in Workers, ReadFails(w) PROVE ClosedBeforeDestroyed'
  BY <1>27 DEF ReadFails
<1>28. ASSUME NEW w \in Workers, WriteSucceeds(w) PROVE ClosedBeforeDestroyed'
  BY <1>28 DEF WriteSucceeds
<1>29. ASSUME NEW w \in Workers, WriteFails(w) PROVE ClosedBeforeDestroyed'
  BY <1>29 DEF WriteFails
<1>30. ASSUME NEW c \in Conns, Connect(c) PROVE ClosedBeforeDestroyed'
  BY <1>30 DEF Connect
<1>31. ASSUME NEW c \in Conns, NEW e \in Ends, Send(c, e)
      PROVE ClosedBeforeDestroyed'
  BY <1>31 DEF Send
<1>32. CASE UNCHANGED vars
  BY <1>32
<1>33. QED
  BY <1>1, <1>2, <1>3, <1>4, <1>5, <1>6, <1>7, <1>8, <1>9, <1>10, <1>11,
     <1>12, <1>13, <1>14, <1>15, <1>16, <1>17, <1>18, <1>19, <1>20,
     <1>21, <1>22, <1>23, <1>24, <1>25, <1>26, <1>27, <1>28, <1>29,
     <1>30, <1>31, <1>32
     DEF Next, Pick, Step, Stream, Client

\* Cutting a buffer in two leaves two sequences of the buffer's pieces.
LEMMA Halves ==
    ASSUME NEW S, NEW s \in Seq(S), NEW k \in 0 .. Len(s)
    PROVE  SubSeq(s, 1, k) \in Seq(S) /\ SubSeq(s, k + 1, Len(s)) \in Seq(S)
<1>1. Len(s) \in Nat /\ k \in Int
  BY LenProperties
<1>2. \A i \in 1 .. k : s[i] \in S
  BY <1>1, ElementOfSeq
<1>3. \A i \in k + 1 .. Len(s) : s[i] \in S
  BY <1>1, ElementOfSeq
<1>4. SubSeq(s, 1, k) \in Seq(S)
  BY <1>1, <1>2, SubSeqProperties
<1>5. SubSeq(s, k + 1, Len(s)) \in Seq(S)
  BY <1>1, <1>3, SubSeqProperties
<1>6. QED
  BY <1>4, <1>5

\* The signal handler's loop over http_workers stays within the list.
LEMMA NextStopTypes ==
    ASSUME NEW t \in Runners, NextStop(t), pc \in [Runners -> Labels],
           hnd \in [Runners -> Workers \cup {NoWorker}]
    PROVE  /\ pc' \in [Runners -> Labels]
           /\ hnd' \in [Runners -> Workers \cup {NoWorker}]
<1> USE BeastAssumption DEF NextStop, Goto, Workers, NoWorker
<1>1. hnd[t] # NumWorkers => hnd[t] + 1 \in Workers
  OBVIOUS
<1>2. "run" \in Labels /\ "stoptest" \in Labels
  BY DEF Labels
<1>3. QED
  BY <1>1, <1>2

\* Every handler and every operation of a stream keeps the types.
LEMMA TypeStep ==
    ASSUME IInv, [Next]_vars
    PROVE  TypeOK'
<1> USE BeastAssumption DEF IInv, Workers, Runners, Goto, InRun,
        vars, threadVars, acceptVars, workerVars, ioVars, clientVars
<1> USE DEF TypeOK, Labels, NoThread, NoWorker
<1>1. ASSUME Boot PROVE TypeOK'
  <2>1. pc' \in [Runners -> Labels] /\ acc' \in {"off", "posted", "armed", "ready", "handler"}
    BY <1>1 DEF Boot
  <2>2. UNCHANGED <<hnd, lock, appLock, accConn, worker, workerVars, ioVars, clientVars>>
    BY <1>1 DEF Boot
  <2>3. QED
    BY <2>1, <2>2
<1>2. ASSUME Accept PROVE TypeOK'
  BY <1>2 DEF Accept
<1>3. ASSUME Signal PROVE TypeOK'
  BY <1>3 DEF Signal
<1>4. ASSUME Terminated PROVE TypeOK'
  BY <1>4 DEF Terminated
<1>5. ASSUME NEW t \in Runners, RunPosted(t) PROVE TypeOK'
  BY <1>5 DEF RunPosted
<1>6. ASSUME NEW t \in Runners, RunAccept(t) PROVE TypeOK'
  BY <1>6 DEF RunAccept
<1>7. ASSUME NEW t \in Runners, RunSignal(t) PROVE TypeOK'
  BY <1>7 DEF RunSignal
<1>8. ASSUME NEW t \in Runners, async_accept(t) PROVE TypeOK'
  BY <1>8 DEF async_accept
<1>9. ASSUME NEW t \in Runners, start_work(t) PROVE TypeOK'
  BY <1>9 DEF start_work
<1>10. ASSUME NEW t \in Runners, StartWorkThrows(t) PROVE TypeOK'
  BY <1>10 DEF StartWorkThrows
<1>11. ASSUME NEW t \in Runners, next_worker(t) PROVE TypeOK'
  <2>0. pc \in [Runners -> Labels]
    OBVIOUS
  <2>1. Successor(worker) \in Workers
    BY DEF Successor
  <2>2. worker' \in Workers /\ lock' \in Runners \cup {NoThread}
    BY <1>11, <2>1 DEF next_worker
  <2>3. pc' \in [Runners -> Labels]
    <3>1. pc' = pc \/ pc' = [pc EXCEPT ![t] = "start"]
      BY <1>11 DEF next_worker
    <3> HIDE DEF IInv
    <3>2. QED
      BY <2>0, <3>1
  <2>4. UNCHANGED <<hnd, appLock, acc, accConn, workerVars, ioVars, clientVars>>
    BY <1>11 DEF next_worker
  <2>5. QED
    BY <2>2, <2>3, <2>4
<1>12. ASSUME NEW t \in Runners, start(t) PROVE TypeOK'
  BY <1>12 DEF start
<1>13. ASSUME NEW t \in Runners, call_app(t) PROVE TypeOK'
  BY <1>13 DEF call_app, NoThread
<1>14. ASSUME NEW t \in Runners, AppReturns(t) PROVE TypeOK'
  BY <1>14 DEF AppReturns
<1>15. ASSUME NEW t \in Runners, async_write_response(t) PROVE TypeOK'
  BY <1>15 DEF async_write_response
<1>16. ASSUME NEW t \in Runners, reset(t) PROVE TypeOK'
  <2>1. <<>> \in Seq(Piece)
    BY EmptySeq
  <2>2. parser' \in [Workers -> Seq(Piece)] /\ pc' \in [Runners -> Labels]
    BY <1>16, <2>1 DEF reset
  <2>3. cst' \in [Conns -> {"new", "backlog", "accepted", "closed"}]
    BY <1>16 DEF reset
  <2>4. UNCHANGED <<hnd, lock, appLock, acceptVars, stream, dying, op, buf, ioVars, inbox, nsent, answers>>
    BY <1>16 DEF reset
  <2>5. QED
    BY <2>2, <2>3, <2>4
<1>17. ASSUME NEW t \in Runners, Disengage(t) PROVE TypeOK'
  BY <1>17 DEF Disengage
<1>18. ASSUME NEW t \in Runners, Destroy(t) PROVE TypeOK'
  BY <1>18 DEF Destroy
<1>19. ASSUME NEW t \in Runners, StopIo(t) PROVE TypeOK'
  <2>1. hnd' \in [Runners -> Workers \cup {NoWorker}] /\ pc' \in [Runners -> Labels]
    <3>1. 1 \in Workers /\ "stoptest" \in Labels
      OBVIOUS
    <3>2. QED
      BY <1>19, <3>1 DEF StopIo
  <2>2. stopped' \in BOOLEAN
    BY <1>19 DEF StopIo
  <2>3. UNCHANGED <<lock, appLock, acceptVars, workerVars, signal, clientVars>>
    BY <1>19 DEF StopIo
  <2>4. QED
    BY <2>1, <2>2, <2>3
<1>20. ASSUME NEW t \in Runners, StopTest(t) PROVE TypeOK'
  <2>1. pc \in [Runners -> Labels] /\ hnd \in [Runners -> Workers \cup {NoWorker}]
    OBVIOUS
  <2>2. UNCHANGED <<lock, appLock, acceptVars, workerVars, ioVars, clientVars>>
    BY <1>20 DEF StopTest
  <2>3. CASE NextStop(t)
    <3>1. pc' \in [Runners -> Labels] /\ hnd' \in [Runners -> Workers \cup {NoWorker}]
      BY <2>1, <2>3, NextStopTypes
    <3>2. QED
      BY <2>2, <3>1
  <2>4. CASE pc' = [pc EXCEPT ![t] = "stopcancel"] /\ UNCHANGED hnd
    BY <2>2, <2>4
  <2>5. QED
    BY <1>20, <2>3, <2>4 DEF StopTest
<1>21. ASSUME NEW t \in Runners, StopCancel(t) PROVE TypeOK'
  <2>1. pc' \in [Runners -> Labels] /\ hnd' \in [Runners -> Workers \cup {NoWorker}]
    BY <1>21, NextStopTypes DEF StopCancel
  <2>2. op' \in [Workers -> {"none", "reading", "read_ok", "read_err", "writing", "written"}]
    BY <1>21 DEF StopCancel
  <2>3. UNCHANGED <<lock, appLock, acceptVars, stream, dying, buf, parser, ioVars, clientVars>>
    BY <1>21 DEF StopCancel
  <2>4. QED
    BY <2>1, <2>2, <2>3
<1>22. ASSUME NEW t \in Runners, Leave(t) PROVE TypeOK'
  BY <1>22 DEF Leave
<1>23. ASSUME NEW t \in Runners, NEW w \in Workers, RunRead(t, w)
      PROVE TypeOK'
  BY <1>23 DEF RunRead
<1>24. ASSUME NEW t \in Runners, NEW w \in Workers, RunWritten(t, w)
      PROVE TypeOK'
  BY <1>24 DEF RunWritten
<1>25. ASSUME NEW w \in Workers, ReadParse(w) PROVE TypeOK'
  <2> DEFINE all == parser[w] \o buf[w]
  <2>1. all \in Seq(Piece)
    BY ConcatProperties
  <2>2. PICK n \in 1 .. Len(all) :
          /\ parser' = [parser EXCEPT ![w] = SubSeq(all, 1, n)]
          /\ buf' = [buf EXCEPT ![w] = SubSeq(all, n + 1, Len(all))]
    BY <1>25 DEF ReadParse
  <2> HIDE DEF all
  <2>3. /\ SubSeq(all, 1, n) \in Seq(Piece)
        /\ SubSeq(all, n + 1, Len(all)) \in Seq(Piece)
    <3> HIDE DEF IInv
    <3>1. n \in 0 .. Len(all)
      BY <2>1, <2>2, LenProperties
    <3>2. QED
      BY <2>1, <3>1, Halves
  <2>4. /\ op' = [op EXCEPT ![w] = "read_ok"]
        /\ UNCHANGED <<threadVars, acceptVars, stream, dying, ioVars, clientVars>>
    BY <1>25 DEF ReadParse
  <2>5. QED
    BY <2>2, <2>3, <2>4
<1>26. ASSUME NEW w \in Workers, ReadSome(w) PROVE TypeOK'
  <2> DEFINE c == stream[w]
             new(k) == buf[w] \o SubSeq(inbox[c], 1, k)
  <2>1. c \in Conns
    BY <1>26 DEF ReadSome, HandlerOwnsStream
  <2>2. PICK k \in 1 .. Len(inbox[c]), n \in Nat :
          /\ n \in 0 .. Len(new(k))
          /\ inbox' = [inbox EXCEPT ![c] = SubSeq(@, k + 1, Len(@))]
          /\ parser' = [parser EXCEPT ![w] = @ \o SubSeq(new(k), 1, n)]
          /\ buf' = [buf EXCEPT ![w] = SubSeq(new(k), n + 1, Len(new(k)))]
    <3>1. PICK k \in 1 .. Len(inbox[c]) :
            /\ inbox' = [inbox EXCEPT ![c] = SubSeq(@, k + 1, Len(@))]
            /\ \E n \in IF Complete(new(k)) THEN {0} ELSE 0 .. Len(new(k)) :
                 /\ parser' = [parser EXCEPT ![w] = @ \o SubSeq(new(k), 1, n)]
                 /\ buf' = [buf EXCEPT ![w] = SubSeq(new(k), n + 1, Len(new(k)))]
      BY <1>26 DEF ReadSome
    <3>2. SubSeq(inbox[c], 1, k) \in Seq(Piece)
      BY <2>1, <3>1, Halves
    <3>3. Len(new(k)) \in Nat
      BY <3>2, ConcatProperties, LenProperties
    <3>4. PICK n \in Nat :
            /\ n \in 0 .. Len(new(k))
            /\ parser' = [parser EXCEPT ![w] = @ \o SubSeq(new(k), 1, n)]
            /\ buf' = [buf EXCEPT ![w] = SubSeq(new(k), n + 1, Len(new(k)))]
      <4>1. \A n \in IF Complete(new(k)) THEN {0} ELSE 0 .. Len(new(k)) :
              n \in Nat /\ n \in 0 .. Len(new(k))
        <5> HIDE DEF new, IInv
        <5>1. QED
          BY <3>3
      <4> HIDE DEF new, IInv
      <4>2. QED
        BY <3>1, <4>1
    <3>5. QED
      BY <3>1, <3>4
  <2>3. inbox[c] \in Seq(Piece) /\ k \in 0 .. Len(inbox[c])
    BY <2>1, LenProperties
  <2>4. /\ SubSeq(inbox[c], 1, k) \in Seq(Piece)
        /\ SubSeq(inbox[c], k + 1, Len(inbox[c])) \in Seq(Piece)
    BY <2>2, <2>3, Halves
  <2>5. new(k) \in Seq(Piece)
    BY <2>4, ConcatProperties
  <2> HIDE DEF new
  <2>6. /\ SubSeq(new(k), 1, n) \in Seq(Piece)
        /\ SubSeq(new(k), n + 1, Len(new(k))) \in Seq(Piece)
    BY <2>2, <2>5, Halves
  <2>7. parser[w] \o SubSeq(new(k), 1, n) \in Seq(Piece)
    BY <2>6, ConcatProperties
  <2> HIDE DEF c
  <2>8. UNCHANGED <<threadVars, acceptVars, stream, dying, op, ioVars, cst, nsent, answers>>
    BY <1>26 DEF ReadSome
  <2>9. QED
    BY <2>1, <2>2, <2>4, <2>6, <2>7, <2>8
<1>27. ASSUME NEW w \in Workers, ReadFails(w) PROVE TypeOK'
  BY <1>27 DEF ReadFails
<1>28. ASSUME NEW w \in Workers, WriteSucceeds(w) PROVE TypeOK'
  <2>1. stream[w] \in Conns
    BY <1>28 DEF WriteSucceeds, HandlerOwnsStream
  <2>2. Append(answers[stream[w]], parser[w]) \in Seq(Seq(Piece))
    BY <2>1, AppendProperties
  <2>3. QED
    BY <1>28, <2>1, <2>2 DEF WriteSucceeds
<1>29. ASSUME NEW w \in Workers, WriteFails(w) PROVE TypeOK'
  BY <1>29 DEF WriteFails
<1>30. ASSUME NEW c \in Conns, Connect(c) PROVE TypeOK'
  BY <1>30 DEF Connect
<1>31. ASSUME NEW c \in Conns, NEW e \in Ends, Send(c, e) PROVE TypeOK'
  <2>1. [from |-> c, ends |-> e] \in Piece
    BY DEF Piece
  <2> HIDE DEF Piece
  <2>2. Append(inbox[c], [from |-> c, ends |-> e]) \in Seq(Piece)
    BY <2>1, AppendProperties
  <2>3. inbox' \in [Conns -> Seq(Piece)]
    BY <1>31, <2>2 DEF Send
  <2>4. nsent' \in [Conns -> Nat]
    BY <1>31 DEF Send
  <2>5. QED
    BY <1>31, <2>3, <2>4 DEF Send
<1>32. CASE UNCHANGED vars
  BY <1>32
<1>33. QED
  BY <1>1, <1>2, <1>3, <1>4, <1>5, <1>6, <1>7, <1>8, <1>9, <1>10, <1>11,
     <1>12, <1>13, <1>14, <1>15, <1>16, <1>17, <1>18, <1>19, <1>20,
     <1>21, <1>22, <1>23, <1>24, <1>25, <1>26, <1>27, <1>28, <1>29,
     <1>30, <1>31, <1>32
     DEF Next, Pick, Step, Stream, Client

\* set_socket meets an idle worker only; the destructor follows the close.
LEMMA StreamStep ==
    ASSUME IInv, [Next]_vars
    PROVE  KeepsLiveStreams
<1> USE BeastAssumption DEF Workers, Runners, Goto, InRun,
        vars, threadVars, acceptVars, workerVars, ioVars, clientVars
<1>0. /\ worker \in Workers
      /\ stream \in [Workers -> Conns \cup {NoConn}]
      /\ OneAcceptHandler
      /\ ReservedWorkerIdle
      /\ ClosedBeforeDestroyed
  BY DEF IInv, TypeOK
<1> USE <1>0 DEF KeepsLiveStreams
<1>1. ASSUME Boot PROVE KeepsLiveStreams
  BY <1>1 DEF Boot
<1>2. ASSUME Accept PROVE KeepsLiveStreams
  BY <1>2 DEF Accept
<1>3. ASSUME Signal PROVE KeepsLiveStreams
  BY <1>3 DEF Signal
<1>4. ASSUME Terminated PROVE KeepsLiveStreams
  BY <1>4 DEF Terminated
<1>5. ASSUME NEW t \in Runners, RunPosted(t) PROVE KeepsLiveStreams
  BY <1>5 DEF RunPosted
<1>6. ASSUME NEW t \in Runners, RunAccept(t) PROVE KeepsLiveStreams
  BY <1>6 DEF RunAccept
<1>7. ASSUME NEW t \in Runners, RunSignal(t) PROVE KeepsLiveStreams
  BY <1>7 DEF RunSignal
<1>8. ASSUME NEW t \in Runners, async_accept(t) PROVE KeepsLiveStreams
  BY <1>8 DEF async_accept
<1>9. ASSUME NEW t \in Runners, start_work(t) PROVE KeepsLiveStreams
  <2>1. \A u \in Runners : pc[u] # "spin"
    BY <1>9 DEF start_work, OneAcceptHandler, Accepting
  <2>2. stream[worker] = NoConn
    BY <2>1 DEF ReservedWorkerIdle, is_idle
  <2>3. stream' = [stream EXCEPT ![worker] = accConn]
    BY <1>9 DEF start_work
  <2>4. QED
    BY <2>2, <2>3
<1>10. ASSUME NEW t \in Runners, StartWorkThrows(t) PROVE KeepsLiveStreams
  BY <1>10 DEF StartWorkThrows
<1>11. ASSUME NEW t \in Runners, next_worker(t) PROVE KeepsLiveStreams
  BY <1>11 DEF next_worker, Successor, is_idle
<1>12. ASSUME NEW t \in Runners, start(t) PROVE KeepsLiveStreams
  BY <1>12 DEF start
<1>13. ASSUME NEW t \in Runners, call_app(t) PROVE KeepsLiveStreams
  BY <1>13 DEF call_app, NoThread
<1>14. ASSUME NEW t \in Runners, AppReturns(t) PROVE KeepsLiveStreams
  BY <1>14 DEF AppReturns
<1>15. ASSUME NEW t \in Runners, async_write_response(t)
      PROVE KeepsLiveStreams
  BY <1>15 DEF async_write_response
<1>16. ASSUME NEW t \in Runners, reset(t) PROVE KeepsLiveStreams
  BY <1>16 DEF reset
<1>17. ASSUME NEW t \in Runners, Disengage(t) PROVE KeepsLiveStreams
  <2>1. /\ stream' = [stream EXCEPT ![hnd[t]] = NoConn]
        /\ cst[stream[hnd[t]]] = "closed"
    BY <1>17 DEF Disengage, ClosedBeforeDestroyed
  <2>2. QED
    BY <2>1
<1>18. ASSUME NEW t \in Runners, Destroy(t) PROVE KeepsLiveStreams
  BY <1>18 DEF Destroy
<1>19. ASSUME NEW t \in Runners, StopIo(t) PROVE KeepsLiveStreams
  BY <1>19 DEF StopIo
<1>20. ASSUME NEW t \in Runners, StopTest(t) PROVE KeepsLiveStreams
  BY <1>20 DEF StopTest, NextStop, is_idle
<1>21. ASSUME NEW t \in Runners, StopCancel(t) PROVE KeepsLiveStreams
  BY <1>21 DEF StopCancel, NextStop
<1>22. ASSUME NEW t \in Runners, Leave(t) PROVE KeepsLiveStreams
  BY <1>22 DEF Leave
<1>23. ASSUME NEW t \in Runners, NEW w \in Workers, RunRead(t, w)
      PROVE KeepsLiveStreams
  BY <1>23 DEF RunRead
<1>24. ASSUME NEW t \in Runners, NEW w \in Workers, RunWritten(t, w)
      PROVE KeepsLiveStreams
  BY <1>24 DEF RunWritten
<1>25. ASSUME NEW w \in Workers, ReadParse(w) PROVE KeepsLiveStreams
  BY <1>25 DEF ReadParse
<1>26. ASSUME NEW w \in Workers, ReadSome(w) PROVE KeepsLiveStreams
  BY <1>26 DEF ReadSome
<1>27. ASSUME NEW w \in Workers, ReadFails(w) PROVE KeepsLiveStreams
  BY <1>27 DEF ReadFails
<1>28. ASSUME NEW w \in Workers, WriteSucceeds(w) PROVE KeepsLiveStreams
  BY <1>28 DEF WriteSucceeds
<1>29. ASSUME NEW w \in Workers, WriteFails(w) PROVE KeepsLiveStreams
  BY <1>29 DEF WriteFails
<1>30. ASSUME NEW c \in Conns, Connect(c) PROVE KeepsLiveStreams
  BY <1>30 DEF Connect
<1>31. ASSUME NEW c \in Conns, NEW e \in Ends, Send(c, e)
      PROVE KeepsLiveStreams
  BY <1>31 DEF Send
<1>32. CASE UNCHANGED vars
  BY <1>32
<1>33. QED
  BY <1>1, <1>2, <1>3, <1>4, <1>5, <1>6, <1>7, <1>8, <1>9, <1>10, <1>11,
     <1>12, <1>13, <1>14, <1>15, <1>16, <1>17, <1>18, <1>19, <1>20,
     <1>21, <1>22, <1>23, <1>24, <1>25, <1>26, <1>27, <1>28, <1>29,
     <1>30, <1>31, <1>32
     DEF Next, Pick, Step, Stream, Client

\* operator() starts with every runner outside its handlers, and each step
\* keeps the six parts of the invariant.
THEOREM Inductive == Spec => []IInv
<1>1. Init => IInv
  <2> SUFFICES ASSUME Init PROVE IInv
    OBVIOUS
  <2> USE BeastAssumption DEF Init, Runners, Workers
  <2>1. TypeOK
    <3>1. <<>> \in Seq(Piece) /\ <<>> \in Seq(Seq(Piece))
      BY EmptySeq
    <3>2. /\ pc \in [Runners -> Labels] /\ hnd \in [Runners -> Workers \cup {NoWorker}]
          /\ worker \in Workers
          /\ lock \in Runners \cup {NoThread} /\ appLock \in Runners \cup {NoThread}
      BY DEF Labels, NoThread, NoWorker
    <3>3. /\ stream \in [Workers -> Conns \cup {NoConn}] /\ dying \in [Workers -> BOOLEAN]
          /\ op \in [Workers -> {"none", "reading", "read_ok", "read_err", "writing", "written"}]
          /\ buf \in [Workers -> Seq(Piece)] /\ parser \in [Workers -> Seq(Piece)]
      BY <3>1
    <3>4. /\ cst \in [Conns -> {"new", "backlog", "accepted", "closed"}]
          /\ inbox \in [Conns -> Seq(Piece)] /\ nsent \in [Conns -> Nat]
          /\ answers \in [Conns -> Seq(Seq(Piece))]
      BY <3>1
    <3>5. QED
      BY <3>2, <3>3, <3>4 DEF TypeOK
  <2>2. OneAcceptHandler /\ SocketAtHand /\ AppLockHeld /\ ClosedBeforeDestroyed
    BY DEF OneAcceptHandler, Accepting, SocketAtHand, AppLockHeld, ClosedBeforeDestroyed
  <2>3. ReservedWorkerIdle /\ HandlerOwnsStream
    BY DEF ReservedWorkerIdle, HandlerOwnsStream, is_idle, Serving
  <2>4. QED
    BY <2>1, <2>2, <2>3 DEF IInv
<1>2. IInv /\ [Next]_vars => IInv'
  BY AcceptStep, SocketStep, AppLockStep, ReservedStep, HandlerStep,
     ClosedStep, TypeStep DEF IInv
<1>3. QED
  BY <1>1, <1>2, PTL DEF Spec

\* The server's variables always have their types.
THEOREM TypeCorrect == Spec => []TypeOK
<1>1. IInv => TypeOK
  BY DEF IInv
<1>2. QED
  BY <1>1, Inductive, PTL

\* The round-robin iterator of next_worker never rests on a busy worker:
\* start_work's set_socket cannot destroy a live connection, however many
\* handlers ran since the worker was chosen.
THEOREM ReservedWorkerIsIdle == Spec => []ReservedWorkerIdle
<1>1. IInv => ReservedWorkerIdle
  BY DEF IInv
<1>2. QED
  BY <1>1, Inductive, PTL

\* What a lone runner leaves no room for: a worker that is given a stream while
\* the destructor of its last one is running (start_work during reset()), and
\* a stream that goes between stop()'s test of it and its cancel.
OneRunnerOwnsAll ==
    /\ \A w \in Workers : dying[w] => stream[w] = NoConn
    /\ \A t \in Runners : pc[t] = "stopcancel" => stream[hnd[t]] # NoConn

\* A stream is being destroyed only where the runner is.
AloneInWindows ==
    /\ \A w \in Workers : dying[w] => \A t \in Runners : pc[t] = "destroy" /\ hnd[t] = w
    /\ OneRunnerOwnsAll

\* With one runner nothing else happens inside the two windows.
LEMMA WindowsStep ==
    ASSUME Hardware = 2, TypeOK, HandlerOwnsStream, AloneInWindows, [Next]_vars
    PROVE  AloneInWindows'
<1>0. /\ Runners = {0}
      /\ pc \in [Runners -> Labels] /\ hnd \in [Runners -> Workers \cup {NoWorker}]
      /\ stream \in [Workers -> Conns \cup {NoConn}] /\ dying \in [Workers -> BOOLEAN]
      /\ \A t \in Runners : pc[t] = "disengage" => hnd[t] \in Workers
  BY DEF Runners, TypeOK, HandlerOwnsStream, Serving
<1> USE <1>0 DEF AloneInWindows, OneRunnerOwnsAll, Goto, InRun,
        vars, threadVars, acceptVars, workerVars, ioVars, clientVars
<1>1. ASSUME Boot PROVE AloneInWindows'
  BY <1>1 DEF Boot
<1>2. ASSUME Accept PROVE AloneInWindows'
  BY <1>2 DEF Accept
<1>3. ASSUME Signal PROVE AloneInWindows'
  BY <1>3 DEF Signal
<1>4. ASSUME Terminated PROVE AloneInWindows'
  BY <1>4 DEF Terminated
<1>5. ASSUME NEW t \in Runners, RunPosted(t) PROVE AloneInWindows'
  BY <1>5 DEF RunPosted
<1>6. ASSUME NEW t \in Runners, RunAccept(t) PROVE AloneInWindows'
  BY <1>6 DEF RunAccept
<1>7. ASSUME NEW t \in Runners, RunSignal(t) PROVE AloneInWindows'
  BY <1>7 DEF RunSignal
<1>8. ASSUME NEW t \in Runners, async_accept(t) PROVE AloneInWindows'
  BY <1>8 DEF async_accept
<1>9. ASSUME NEW t \in Runners, start_work(t) PROVE AloneInWindows'
  BY <1>9 DEF start_work
<1>10. ASSUME NEW t \in Runners, StartWorkThrows(t) PROVE AloneInWindows'
  BY <1>10 DEF StartWorkThrows
<1>11. ASSUME NEW t \in Runners, next_worker(t) PROVE AloneInWindows'
  BY <1>11 DEF next_worker, Successor, is_idle
<1>12. ASSUME NEW t \in Runners, start(t) PROVE AloneInWindows'
  BY <1>12 DEF start
<1>13. ASSUME NEW t \in Runners, call_app(t) PROVE AloneInWindows'
  BY <1>13 DEF call_app
<1>14. ASSUME NEW t \in Runners, AppReturns(t) PROVE AloneInWindows'
  BY <1>14 DEF AppReturns
<1>15. ASSUME NEW t \in Runners, async_write_response(t) PROVE AloneInWindows'
  BY <1>15 DEF async_write_response
<1>16. ASSUME NEW t \in Runners, reset(t) PROVE AloneInWindows'
  BY <1>16 DEF reset
<1>17. ASSUME NEW t \in Runners, Disengage(t) PROVE AloneInWindows'
  BY <1>17 DEF Disengage
<1>18. ASSUME NEW t \in Runners, Destroy(t) PROVE AloneInWindows'
  BY <1>18 DEF Destroy
<1>19. ASSUME NEW t \in Runners, StopIo(t) PROVE AloneInWindows'
  BY <1>19 DEF StopIo
<1>20. ASSUME NEW t \in Runners, StopTest(t) PROVE AloneInWindows'
  BY <1>20 DEF StopTest, NextStop, is_idle
<1>21. ASSUME NEW t \in Runners, StopCancel(t) PROVE AloneInWindows'
  BY <1>21 DEF StopCancel, NextStop
<1>22. ASSUME NEW t \in Runners, Leave(t) PROVE AloneInWindows'
  BY <1>22 DEF Leave
<1>23. ASSUME NEW t \in Runners, NEW w \in Workers, RunRead(t, w)
      PROVE AloneInWindows'
  BY <1>23 DEF RunRead
<1>24. ASSUME NEW t \in Runners, NEW w \in Workers, RunWritten(t, w)
      PROVE AloneInWindows'
  BY <1>24 DEF RunWritten
<1>25. ASSUME NEW w \in Workers, ReadParse(w) PROVE AloneInWindows'
  BY <1>25 DEF ReadParse
<1>26. ASSUME NEW w \in Workers, ReadSome(w) PROVE AloneInWindows'
  BY <1>26 DEF ReadSome
<1>27. ASSUME NEW w \in Workers, ReadFails(w) PROVE AloneInWindows'
  BY <1>27 DEF ReadFails
<1>28. ASSUME NEW w \in Workers, WriteSucceeds(w) PROVE AloneInWindows'
  BY <1>28 DEF WriteSucceeds
<1>29. ASSUME NEW w \in Workers, WriteFails(w) PROVE AloneInWindows'
  BY <1>29 DEF WriteFails
<1>30. ASSUME NEW c \in Conns, Connect(c) PROVE AloneInWindows'
  BY <1>30 DEF Connect
<1>31. ASSUME NEW c \in Conns, NEW e \in Ends, Send(c, e)
      PROVE AloneInWindows'
  BY <1>31 DEF Send
<1>32. CASE UNCHANGED vars
  BY <1>32
<1>33. QED
  BY <1>1, <1>2, <1>3, <1>4, <1>5, <1>6, <1>7, <1>8, <1>9, <1>10, <1>11,
     <1>12, <1>13, <1>14, <1>15, <1>16, <1>17, <1>18, <1>19, <1>20,
     <1>21, <1>22, <1>23, <1>24, <1>25, <1>26, <1>27, <1>28, <1>29,
     <1>30, <1>31, <1>32
     DEF Next, Pick, Step, Stream, Client

\* No handler of http_worker dereferences a disengaged stream, and no two
\* runners execute handlers of one worker at the same time: the workers need
\* no strand (accept makes one per connection) and no lock of their own.  Two
\* windows stay open between several runners, the destructor in reset() and
\* the test in stop(); with one runner, on two hardware threads, they too are
\* closed.
THEOREM HandlersOwnTheirStream == Spec => [](HandlerOwnsStream /\ (Hardware = 2 => OneRunnerOwnsAll))
<1>1. IInv => HandlerOwnsStream /\ TypeOK
  BY DEF IInv
<1>2. Init => (Hardware = 2 => AloneInWindows)
  BY DEF Init, AloneInWindows, OneRunnerOwnsAll
<1>3. IInv /\ (Hardware = 2 => AloneInWindows) /\ [Next]_vars => (Hardware = 2 => AloneInWindows)'
  BY <1>1, WindowsStep
<1>4. AloneInWindows => OneRunnerOwnsAll
  BY DEF AloneInWindows
<1>5. QED
  BY <1>1, <1>2, <1>3, <1>4, Inductive, PTL DEF Spec

\* app_call_mutex serialises the application when synced is set.
THEOREM SyncedAppIsExclusive == Spec => []SyncedApp
<1>1. IInv => SyncedApp
  BY DEF IInv, AppLockHeld, SyncedApp
<1>2. QED
  BY <1>1, Inductive, PTL

\* A connection leaves its worker only by reset(), closed: no accept, no
\* signal and no other handler replaces or destroys it.
THEOREM StreamsEndByReset == Spec => StreamReplacedOnlyByReset
<1>1. IInv /\ [Next]_vars => [KeepsLiveStreams]_vars
  BY StreamStep
<1>2. QED
  BY <1>1, Inductive, PTL DEF Spec, StreamReplacedOnlyByReset
-----------------------------------------------------------------------------
\* The chain of accepts begins with the runners and is never lost: a handler
\* that was taken has a runner, a socket that was accepted waits for its
\* handler or is in its hands, and the chain is off only before the start,
\* after the end or after a throw.
ChainKept ==
    /\ \A t \in Runners : pc[t] = "boot" => acc = "off" /\ \A u \in Runners : pc[u] = "boot"
    /\ acc = "handler" => \E t \in Runners : Accepting(t)
    /\ accConn # NoConn => acc = "ready" \/ \E t \in Runners : pc[t] = "accept"
    /\ acc = "off" /\ ~MayThrow => \A t \in Runners : pc[t] \in {"boot", "out"}

\* OpenSocketsOwned in parts: worker w holds the socket of c and has not closed
\* it; the sockets the server accepted are those that are held; nobody shares.
Holds(w, c) == stream[w] = c /\ \A t \in Runners : pc[t] = "disengage" => hnd[t] # w

Owned ==
    \A c \in Conns :
        cst[c] = "accepted" <=> accConn = c \/ \E w \in Workers : Holds(w, c)

Apart ==
    \A v, w \in Workers :
        stream[w] # NoConn => stream[w] # accConn /\ (v # w => stream[v] # stream[w])

SInv == IInv /\ ChainKept /\ OpenSocketsOwned /\ BusyWorkerProgresses

\* Every step keeps the chain of accepts whole.
LEMMA ChainStep ==
    ASSUME SInv, [Next]_vars
    PROVE  ChainKept'
<1> USE BeastAssumption DEF Workers, Runners, Goto, InRun,
        vars, threadVars, acceptVars, workerVars, ioVars, clientVars
<1>0. /\ pc \in [Runners -> Labels]
      /\ OneAcceptHandler
      /\ SocketAtHand
      /\ ChainKept
  BY DEF SInv, IInv, TypeOK
<1> USE <1>0 DEF ChainKept, OneAcceptHandler, SocketAtHand, Accepting
<1>1. ASSUME Boot PROVE ChainKept'
  BY <1>1 DEF Boot
<1>2. ASSUME Accept PROVE ChainKept'
  BY <1>2 DEF Accept
<1>3. ASSUME Signal PROVE ChainKept'
  BY <1>3 DEF Signal
<1>4. ASSUME Terminated PROVE ChainKept'
  BY <1>4 DEF Terminated
<1>5. ASSUME NEW t \in Runners, RunPosted(t) PROVE ChainKept'
  BY <1>5 DEF RunPosted
<1>6. ASSUME NEW t \in Runners, RunAccept(t) PROVE ChainKept'
  BY <1>6 DEF RunAccept
<1>7. ASSUME NEW t \in Runners, RunSignal(t) PROVE ChainKept'
  BY <1>7 DEF RunSignal
<1>8. ASSUME NEW t \in Runners, async_accept(t) PROVE ChainKept'
  BY <1>8 DEF async_accept
<1>9. ASSUME NEW t \in Runners, start_work(t) PROVE ChainKept'
  BY <1>9 DEF start_work
<1>10. ASSUME NEW t \in Runners, StartWorkThrows(t) PROVE ChainKept'
  BY <1>10 DEF StartWorkThrows
<1>11. ASSUME NEW t \in Runners, next_worker(t) PROVE ChainKept'
  BY <1>11 DEF next_worker, Successor, is_idle
<1>12. ASSUME NEW t \in Runners, start(t) PROVE ChainKept'
  BY <1>12 DEF start
<1>13. ASSUME NEW t \in Runners, call_app(t) PROVE ChainKept'
  BY <1>13 DEF call_app
<1>14. ASSUME NEW t \in Runners, AppReturns(t) PROVE ChainKept'
  BY <1>14 DEF AppReturns
<1>15. ASSUME NEW t \in Runners, async_write_response(t) PROVE ChainKept'
  BY <1>15 DEF async_write_response
<1>16. ASSUME NEW t \in Runners, reset(t) PROVE ChainKept'
  BY <1>16 DEF reset
<1>17. ASSUME NEW t \in Runners, Disengage(t) PROVE ChainKept'
  BY <1>17 DEF Disengage
<1>18. ASSUME NEW t \in Runners, Destroy(t) PROVE ChainKept'
  BY <1>18 DEF Destroy
<1>19. ASSUME NEW t \in Runners, StopIo(t) PROVE ChainKept'
  BY <1>19 DEF StopIo
<1>20. ASSUME NEW t \in Runners, StopTest(t) PROVE ChainKept'
  BY <1>20 DEF StopTest, NextStop, is_idle
<1>21. ASSUME NEW t \in Runners, StopCancel(t) PROVE ChainKept'
  <2>1. /\ pc[t] = "stopcancel"
        /\ \E l \in {"run", "stoptest"} : pc' = [pc EXCEPT ![t] = l]
    BY <1>21 DEF StopCancel, NextStop
  <2>2. UNCHANGED <<acc, accConn>>
    BY <1>21 DEF StopCancel
  <2>3. QED
    BY <2>1, <2>2
<1>22. ASSUME NEW t \in Runners, Leave(t) PROVE ChainKept'
  BY <1>22 DEF Leave
<1>23. ASSUME NEW t \in Runners, NEW w \in Workers, RunRead(t, w)
      PROVE ChainKept'
  BY <1>23 DEF RunRead
<1>24. ASSUME NEW t \in Runners, NEW w \in Workers, RunWritten(t, w)
      PROVE ChainKept'
  BY <1>24 DEF RunWritten
<1>25. ASSUME NEW w \in Workers, ReadParse(w) PROVE ChainKept'
  BY <1>25 DEF ReadParse
<1>26. ASSUME NEW w \in Workers, ReadSome(w) PROVE ChainKept'
  BY <1>26 DEF ReadSome
<1>27. ASSUME NEW w \in Workers, ReadFails(w) PROVE ChainKept'
  BY <1>27 DEF ReadFails
<1>28. ASSUME NEW w \in Workers, WriteSucceeds(w) PROVE ChainKept'
  BY <1>28 DEF WriteSucceeds
<1>29. ASSUME NEW w \in Workers, WriteFails(w) PROVE ChainKept'
  BY <1>29 DEF WriteFails
<1>30. ASSUME NEW c \in Conns, Connect(c) PROVE ChainKept'
  BY <1>30 DEF Connect
<1>31. ASSUME NEW c \in Conns, NEW e \in Ends, Send(c, e) PROVE ChainKept'
  BY <1>31 DEF Send
<1>32. CASE UNCHANGED vars
  BY <1>32
<1>33. QED
  BY <1>1, <1>2, <1>3, <1>4, <1>5, <1>6, <1>7, <1>8, <1>9, <1>10, <1>11,
     <1>12, <1>13, <1>14, <1>15, <1>16, <1>17, <1>18, <1>19, <1>20,
     <1>21, <1>22, <1>23, <1>24, <1>25, <1>26, <1>27, <1>28, <1>29,
     <1>30, <1>31, <1>32
     DEF Next, Pick, Step, Stream, Client

\* A worker that is not idle waits for an operation or has a runner, after every
\* step: a handler gives its worker to the next operation or disengages it.
LEMMA BusyStep ==
    ASSUME SInv, [Next]_vars
    PROVE  BusyWorkerProgresses'
<1> USE BeastAssumption DEF Workers, Runners, Goto, InRun,
        vars, threadVars, acceptVars, workerVars, ioVars, clientVars
<1>0. /\ pc \in [Runners -> Labels]
      /\ hnd \in [Runners -> Workers \cup {NoWorker}]
      /\ stream \in [Workers -> Conns \cup {NoConn}]
      /\ op \in [Workers -> {"none", "reading", "read_ok", "read_err", "writing", "written"}]
      /\ worker \in Workers
      /\ accConn \in Conns \cup {NoConn}
      /\ HandlerOwnsStream
      /\ BusyWorkerProgresses
  BY DEF SInv, IInv, TypeOK
<1> USE <1>0 DEF BusyWorkerProgresses, HandlerOwnsStream, Serving
<1>1. ASSUME Boot PROVE BusyWorkerProgresses'
  BY <1>1 DEF Boot
<1>2. ASSUME Accept PROVE BusyWorkerProgresses'
  BY <1>2 DEF Accept
<1>3. ASSUME Signal PROVE BusyWorkerProgresses'
  BY <1>3 DEF Signal
<1>4. ASSUME Terminated PROVE BusyWorkerProgresses'
  BY <1>4 DEF Terminated
<1>5. ASSUME NEW t \in Runners, RunPosted(t) PROVE BusyWorkerProgresses'
  <2>1. \A u \in Runners : Serving(u) => Serving(u)' /\ hnd'[u] = hnd[u]
    BY <1>5 DEF RunPosted
  <2>2. UNCHANGED stream /\ \A w \in Workers : op'[w] = op[w]
    BY <1>5 DEF RunPosted
  <2> HIDE DEF Serving, Workers, Runners
  <2>3. QED
    BY <2>1, <2>2
<1>6. ASSUME NEW t \in Runners, RunAccept(t) PROVE BusyWorkerProgresses'
  <2>1. \A u \in Runners : Serving(u) => Serving(u)' /\ hnd'[u] = hnd[u]
    BY <1>6 DEF RunAccept
  <2>2. UNCHANGED stream /\ \A w \in Workers : op'[w] = op[w]
    BY <1>6 DEF RunAccept
  <2> HIDE DEF Serving, Workers, Runners
  <2>3. QED
    BY <2>1, <2>2
<1>7. ASSUME NEW t \in Runners, RunSignal(t) PROVE BusyWorkerProgresses'
  <2>1. \A u \in Runners : Serving(u) => Serving(u)' /\ hnd'[u] = hnd[u]
    BY <1>7 DEF RunSignal
  <2>2. UNCHANGED stream /\ \A w \in Workers : op'[w] = op[w]
    BY <1>7 DEF RunSignal
  <2> HIDE DEF Serving, Workers, Runners
  <2>3. QED
    BY <2>1, <2>2
<1>8. ASSUME NEW t \in Runners, async_accept(t) PROVE BusyWorkerProgresses'
  <2>1. \A u \in Runners : Serving(u) => Serving(u)' /\ hnd'[u] = hnd[u]
    BY <1>8 DEF async_accept
  <2>2. UNCHANGED stream /\ \A w \in Workers : op'[w] = op[w]
    BY <1>8 DEF async_accept
  <2> HIDE DEF Serving, Workers, Runners
  <2>3. QED
    BY <2>1, <2>2
<1>9. ASSUME NEW t \in Runners, start_work(t) PROVE BusyWorkerProgresses'
  <2>1. \A u \in Runners \ {t} : Serving(u) => Serving(u)' /\ hnd'[u] = hnd[u]
    BY <1>9 DEF start_work
  <2>2. Serving(t)' /\ hnd'[t] = worker /\ ~Serving(t)
    BY <1>9 DEF start_work
  <2>3. UNCHANGED op /\ \A v \in Workers : v # worker => stream'[v] = stream[v]
    BY <1>9 DEF start_work
  <2> HIDE DEF Serving, Workers, Runners
  <2>4. QED
    BY <2>1, <2>2, <2>3
<1>10. ASSUME NEW t \in Runners, StartWorkThrows(t)
      PROVE BusyWorkerProgresses'
  BY <1>10 DEF StartWorkThrows
<1>11. ASSUME NEW t \in Runners, next_worker(t) PROVE BusyWorkerProgresses'
  <2>1. \A u \in Runners : Serving(u) => Serving(u)' /\ hnd'[u] = hnd[u]
    BY <1>11 DEF next_worker, Successor, is_idle
  <2>2. UNCHANGED stream /\ \A w \in Workers : op'[w] = op[w]
    BY <1>11 DEF next_worker, Successor, is_idle
  <2> HIDE DEF Serving, Workers, Runners
  <2>3. QED
    BY <2>1, <2>2
<1>12. ASSUME NEW t \in Runners, start(t) PROVE BusyWorkerProgresses'
  BY <1>12 DEF start
<1>13. ASSUME NEW t \in Runners, call_app(t) PROVE BusyWorkerProgresses'
  BY <1>13 DEF call_app
<1>14. ASSUME NEW t \in Runners, AppReturns(t) PROVE BusyWorkerProgresses'
  BY <1>14 DEF AppReturns
<1>15. ASSUME NEW t \in Runners, async_write_response(t)
      PROVE BusyWorkerProgresses'
  BY <1>15 DEF async_write_response
<1>16. ASSUME NEW t \in Runners, reset(t) PROVE BusyWorkerProgresses'
  BY <1>16 DEF reset
<1>17. ASSUME NEW t \in Runners, Disengage(t) PROVE BusyWorkerProgresses'
  BY <1>17 DEF Disengage
<1>18. ASSUME NEW t \in Runners, Destroy(t) PROVE BusyWorkerProgresses'
  BY <1>18 DEF Destroy
<1>19. ASSUME NEW t \in Runners, StopIo(t) PROVE BusyWorkerProgresses'
  BY <1>19 DEF StopIo
<1>20. ASSUME NEW t \in Runners, StopTest(t) PROVE BusyWorkerProgresses'
  <2>1. \A u \in Runners : Serving(u) => Serving(u)' /\ hnd'[u] = hnd[u]
    BY <1>20 DEF StopTest, NextStop, is_idle
  <2>2. UNCHANGED stream /\ \A w \in Workers : op'[w] = op[w]
    BY <1>20 DEF StopTest, NextStop, is_idle
  <2> HIDE DEF Serving, Workers, Runners
  <2>3. QED
    BY <2>1, <2>2
<1>21. ASSUME NEW t \in Runners, StopCancel(t) PROVE BusyWorkerProgresses'
  <2>1. \A u \in Runners : Serving(u) => Serving(u)' /\ hnd'[u] = hnd[u]
    BY <1>21 DEF StopCancel, NextStop
  <2>2. UNCHANGED stream /\ \A w \in Workers : op[w] # "none" => op'[w] # "none"
    BY <1>21 DEF StopCancel
  <2> HIDE DEF Serving, Workers, Runners
  <2>3. QED
    BY <2>1, <2>2
<1>22. ASSUME NEW t \in Runners, Leave(t) PROVE BusyWorkerProgresses'
  <2>1. \A u \in Runners : Serving(u) => Serving(u)' /\ hnd'[u] = hnd[u]
    BY <1>22 DEF Leave
  <2>2. UNCHANGED stream /\ \A w \in Workers : op'[w] = op[w]
    BY <1>22 DEF Leave
  <2> HIDE DEF Serving, Workers, Runners
  <2>3. QED
    BY <2>1, <2>2
<1>23. ASSUME NEW t \in Runners, NEW w \in Workers, RunRead(t, w)
      PROVE BusyWorkerProgresses'
  <2>1. \A u \in Runners \ {t} : Serving(u) => Serving(u)' /\ hnd'[u] = hnd[u]
    BY <1>23 DEF RunRead
  <2>2. Serving(t)' /\ hnd'[t] = w /\ ~Serving(t)
    BY <1>23 DEF RunRead
  <2>3. UNCHANGED stream /\ \A v \in Workers : v # w => op'[v] = op[v]
    BY <1>23 DEF RunRead
  <2> HIDE DEF Serving, Workers, Runners
  <2>4. QED
    BY <2>1, <2>2, <2>3
<1>24. ASSUME NEW t \in Runners, NEW w \in Workers, RunWritten(t, w)
      PROVE BusyWorkerProgresses'
  <2>1. \A u \in Runners \ {t} : Serving(u) => Serving(u)' /\ hnd'[u] = hnd[u]
    BY <1>24 DEF RunWritten
  <2>2. Serving(t)' /\ hnd'[t] = w /\ ~Serving(t)
    BY <1>24 DEF RunWritten
  <2>3. UNCHANGED stream /\ \A v \in Workers : v # w => op'[v] = op[v]
    BY <1>24 DEF RunWritten
  <2> HIDE DEF Serving, Workers, Runners
  <2>4. QED
    BY <2>1, <2>2, <2>3
<1>25. ASSUME NEW w \in Workers, ReadParse(w) PROVE BusyWorkerProgresses'
  BY <1>25 DEF ReadParse
<1>26. ASSUME NEW w \in Workers, ReadSome(w) PROVE BusyWorkerProgresses'
  BY <1>26 DEF ReadSome
<1>27. ASSUME NEW w \in Workers, ReadFails(w) PROVE BusyWorkerProgresses'
  BY <1>27 DEF ReadFails
<1>28. ASSUME NEW w \in Workers, WriteSucceeds(w) PROVE BusyWorkerProgresses'
  BY <1>28 DEF WriteSucceeds
<1>29. ASSUME NEW w \in Workers, WriteFails(w) PROVE BusyWorkerProgresses'
  BY <1>29 DEF WriteFails
<1>30. ASSUME NEW c \in Conns, Connect(c) PROVE BusyWorkerProgresses'
  BY <1>30 DEF Connect
<1>31. ASSUME NEW c \in Conns, NEW e \in Ends, Send(c, e)
      PROVE BusyWorkerProgresses'
  BY <1>31 DEF Send
<1>32. CASE UNCHANGED vars
  BY <1>32
<1>33. QED
  BY <1>1, <1>2, <1>3, <1>4, <1>5, <1>6, <1>7, <1>8, <1>9, <1>10, <1>11,
     <1>12, <1>13, <1>14, <1>15, <1>16, <1>17, <1>18, <1>19, <1>20,
     <1>21, <1>22, <1>23, <1>24, <1>25, <1>26, <1>27, <1>28, <1>29,
     <1>30, <1>31, <1>32
     DEF Next, Pick, Step, Stream, Client

\* A socket passes from the accept handler to one idle worker and is closed
\* before that worker lets it go.
LEMMA OwnersStep ==
    ASSUME SInv, [Next]_vars
    PROVE  (Owned /\ Apart)'
<1> USE BeastAssumption DEF Workers, Runners, Goto, InRun,
        vars, threadVars, acceptVars, workerVars, ioVars, clientVars
<1>0. /\ pc \in [Runners -> Labels]
      /\ hnd \in [Runners -> Workers \cup {NoWorker}]
      /\ stream \in [Workers -> Conns \cup {NoConn}]
      /\ cst \in [Conns -> {"new", "backlog", "accepted", "closed"}]
      /\ accConn \in Conns \cup {NoConn}
      /\ worker \in Workers
      /\ OneAcceptHandler
      /\ SocketAtHand
      /\ ReservedWorkerIdle
      /\ HandlerOwnsStream
      /\ ClosedBeforeDestroyed
      /\ ChainKept
      /\ Owned /\ Apart
  BY DEF SInv, IInv, TypeOK, OpenSocketsOwned, Owned, Apart, Holds
<1> USE <1>0 DEF Owned, Apart
<1>1. ASSUME Boot PROVE (Owned /\ Apart)'
  <2>1. \A u \in Runners : /\ pc'[u] = "disengage" <=> pc[u] = "disengage"
                           /\ pc[u] = "disengage" => hnd'[u] = hnd[u]
    BY <1>1 DEF Boot
  <2>2. UNCHANGED <<stream, cst, accConn>>
    BY <1>1 DEF Boot
  <2>3. \A w \in Workers, c \in Conns : Holds(w, c)' <=> Holds(w, c)
    BY <2>1, <2>2 DEF Holds
  <2> HIDE DEF Workers
  <2>4. QED
    BY <2>2, <2>3
<1>2. ASSUME Accept PROVE (Owned /\ Apart)'
  <2>1. accConn = NoConn
    BY <1>2 DEF Accept, ChainKept, OneAcceptHandler, Accepting
  <2>2. \A w \in Workers : stream[w] # NoConn => cst[stream[w]] \in {"accepted", "closed"}
    <3> SUFFICES ASSUME NEW w \in Workers, stream[w] # NoConn
                 PROVE  cst[stream[w]] \in {"accepted", "closed"}
      OBVIOUS
    <3>1. CASE Holds(w, stream[w])
      BY <3>1
    <3>2. CASE ~Holds(w, stream[w])
      BY <3>2 DEF Holds, ClosedBeforeDestroyed
    <3>3. QED
      BY <3>1, <3>2
  <2>3. UNCHANGED stream /\ \A w \in Workers, c \in Conns : Holds(w, c)' <=> Holds(w, c)
    BY <1>2 DEF Accept, Holds
  <2>4. CASE UNCHANGED cst /\ accConn' = NoConn
    BY <2>1, <2>3, <2>4
  <2>5. ASSUME NEW c \in Conns, cst[c] = "backlog", accConn' = c,
               cst' = [cst EXCEPT ![c] = "accepted"]
        PROVE  (Owned /\ Apart)'
    <3>1. \A w \in Workers : stream[w] # c
      BY <2>2, <2>5
    <3>2. cst'[c] = "accepted" /\ \A d \in Conns : d # c => cst'[d] = cst[d]
      BY <2>5
    <3>3. QED
      BY <2>1, <2>3, <2>5, <3>1, <3>2
  <2>6. QED
    BY <1>2, <2>4, <2>5 DEF Accept
<1>3. ASSUME Signal PROVE (Owned /\ Apart)'
  <2>1. UNCHANGED <<stream, accConn>> /\ \A v \in Workers, d \in Conns : Holds(v, d)' <=> Holds(v, d)
    BY <1>3 DEF Signal, Holds
  <2>2. \A d \in Conns : cst'[d] = "accepted" <=> cst[d] = "accepted"
    BY <1>3 DEF Signal
  <2>3. QED
    BY <2>1, <2>2
<1>4. ASSUME Terminated PROVE (Owned /\ Apart)'
  <2>1. UNCHANGED <<stream, accConn>> /\ \A v \in Workers, d \in Conns : Holds(v, d)' <=> Holds(v, d)
    BY <1>4 DEF Terminated, Holds
  <2>2. \A d \in Conns : cst'[d] = "accepted" <=> cst[d] = "accepted"
    BY <1>4 DEF Terminated
  <2>3. QED
    BY <2>1, <2>2
<1>5. ASSUME NEW t \in Runners, RunPosted(t) PROVE (Owned /\ Apart)'
  <2>1. \A u \in Runners : /\ pc'[u] = "disengage" <=> pc[u] = "disengage"
                           /\ pc[u] = "disengage" => hnd'[u] = hnd[u]
    BY <1>5 DEF RunPosted
  <2>2. UNCHANGED <<stream, cst, accConn>>
    BY <1>5 DEF RunPosted
  <2>3. \A w \in Workers, c \in Conns : Holds(w, c)' <=> Holds(w, c)
    BY <2>1, <2>2 DEF Holds
  <2> HIDE DEF Workers
  <2>4. QED
    BY <2>2, <2>3
<1>6. ASSUME NEW t \in Runners, RunAccept(t) PROVE (Owned /\ Apart)'
  <2>1. \A u \in Runners : /\ pc'[u] = "disengage" <=> pc[u] = "disengage"
                           /\ pc[u] = "disengage" => hnd'[u] = hnd[u]
    BY <1>6 DEF RunAccept
  <2>2. UNCHANGED <<stream, cst, accConn>>
    BY <1>6 DEF RunAccept
  <2>3. \A w \in Workers, c \in Conns : Holds(w, c)' <=> Holds(w, c)
    BY <2>1, <2>2 DEF Holds
  <2> HIDE DEF Workers
  <2>4. QED
    BY <2>2, <2>3
<1>7. ASSUME NEW t \in Runners, RunSignal(t) PROVE (Owned /\ Apart)'
  <2>1. \A u \in Runners : /\ pc'[u] = "disengage" <=> pc[u] = "disengage"
                           /\ pc[u] = "disengage" => hnd'[u] = hnd[u]
    BY <1>7 DEF RunSignal
  <2>2. UNCHANGED <<stream, cst, accConn>>
    BY <1>7 DEF RunSignal
  <2>3. \A w \in Workers, c \in Conns : Holds(w, c)' <=> Holds(w, c)
    BY <2>1, <2>2 DEF Holds
  <2> HIDE DEF Workers
  <2>4. QED
    BY <2>2, <2>3
<1>8. ASSUME NEW t \in Runners, async_accept(t) PROVE (Owned /\ Apart)'
  <2>1. \A u \in Runners : /\ pc'[u] = "disengage" <=> pc[u] = "disengage"
                           /\ pc[u] = "disengage" => hnd'[u] = hnd[u]
    BY <1>8 DEF async_accept
  <2>2. UNCHANGED <<stream, cst, accConn>>
    BY <1>8 DEF async_accept
  <2>3. \A w \in Workers, c \in Conns : Holds(w, c)' <=> Holds(w, c)
    BY <2>1, <2>2 DEF Holds
  <2> HIDE DEF Workers
  <2>4. QED
    BY <2>2, <2>3
<1>9. ASSUME NEW t \in Runners, start_work(t) PROVE (Owned /\ Apart)'
  <2>1. accConn # NoConn /\ \A u \in Runners : pc[u] # "spin"
    BY <1>9 DEF start_work, OneAcceptHandler, Accepting, SocketAtHand
  <2>2. stream[worker] = NoConn /\ \A u \in Runners : pc[u] = "disengage" => hnd[u] # worker
    BY <2>1 DEF ReservedWorkerIdle, is_idle, HandlerOwnsStream, Serving
  <2>3. \A u \in Runners : /\ pc'[u] = "disengage" <=> pc[u] = "disengage"
                           /\ pc[u] = "disengage" => hnd'[u] = hnd[u]
    BY <1>9 DEF start_work
  <2>4. stream' = [stream EXCEPT ![worker] = accConn] /\ accConn' = NoConn /\ UNCHANGED cst
    BY <1>9 DEF start_work
  <2>5. \A w \in Workers, c \in Conns :
          Holds(w, c)' <=> IF w = worker THEN c = accConn ELSE Holds(w, c)
    <3> SUFFICES ASSUME NEW w \in Workers, NEW c \in Conns
                 PROVE  Holds(w, c)' <=> IF w = worker THEN c = accConn ELSE Holds(w, c)
      OBVIOUS
    <3>1. stream'[w] = IF w = worker THEN accConn ELSE stream[w]
      BY <2>4
    <3>2. (\A u \in Runners : pc'[u] = "disengage" => hnd'[u] # w)
            <=> \A u \in Runners : pc[u] = "disengage" => hnd[u] # w
      BY <2>3
    <3>3. CASE w = worker
      BY <2>2, <3>1, <3>2, <3>3 DEF Holds
    <3>4. CASE w # worker
      BY <3>1, <3>2, <3>4 DEF Holds
    <3>5. QED
      BY <3>3, <3>4
  <2>6. \A c \in Conns : ~Holds(worker, c)
    BY <2>2 DEF Holds
  <2>7. Owned'
    BY <2>4, <2>5, <2>6
  <2>8. Apart'
    BY <2>1, <2>4
  <2>9. QED
    BY <2>7, <2>8
<1>10. ASSUME NEW t \in Runners, StartWorkThrows(t) PROVE (Owned /\ Apart)'
  <2>1. /\ accConn \in Conns /\ accConn' = NoConn /\ UNCHANGED stream
        /\ cst' = [cst EXCEPT ![accConn] = "closed"]
    BY <1>10 DEF StartWorkThrows, SocketAtHand
  <2>2. \A w \in Workers, c \in Conns : Holds(w, c)' <=> Holds(w, c)
    BY <1>10 DEF StartWorkThrows, Holds
  <2>3. \A w \in Workers : ~Holds(w, accConn)
    BY <2>1 DEF Holds
  <2>4. \A c \in Conns : cst'[c] = IF c = accConn THEN "closed" ELSE cst[c]
    BY <2>1
  <2>5. QED
    BY <2>1, <2>2, <2>3, <2>4
<1>11. ASSUME NEW t \in Runners, next_worker(t) PROVE (Owned /\ Apart)'
  <2>1. \A u \in Runners : /\ pc'[u] = "disengage" <=> pc[u] = "disengage"
                           /\ pc[u] = "disengage" => hnd'[u] = hnd[u]
    BY <1>11 DEF next_worker, Successor, is_idle
  <2>2. UNCHANGED <<stream, cst, accConn>>
    BY <1>11 DEF next_worker, Successor, is_idle
  <2>3. \A w \in Workers, c \in Conns : Holds(w, c)' <=> Holds(w, c)
    BY <2>1, <2>2 DEF Holds
  <2> HIDE DEF Workers
  <2>4. QED
    BY <2>2, <2>3
<1>12. ASSUME NEW t \in Runners, start(t) PROVE (Owned /\ Apart)'
  <2>1. \A u \in Runners : /\ pc'[u] = "disengage" <=> pc[u] = "disengage"
                           /\ pc[u] = "disengage" => hnd'[u] = hnd[u]
    BY <1>12 DEF start
  <2>2. UNCHANGED <<stream, cst, accConn>>
    BY <1>12 DEF start
  <2>3. \A w \in Workers, c \in Conns : Holds(w, c)' <=> Holds(w, c)
    BY <2>1, <2>2 DEF Holds
  <2> HIDE DEF Workers
  <2>4. QED
    BY <2>2, <2>3
<1>13. ASSUME NEW t \in Runners, call_app(t) PROVE (Owned /\ Apart)'
  <2>1. \A u \in Runners : /\ pc'[u] = "disengage" <=> pc[u] = "disengage"
                           /\ pc[u] = "disengage" => hnd'[u] = hnd[u]
    BY <1>13 DEF call_app
  <2>2. UNCHANGED <<stream, cst, accConn>>
    BY <1>13 DEF call_app
  <2>3. \A w \in Workers, c \in Conns : Holds(w, c)' <=> Holds(w, c)
    BY <2>1, <2>2 DEF Holds
  <2> HIDE DEF Workers
  <2>4. QED
    BY <2>2, <2>3
<1>14. ASSUME NEW t \in Runners, AppReturns(t) PROVE (Owned /\ Apart)'
  <2>1. \A u \in Runners : /\ pc'[u] = "disengage" <=> pc[u] = "disengage"
                           /\ pc[u] = "disengage" => hnd'[u] = hnd[u]
    BY <1>14 DEF AppReturns
  <2>2. UNCHANGED <<stream, cst, accConn>>
    BY <1>14 DEF AppReturns
  <2>3. \A w \in Workers, c \in Conns : Holds(w, c)' <=> Holds(w, c)
    BY <2>1, <2>2 DEF Holds
  <2> HIDE DEF Workers
  <2>4. QED
    BY <2>2, <2>3
<1>15. ASSUME NEW t \in Runners, async_write_response(t)
      PROVE (Owned /\ Apart)'
  <2>1. \A u \in Runners : /\ pc'[u] = "disengage" <=> pc[u] = "disengage"
                           /\ pc[u] = "disengage" => hnd'[u] = hnd[u]
    BY <1>15 DEF async_write_response
  <2>2. UNCHANGED <<stream, cst, accConn>>
    BY <1>15 DEF async_write_response
  <2>3. \A w \in Workers, c \in Conns : Holds(w, c)' <=> Holds(w, c)
    BY <2>1, <2>2 DEF Holds
  <2> HIDE DEF Workers
  <2>4. QED
    BY <2>2, <2>3
<1>16. ASSUME NEW t \in Runners, reset(t) PROVE (Owned /\ Apart)'
  <2> DEFINE v == hnd[t]
             d == stream[v]
  <2>1. v \in Workers /\ d \in Conns /\ d # accConn
    BY <1>16 DEF reset, HandlerOwnsStream, Serving
  <2>2. /\ cst' = [cst EXCEPT ![d] = "closed"] /\ pc' = [pc EXCEPT ![t] = "disengage"]
        /\ UNCHANGED <<hnd, stream, accConn>>
    BY <1>16 DEF reset
  <2>3. \A w \in Workers, c \in Conns : Holds(w, c)' <=> w # v /\ Holds(w, c)
    BY <2>2 DEF Holds
  <2>4. \A w \in Workers, c \in Conns : Holds(w, c) /\ c = d => w = v
    BY <2>1 DEF Holds
  <2>5. \A c \in Conns : Holds(v, c) => c = d
    BY DEF Holds
  <2> HIDE DEF v, d
  <2>6. \A c \in Conns : cst'[c] = IF c = d THEN "closed" ELSE cst[c]
    BY <2>2
  <2>7. Owned'
    BY <2>1, <2>2, <2>3, <2>4, <2>5, <2>6
  <2>8. QED
    BY <2>2, <2>7
<1>17. ASSUME NEW t \in Runners, Disengage(t) PROVE (Owned /\ Apart)'
  <2> DEFINE v == hnd[t]
  <2>1. v \in Workers /\ \A u \in Runners : pc[u] = "disengage" /\ u # t => hnd[u] # v
    BY <1>17 DEF Disengage, HandlerOwnsStream, Serving
  <2>2. /\ stream' = [stream EXCEPT ![v] = NoConn] /\ pc' = [pc EXCEPT ![t] = "destroy"]
        /\ pc[t] = "disengage" /\ UNCHANGED <<hnd, cst, accConn>>
    BY <1>17 DEF Disengage
  <2>3. \A w \in Workers, c \in Conns : Holds(w, c)' <=> Holds(w, c)
    BY <2>1, <2>2 DEF Holds
  <2> HIDE DEF v
  <2>4. \A w \in Workers : stream'[w] = IF w = v THEN NoConn ELSE stream[w]
    BY <2>2
  <2>5. QED
    BY <2>2, <2>3, <2>4
<1>18. ASSUME NEW t \in Runners, Destroy(t) PROVE (Owned /\ Apart)'
  <2>1. \A u \in Runners : /\ pc'[u] = "disengage" <=> pc[u] = "disengage"
                           /\ pc[u] = "disengage" => hnd'[u] = hnd[u]
    BY <1>18 DEF Destroy
  <2>2. UNCHANGED <<stream, cst, accConn>>
    BY <1>18 DEF Destroy
  <2>3. \A w \in Workers, c \in Conns : Holds(w, c)' <=> Holds(w, c)
    BY <2>1, <2>2 DEF Holds
  <2> HIDE DEF Workers
  <2>4. QED
    BY <2>2, <2>3
<1>19. ASSUME NEW t \in Runners, StopIo(t) PROVE (Owned /\ Apart)'
  <2>1. \A u \in Runners : /\ pc'[u] = "disengage" <=> pc[u] = "disengage"
                           /\ pc[u] = "disengage" => hnd'[u] = hnd[u]
    BY <1>19 DEF StopIo
  <2>2. UNCHANGED <<stream, cst, accConn>>
    BY <1>19 DEF StopIo
  <2>3. \A w \in Workers, c \in Conns : Holds(w, c)' <=> Holds(w, c)
    BY <2>1, <2>2 DEF Holds
  <2> HIDE DEF Workers
  <2>4. QED
    BY <2>2, <2>3
<1>20. ASSUME NEW t \in Runners, StopTest(t) PROVE (Owned /\ Apart)'
  <2>1. \A u \in Runners : /\ pc'[u] = "disengage" <=> pc[u] = "disengage"
                           /\ pc[u] = "disengage" => hnd'[u] = hnd[u]
    BY <1>20 DEF StopTest, NextStop, is_idle
  <2>2. UNCHANGED <<stream, cst, accConn>>
    BY <1>20 DEF StopTest, NextStop, is_idle
  <2>3. \A w \in Workers, c \in Conns : Holds(w, c)' <=> Holds(w, c)
    BY <2>1, <2>2 DEF Holds
  <2> HIDE DEF Workers
  <2>4. QED
    BY <2>2, <2>3
<1>21. ASSUME NEW t \in Runners, StopCancel(t) PROVE (Owned /\ Apart)'
  <2>1. \A u \in Runners : /\ pc'[u] = "disengage" <=> pc[u] = "disengage"
                           /\ pc[u] = "disengage" => hnd'[u] = hnd[u]
    BY <1>21 DEF StopCancel, NextStop
  <2>2. UNCHANGED <<stream, cst, accConn>>
    BY <1>21 DEF StopCancel, NextStop
  <2>3. \A w \in Workers, c \in Conns : Holds(w, c)' <=> Holds(w, c)
    BY <2>1, <2>2 DEF Holds
  <2> HIDE DEF Workers
  <2>4. QED
    BY <2>2, <2>3
<1>22. ASSUME NEW t \in Runners, Leave(t) PROVE (Owned /\ Apart)'
  <2>1. \A u \in Runners : /\ pc'[u] = "disengage" <=> pc[u] = "disengage"
                           /\ pc[u] = "disengage" => hnd'[u] = hnd[u]
    BY <1>22 DEF Leave
  <2>2. UNCHANGED <<stream, cst, accConn>>
    BY <1>22 DEF Leave
  <2>3. \A w \in Workers, c \in Conns : Holds(w, c)' <=> Holds(w, c)
    BY <2>1, <2>2 DEF Holds
  <2> HIDE DEF Workers
  <2>4. QED
    BY <2>2, <2>3
<1>23. ASSUME NEW t \in Runners, NEW w \in Workers, RunRead(t, w)
      PROVE (Owned /\ Apart)'
  <2>1. \A u \in Runners : /\ pc'[u] = "disengage" <=> pc[u] = "disengage"
                           /\ pc[u] = "disengage" => hnd'[u] = hnd[u]
    BY <1>23 DEF RunRead
  <2>2. UNCHANGED <<stream, cst, accConn>>
    BY <1>23 DEF RunRead
  <2>3. \A v \in Workers, c \in Conns : Holds(v, c)' <=> Holds(v, c)
    BY <2>1, <2>2 DEF Holds
  <2> HIDE DEF Workers
  <2>4. QED
    BY <2>2, <2>3
<1>24. ASSUME NEW t \in Runners, NEW w \in Workers, RunWritten(t, w)
      PROVE (Owned /\ Apart)'
  <2>1. \A u \in Runners : /\ pc'[u] = "disengage" <=> pc[u] = "disengage"
                           /\ pc[u] = "disengage" => hnd'[u] = hnd[u]
    BY <1>24 DEF RunWritten
  <2>2. UNCHANGED <<stream, cst, accConn>>
    BY <1>24 DEF RunWritten
  <2>3. \A v \in Workers, c \in Conns : Holds(v, c)' <=> Holds(v, c)
    BY <2>1, <2>2 DEF Holds
  <2> HIDE DEF Workers
  <2>4. QED
    BY <2>2, <2>3
<1>25. ASSUME NEW w \in Workers, ReadParse(w) PROVE (Owned /\ Apart)'
  <2>1. UNCHANGED <<stream, accConn>> /\ \A v \in Workers, d \in Conns : Holds(v, d)' <=> Holds(v, d)
    BY <1>25 DEF ReadParse, Holds
  <2>2. \A d \in Conns : cst'[d] = "accepted" <=> cst[d] = "accepted"
    BY <1>25 DEF ReadParse
  <2>3. QED
    BY <2>1, <2>2
<1>26. ASSUME NEW w \in Workers, ReadSome(w) PROVE (Owned /\ Apart)'
  <2>1. UNCHANGED <<stream, accConn>> /\ \A v \in Workers, d \in Conns : Holds(v, d)' <=> Holds(v, d)
    BY <1>26 DEF ReadSome, Holds
  <2>2. \A d \in Conns : cst'[d] = "accepted" <=> cst[d] = "accepted"
    BY <1>26 DEF ReadSome
  <2>3. QED
    BY <2>1, <2>2
<1>27. ASSUME NEW w \in Workers, ReadFails(w) PROVE (Owned /\ Apart)'
  <2>1. UNCHANGED <<stream, accConn>> /\ \A v \in Workers, d \in Conns : Holds(v, d)' <=> Holds(v, d)
    BY <1>27 DEF ReadFails, Holds
  <2>2. \A d \in Conns : cst'[d] = "accepted" <=> cst[d] = "accepted"
    BY <1>27 DEF ReadFails
  <2>3. QED
    BY <2>1, <2>2
<1>28. ASSUME NEW w \in Workers, WriteSucceeds(w) PROVE (Owned /\ Apart)'
  <2>1. UNCHANGED <<stream, accConn>> /\ \A v \in Workers, d \in Conns : Holds(v, d)' <=> Holds(v, d)
    BY <1>28 DEF WriteSucceeds, Holds
  <2>2. \A d \in Conns : cst'[d] = "accepted" <=> cst[d] = "accepted"
    BY <1>28 DEF WriteSucceeds
  <2>3. QED
    BY <2>1, <2>2
<1>29. ASSUME NEW w \in Workers, WriteFails(w) PROVE (Owned /\ Apart)'
  <2>1. UNCHANGED <<stream, accConn>> /\ \A v \in Workers, d \in Conns : Holds(v, d)' <=> Holds(v, d)
    BY <1>29 DEF WriteFails, Holds
  <2>2. \A d \in Conns : cst'[d] = "accepted" <=> cst[d] = "accepted"
    BY <1>29 DEF WriteFails
  <2>3. QED
    BY <2>1, <2>2
<1>30. ASSUME NEW c \in Conns, Connect(c) PROVE (Owned /\ Apart)'
  <2>1. UNCHANGED <<stream, accConn>> /\ \A v \in Workers, d \in Conns : Holds(v, d)' <=> Holds(v, d)
    BY <1>30 DEF Connect, Holds
  <2>2. \A d \in Conns : cst'[d] = "accepted" <=> cst[d] = "accepted"
    BY <1>30 DEF Connect
  <2>3. QED
    BY <2>1, <2>2
<1>31. ASSUME NEW c \in Conns, NEW e \in Ends, Send(c, e)
      PROVE (Owned /\ Apart)'
  <2>1. UNCHANGED <<stream, accConn>> /\ \A v \in Workers, d \in Conns : Holds(v, d)' <=> Holds(v, d)
    BY <1>31 DEF Send, Holds
  <2>2. \A d \in Conns : cst'[d] = "accepted" <=> cst[d] = "accepted"
    BY <1>31 DEF Send
  <2>3. QED
    BY <2>1, <2>2
<1>32. CASE UNCHANGED vars
  BY <1>32 DEF Holds
<1>33. QED
  BY <1>1, <1>2, <1>3, <1>4, <1>5, <1>6, <1>7, <1>8, <1>9, <1>10, <1>11,
     <1>12, <1>13, <1>14, <1>15, <1>16, <1>17, <1>18, <1>19, <1>20,
     <1>21, <1>22, <1>23, <1>24, <1>25, <1>26, <1>27, <1>28, <1>29,
     <1>30, <1>31, <1>32
     DEF Next, Pick, Step, Stream, Client

\* Every reachable state has the invariants of the sockets: the runners, the
\* accept chain and the workers agree on who holds what.
THEOREM SocketsInductive == Spec => []SInv
<1>1. Init => ChainKept /\ OpenSocketsOwned /\ BusyWorkerProgresses
  BY BeastAssumption DEF Init, ChainKept, OpenSocketsOwned, BusyWorkerProgresses, Workers
<1>2. OpenSocketsOwned <=> Owned /\ Apart
  BY DEF OpenSocketsOwned, Owned, Apart, Holds
<1>3. SInv /\ [Next]_vars => (ChainKept /\ OpenSocketsOwned /\ BusyWorkerProgresses)'
  <2> SUFFICES ASSUME SInv, [Next]_vars
               PROVE  (ChainKept /\ OpenSocketsOwned /\ BusyWorkerProgresses)'
    OBVIOUS
  <2>1. (Owned /\ Apart)'
    BY OwnersStep
  <2>2. OpenSocketsOwned'
    BY <2>1 DEF OpenSocketsOwned, Owned, Apart, Holds
  <2>3. QED
    BY <2>2, ChainStep, BusyStep
<1>4. Spec => []IInv
  BY Inductive
<1>5. QED
  BY <1>1, <1>3, <1>4, PTL DEF Spec, SInv

\* No socket is lost and none is shared: what async_accept took is closed, or
\* the accept handler or exactly one http_worker holds it.
THEOREM AcceptedSocketsOwned == Spec => []OpenSocketsOwned
<1>1. SInv => OpenSocketsOwned
  BY DEF SInv
<1>2. QED
  BY <1>1, SocketsInductive, PTL

\* No worker is lost: reset() follows every end of a request, so a worker that
\* is not idle waits for an operation or some runner is at work for it.
THEOREM NoWorkerIsLost == Spec => []BusyWorkerProgresses
<1>1. SInv => BusyWorkerProgresses
  BY DEF SInv
<1>2. QED
  BY <1>1, SocketsInductive, PTL

\* async_accept is re-armed by one handler at a time and, unless start_work
\* throws, by every handler: the chain neither forks nor breaks.
THEOREM AcceptChainHolds == Spec => []AcceptChain
<1>1. SInv => AcceptChain
  <2> SUFFICES ASSUME SInv PROVE AcceptChain
    OBVIOUS
  <2> DEFINE A == {t \in Runners : pc[t] \in {"accept", "spin", "start", "rearm"}}
  <2>0. ChainKept /\ OneAcceptHandler
    BY DEF SInv, IInv
  <2>1. ASSUME acc = "handler" PROVE Cardinality(A) = 1
    <3>1. PICK t \in Runners : Accepting(t)
      BY <2>0, <2>1 DEF ChainKept
    <3>2. A = {t}
      BY <2>0, <3>1 DEF OneAcceptHandler, Accepting
    <3> HIDE DEF A
    <3>3. Cardinality(A) = 1
      BY <3>2, FS_Singleton
    <3>4. QED
      BY <3>3
  <2>2. ASSUME acc # "handler" PROVE Cardinality(A) = 0
    <3>1. A = {}
      BY <2>0, <2>2 DEF OneAcceptHandler, Accepting
    <3> HIDE DEF A
    <3>2. Cardinality(A) = 0
      BY <3>1, FS_EmptySet
    <3>3. QED
      BY <3>2
  <2>3. Cardinality(A) = IF acc = "handler" THEN 1 ELSE 0
    <3> HIDE DEF A
    <3>1. QED
      BY <2>1, <2>2
  <2>4. acc = "off" /\ ~MayThrow => \A t \in Runners : pc[t] \in {"boot", "out"}
    BY <2>0 DEF ChainKept
  <2>5. QED
    BY <2>3, <2>4 DEF AcceptChain
<1>2. QED
  BY <1>1, SocketsInductive, PTL
=============================================================================
