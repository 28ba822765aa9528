------------------------ MODULE BeastAnswersProofs ------------------------
(***************************************************************************)
(* Theorems about BeastServer's answers, for any number of connections,    *)
(* workers and runners and any clients: a connection is answered once, and *)
(* an answer that holds another connection's bytes holds leftovers only.   *)
(***************************************************************************)
EXTENDS BeastServerProofs

\* Worker w may still answer its connection.
Answering(w) ==
    \/ op[w] \in {"reading", "read_ok", "writing"}
    \/ \E t \in Runners : /\ hnd[t] = w
                          /\ pc[t] \in {"spin", "start", "call", "app", "write"}

\* While a connection may still be answered, it has no answer yet.
Unanswered ==
    /\ \A c \in Conns : cst[c] \in {"new", "backlog"} \/ accConn = c => answers[c] = <<>>
    /\ \A w \in Workers : stream[w] # NoConn /\ Answering(w) => answers[stream[w]] = <<>>

\* What worker w has read and not answered: the request being parsed, then the
\* bytes that follow it.
All(w) == parser[w] \o buf[w]

\* A socket has been handed to a worker.
Taken(d) == cst[d] \in {"accepted", "closed"} /\ d # accConn

\* thread_workers.stop() runs after io.stop().
StopsLast == \A t \in Runners : pc[t] \in {"stoptest", "stopcancel"} => stopped

\* A connection begins with a fresh parser, and a parser that holds a whole
\* request is not fed.
ParserFresh ==
    /\ \A w \in Workers : stream[w] = NoConn => parser[w] = <<>>
    /\ \A t \in Runners : pc[t] \in {"spin", "start", "disengage"} => parser[hnd[t]] = <<>>
    /\ \A w \in Workers : op[w] = "reading" => ~Complete(parser[w])

\* What has arrived on a connection was sent on it.
InboxOwn ==
    \A c \in Conns :
        /\ Len(inbox[c]) <= nsent[c]
        /\ \A i \in 1 .. Len(inbox[c]) : inbox[c][i].from = c

\* A parser that holds something has consumed a piece of its connection.
ParserFed ==
    \A w \in Workers : op[w] = "reading" /\ parser[w] # <<>> =>
        Len(inbox[stream[w]]) < nsent[stream[w]]

\* What a worker holds came from connections it was given, ...
Origin ==
    \A w \in Workers : \A i \in 1 .. Len(All(w)) :
        /\ Taken(All(w)[i].from)
        /\ \A v \in Workers \ {w} : stream[v] # All(w)[i].from

\* ... those of earlier connections before those of the present one.
ForeignFirst ==
    \A w \in Workers : \A i, j \in 1 .. Len(All(w)) :
        i <= j /\ All(w)[i].from = stream[w] => All(w)[j].from = stream[w]

\* Worker w reads, or was reading when the server stopped.
Waiting(w) == op[w] = "reading" \/ (stopped /\ op[w] = "read_err")

\* The end of a request stays in a buffer only behind a piece that does not end
\* one, or if its client sent more, or until the read under way takes it.
Leftovers ==
    \A w \in Workers : \A i \in 1 .. Len(buf[w]) : buf[w][i].ends =>
        \/ nsent[buf[w][i].from] > 1
        \/ i > 1 /\ ~buf[w][i - 1].ends
        \/ i = 1 /\ buf[w][1].from = stream[w] /\ Waiting(w) /\ parser[w] = <<>>

\* What a step does to the pieces: nothing, or one of seven actions.
Quiet == UNCHANGED <<stream, buf, parser, inbox, nsent>>

Moves ==
    \/ Quiet
    \/ \E t \in Runners : start_work(t) \/ reset(t) \/ Disengage(t)
    \/ \E w \in Workers : ReadParse(w) \/ ReadSome(w)
    \/ \E c \in Conns, e \in Ends : Send(c, e)

\* How worker w comes to read and ceases to.
Waits(w) ==
    /\ op'[w] = "reading" => op[w] = "reading" \/ parser[w] = <<>>
    /\ Waiting(w) => Waiting(w)' \/ ReadParse(w) \/ (ReadFails(w) /\ ~stopped)

\* ForeignBytesAreLeftovers of one request on connection c.
ForeignStart(a, c) ==
    (\E k \in 1 .. Len(a) : a[k].from # c) =>
        a[1].from # c /\ (~a[1].ends \/ nsent[a[1].from] > 1)

ParserStart == \A w \in Workers : ForeignStart(parser[w], stream[w])

AnsweredInv == SInv /\ Unanswered /\ AtMostOneAnswer

PiecesInv == /\ StopsLast /\ ParserFresh
             /\ InboxOwn /\ ParserFed
             /\ Origin /\ ForeignFirst
             /\ Leftovers /\ ParserStart

\* A worker's connection is accepted or closed, and not in the accept handler.
LEMMA StreamsTaken ==
    ASSUME SInv, NEW w \in Workers, stream[w] # NoConn
    PROVE  stream[w] \in Conns /\ Taken(stream[w])
<1>1. stream[w] \in Conns
  BY DEF SInv, IInv, TypeOK
<1>2. stream[w] # accConn
  BY DEF SInv, OpenSocketsOwned
<1>3. CASE \A t \in Runners : pc[t] = "disengage" => hnd[t] # w
  BY <1>1, <1>2, <1>3 DEF SInv, OpenSocketsOwned, Taken
<1>4. CASE \E t \in Runners : pc[t] = "disengage" /\ hnd[t] = w
  BY <1>1, <1>2, <1>4 DEF SInv, IInv, ClosedBeforeDestroyed, Taken
<1>5. QED
  BY <1>1, <1>3, <1>4

\* Only a write that succeeds answers, and its worker answers no more.
LEMMA AnswerStep ==
    ASSUME AnsweredInv, [Next]_vars
    PROVE  (Unanswered /\ AtMostOneAnswer)'
<1>s. SInv
  BY DEF AnsweredInv
<1> USE <1>s, BeastAssumption DEF Workers, Runners, Goto, InRun,
        vars, threadVars, acceptVars, workerVars, ioVars, clientVars
<1>0. /\ pc \in [Runners -> Labels]
      /\ hnd \in [Runners -> Workers \cup {NoWorker}]
      /\ stream \in [Workers -> Conns \cup {NoConn}]
      /\ op \in [Workers -> {"none", "reading", "read_ok", "read_err",
                           "writing", "written"}]
      /\ cst \in [Conns -> {"new", "backlog", "accepted", "closed"}]
      /\ answers \in [Conns -> Seq(Seq(Piece))]
      /\ worker \in Workers
      /\ accConn \in Conns \cup {NoConn}
      /\ HandlerOwnsStream
      /\ SocketAtHand
      /\ ReservedWorkerIdle
      /\ Unanswered
      /\ AtMostOneAnswer
  BY DEF AnsweredInv, SInv, IInv, TypeOK
<1> USE <1>0 DEF Unanswered, AtMostOneAnswer
<1>1. ASSUME Boot PROVE (Unanswered /\ AtMostOneAnswer)'
  <2>1. UNCHANGED <<stream, answers, cst, accConn>>
    BY <1>1 DEF Boot
  <2>2. \A v \in Workers : Answering(v)' => Answering(v)
    BY <1>1 DEF Boot, Answering
  <2> HIDE DEF Workers, Runners
  <2>3. QED
    BY <2>1, <2>2
<1>2. ASSUME Accept PROVE (Unanswered /\ AtMostOneAnswer)'
  <2>1. UNCHANGED <<stream, answers, pc, hnd, op>>
    BY <1>2 DEF Accept
  <2>2. \A v \in Workers : Answering(v)' <=> Answering(v)
    BY <2>1 DEF Answering
  <2>3. \A c \in Conns : cst'[c] \in {"new", "backlog"} \/ accConn' = c =>
          cst[c] \in {"new", "backlog"}
    BY <1>2 DEF Accept
  <2> HIDE DEF Workers, Runners
  <2>4. QED
    BY <2>1, <2>2, <2>3
<1>3. ASSUME Signal PROVE (Unanswered /\ AtMostOneAnswer)'
  <2>1. UNCHANGED <<stream, answers, cst, accConn>>
    BY <1>3 DEF Signal
  <2>2. \A v \in Workers : Answering(v)' => Answering(v)
    BY <1>3 DEF Signal, Answering
  <2> HIDE DEF Workers, Runners
  <2>3. QED
    BY <2>1, <2>2
<1>4. ASSUME Terminated PROVE (Unanswered /\ AtMostOneAnswer)'
  <2>1. UNCHANGED <<stream, answers, cst, accConn>>
    BY <1>4 DEF Terminated
  <2>2. \A v \in Workers : Answering(v)' => Answering(v)
    BY <1>4 DEF Terminated, Answering
  <2> HIDE DEF Workers, Runners
  <2>3. QED
    BY <2>1, <2>2
<1>5. ASSUME NEW t \in Runners, RunPosted(t)
      PROVE (Unanswered /\ AtMostOneAnswer)'
  <2>1. UNCHANGED <<stream, answers, cst, accConn>>
    BY <1>5 DEF RunPosted
  <2>2. \A v \in Workers : Answering(v)' => Answering(v)
    BY <1>5 DEF RunPosted, Answering
  <2> HIDE DEF Workers, Runners
  <2>3. QED
    BY <2>1, <2>2
<1>6. ASSUME NEW t \in Runners, RunAccept(t)
      PROVE (Unanswered /\ AtMostOneAnswer)'
  <2>1. UNCHANGED <<stream, answers, cst, accConn>>
    BY <1>6 DEF RunAccept
  <2>2. \A v \in Workers : Answering(v)' => Answering(v)
    BY <1>6 DEF RunAccept, Answering
  <2> HIDE DEF Workers, Runners
  <2>3. QED
    BY <2>1, <2>2
<1>7. ASSUME NEW t \in Runners, RunSignal(t)
      PROVE (Unanswered /\ AtMostOneAnswer)'
  <2>1. UNCHANGED <<stream, answers, cst, accConn>>
    BY <1>7 DEF RunSignal
  <2>2. \A v \in Workers : Answering(v)' => Answering(v)
    BY <1>7 DEF RunSignal, Answering
  <2> HIDE DEF Workers, Runners
  <2>3. QED
    BY <2>1, <2>2
<1>8. ASSUME NEW t \in Runners, async_accept(t)
      PROVE (Unanswered /\ AtMostOneAnswer)'
  <2>1. UNCHANGED <<stream, answers, cst, accConn>>
    BY <1>8 DEF async_accept
  <2>2. \A v \in Workers : Answering(v)' => Answering(v)
    BY <1>8 DEF async_accept, Answering
  <2> HIDE DEF Workers, Runners
  <2>3. QED
    BY <2>1, <2>2
<1>9. ASSUME NEW t \in Runners, start_work(t)
      PROVE (Unanswered /\ AtMostOneAnswer)'
  <2>1. /\ accConn \in Conns /\ accConn' = NoConn /\ UNCHANGED <<answers, cst>>
        /\ stream' = [stream EXCEPT ![worker] = accConn]
    BY <1>9 DEF start_work, SocketAtHand
  <2>2. \A v \in Workers : v # worker /\ Answering(v)' => Answering(v)
    BY <1>9 DEF start_work, Answering
  <2> HIDE DEF Workers, Runners
  <2>3. QED
    BY <2>1, <2>2
<1>10. ASSUME NEW t \in Runners, StartWorkThrows(t)
      PROVE (Unanswered /\ AtMostOneAnswer)'
  <2>1. /\ UNCHANGED <<stream, answers>> /\ accConn' = NoConn
        /\ cst' = [cst EXCEPT ![accConn] = "closed"]
    BY <1>10 DEF StartWorkThrows
  <2>2. \A v \in Workers : Answering(v)' => Answering(v)
    BY <1>10 DEF StartWorkThrows, Answering
  <2> HIDE DEF Workers, Runners
  <2>3. QED
    BY <2>1, <2>2
<1>11. ASSUME NEW t \in Runners, next_worker(t)
      PROVE (Unanswered /\ AtMostOneAnswer)'
  <2>1. UNCHANGED <<stream, answers, cst, accConn>>
    BY <1>11 DEF next_worker, Successor, is_idle
  <2>2. \A v \in Workers : Answering(v)' => Answering(v)
    BY <1>11 DEF next_worker, Successor, is_idle, Answering
  <2> HIDE DEF Workers, Runners
  <2>3. QED
    BY <2>1, <2>2
<1>12. ASSUME NEW t \in Runners, start(t)
      PROVE (Unanswered /\ AtMostOneAnswer)'
  <2>1. UNCHANGED <<stream, answers, cst, accConn>>
    BY <1>12 DEF start
  <2>2. \A v \in Workers : Answering(v)' => Answering(v)
    BY <1>12 DEF start, Answering
  <2> HIDE DEF Workers, Runners
  <2>3. QED
    BY <2>1, <2>2
<1>13. ASSUME NEW t \in Runners, call_app(t)
      PROVE (Unanswered /\ AtMostOneAnswer)'
  <2>1. UNCHANGED <<stream, answers, cst, accConn>>
    BY <1>13 DEF call_app
  <2>2. \A v \in Workers : Answering(v)' => Answering(v)
    BY <1>13 DEF call_app, Answering
  <2> HIDE DEF Workers, Runners
  <2>3. QED
    BY <2>1, <2>2
<1>14. ASSUME NEW t \in Runners, AppReturns(t)
      PROVE (Unanswered /\ AtMostOneAnswer)'
  <2>1. UNCHANGED <<stream, answers, cst, accConn>>
    BY <1>14 DEF AppReturns
  <2>2. \A v \in Workers : Answering(v)' => Answering(v)
    BY <1>14 DEF AppReturns, Answering
  <2> HIDE DEF Workers, Runners
  <2>3. QED
    BY <2>1, <2>2
<1>15. ASSUME NEW t \in Runners, async_write_response(t)
      PROVE (Unanswered /\ AtMostOneAnswer)'
  <2>1. UNCHANGED <<stream, answers, cst, accConn>>
    BY <1>15 DEF async_write_response
  <2>2. \A v \in Workers : Answering(v)' => Answering(v)
    BY <1>15 DEF async_write_response, Answering
  <2> HIDE DEF Workers, Runners
  <2>3. QED
    BY <2>1, <2>2
<1>16. ASSUME NEW t \in Runners, reset(t)
      PROVE (Unanswered /\ AtMostOneAnswer)'
  <2>1. UNCHANGED <<stream, answers, accConn>> /\ \E d : cst' = [cst EXCEPT ![d] = "closed"]
    BY <1>16 DEF reset
  <2>2. \A v \in Workers : Answering(v)' => Answering(v)
    BY <1>16 DEF reset, Answering
  <2> HIDE DEF Workers, Runners
  <2>3. QED
    BY <2>1, <2>2
<1>17. ASSUME NEW t \in Runners, Disengage(t)
      PROVE (Unanswered /\ AtMostOneAnswer)'
  <2>1. /\ UNCHANGED <<answers, accConn, cst>>
        /\ \A v \in Workers : stream'[v] # NoConn => stream'[v] = stream[v]
    BY <1>17 DEF Disengage
  <2>2. \A v \in Workers : Answering(v)' => Answering(v)
    BY <1>17 DEF Disengage, Answering
  <2> HIDE DEF Workers, Runners
  <2>3. QED
    BY <2>1, <2>2
<1>18. ASSUME NEW t \in Runners, Destroy(t)
      PROVE (Unanswered /\ AtMostOneAnswer)'
  <2>1. UNCHANGED <<stream, answers, cst, accConn>>
    BY <1>18 DEF Destroy
  <2>2. \A v \in Workers : Answering(v)' => Answering(v)
    BY <1>18 DEF Destroy, Answering
  <2> HIDE DEF Workers, Runners
  <2>3. QED
    BY <2>1, <2>2
<1>19. ASSUME NEW t \in Runners, StopIo(t)
      PROVE (Unanswered /\ AtMostOneAnswer)'
  <2>1. UNCHANGED <<stream, answers, cst, accConn>>
    BY <1>19 DEF StopIo
  <2>2. \A v \in Workers : Answering(v)' => Answering(v)
    BY <1>19 DEF StopIo, Answering
  <2> HIDE DEF Workers, Runners
  <2>3. QED
    BY <2>1, <2>2
<1>20. ASSUME NEW t \in Runners, StopTest(t)
      PROVE (Unanswered /\ AtMostOneAnswer)'
  <2>1. UNCHANGED <<stream, answers, cst, accConn>>
    BY <1>20 DEF StopTest
  <2>2. \A u \in Runners : pc'[u] \in {"spin", "start", "call", "app", "write"} =>
          pc'[u] = pc[u] /\ hnd'[u] = hnd[u]
    BY <1>20 DEF StopTest, NextStop, is_idle
  <2>3. \A v \in Workers : op'[v] \in {"reading", "read_ok", "writing"} => op'[v] = op[v]
    BY <1>20 DEF StopTest
  <2>4. \A v \in Workers : Answering(v)' => Answering(v)
    BY <2>2, <2>3 DEF Answering
  <2> HIDE DEF Workers, Runners
  <2>5. QED
    BY <2>1, <2>4
<1>21. ASSUME NEW t \in Runners, StopCancel(t)
      PROVE (Unanswered /\ AtMostOneAnswer)'
  <2>1. UNCHANGED <<stream, answers, cst, accConn>>
    BY <1>21 DEF StopCancel
  <2>2. \A u \in Runners : pc'[u] \in {"spin", "start", "call", "app", "write"} =>
          pc'[u] = pc[u] /\ hnd'[u] = hnd[u]
    BY <1>21 DEF StopCancel, NextStop
  <2>3. \A v \in Workers : op'[v] \in {"reading", "read_ok", "writing"} => op'[v] = op[v]
    BY <1>21 DEF StopCancel
  <2>4. \A v \in Workers : Answering(v)' => Answering(v)
    BY <2>2, <2>3 DEF Answering
  <2> HIDE DEF Workers, Runners
  <2>5. QED
    BY <2>1, <2>4
<1>22. ASSUME NEW t \in Runners, Leave(t)
      PROVE (Unanswered /\ AtMostOneAnswer)'
  <2>1. UNCHANGED <<stream, answers, cst, accConn>>
    BY <1>22 DEF Leave
  <2>2. \A v \in Workers : Answering(v)' => Answering(v)
    BY <1>22 DEF Leave, Answering
  <2> HIDE DEF Workers, Runners
  <2>3. QED
    BY <2>1, <2>2
<1>23. ASSUME NEW t \in Runners, NEW w \in Workers, RunRead(t, w)
      PROVE (Unanswered /\ AtMostOneAnswer)'
  <2>1. UNCHANGED <<stream, answers, cst, accConn>>
    BY <1>23 DEF RunRead
  <2>2. \A v \in Workers : Answering(v)' => Answering(v)
    BY <1>23 DEF RunRead, Answering
  <2> HIDE DEF Workers, Runners
  <2>3. QED
    BY <2>1, <2>2
<1>24. ASSUME NEW t \in Runners, NEW w \in Workers, RunWritten(t, w)
      PROVE (Unanswered /\ AtMostOneAnswer)'
  <2>1. UNCHANGED <<stream, answers, cst, accConn>>
    BY <1>24 DEF RunWritten
  <2>2. \A v \in Workers : Answering(v)' => Answering(v)
    BY <1>24 DEF RunWritten, Answering
  <2> HIDE DEF Workers, Runners
  <2>3. QED
    BY <2>1, <2>2
<1>25. ASSUME NEW w \in Workers, ReadParse(w)
      PROVE (Unanswered /\ AtMostOneAnswer)'
  <2>1. UNCHANGED <<stream, answers, cst, accConn>>
    BY <1>25 DEF ReadParse
  <2>2. \A v \in Workers : Answering(v)' => Answering(v)
    BY <1>25 DEF ReadParse, Answering
  <2> HIDE DEF Workers, Runners
  <2>3. QED
    BY <2>1, <2>2
<1>26. ASSUME NEW w \in Workers, ReadSome(w)
      PROVE (Unanswered /\ AtMostOneAnswer)'
  <2>1. UNCHANGED <<stream, answers, cst, accConn>>
    BY <1>26 DEF ReadSome
  <2>2. \A v \in Workers : Answering(v)' => Answering(v)
    BY <1>26 DEF ReadSome, Answering
  <2> HIDE DEF Workers, Runners
  <2>3. QED
    BY <2>1, <2>2
<1>27. ASSUME NEW w \in Workers, ReadFails(w)
      PROVE (Unanswered /\ AtMostOneAnswer)'
  <2>1. UNCHANGED <<stream, answers, cst, accConn>>
    BY <1>27 DEF ReadFails
  <2>2. \A v \in Workers : Answering(v)' => Answering(v)
    BY <1>27 DEF ReadFails, Answering
  <2> HIDE DEF Workers, Runners
  <2>3. QED
    BY <2>1, <2>2
<1>28. ASSUME NEW w \in Workers, WriteSucceeds(w)
      PROVE (Unanswered /\ AtMostOneAnswer)'
  <2> DEFINE c == stream[w]
  <2>1. c \in Conns /\ Taken(c) /\ Answering(w)
    BY <1>28, StreamsTaken DEF WriteSucceeds, HandlerOwnsStream, Answering
  <2>2. answers[c] = <<>>
    BY <2>1
  <2>3. /\ answers' = [answers EXCEPT ![c] = Append(@, parser[w])]
        /\ UNCHANGED <<pc, hnd, cst, accConn, stream>>
        /\ op' = [op EXCEPT ![w] = "written"]
    BY <1>28 DEF WriteSucceeds
  <2>4. Append(answers[c], parser[w]) = <<parser[w]>>
    BY <2>2
  <2>5. ~Answering(w)'
    BY <1>28 DEF WriteSucceeds, Answering, HandlerOwnsStream, Serving
  <2>6. \A v \in Workers : Answering(v)' => Answering(v)
    BY <2>3 DEF Answering
  <2>7. \A v \in Workers \ {w} : stream[v] # c
    BY <2>1 DEF SInv, OpenSocketsOwned
  <2> HIDE DEF Workers, Runners, c
  <2>8. answers'[c] = <<parser[w]>> /\ \A d \in Conns : d # c => answers'[d] = answers[d]
    BY <2>1, <2>3, <2>4
  <2>9. Unanswered'
    <3>1. \A d \in Conns : cst[d] \in {"new", "backlog"} \/ accConn = d => d # c
      BY <2>1 DEF Taken
    <3>2. \A v \in Workers : stream'[v] # NoConn /\ Answering(v)' =>
            answers'[stream'[v]] = <<>>
      BY <2>3, <2>5, <2>6, <2>7, <2>8
    <3>3. QED
      BY <2>3, <2>8, <3>1, <3>2
  <2>10. AtMostOneAnswer'
    <3>1. Len(answers'[c]) <= 1
      BY <2>8
    <3>2. QED
      BY <2>8, <3>1
  <2>11. QED
    BY <2>9, <2>10
<1>29. ASSUME NEW w \in Workers, WriteFails(w)
      PROVE (Unanswered /\ AtMostOneAnswer)'
  <2>1. UNCHANGED <<stream, answers, cst, accConn>>
    BY <1>29 DEF WriteFails
  <2>2. \A v \in Workers : Answering(v)' => Answering(v)
    BY <1>29 DEF WriteFails, Answering
  <2> HIDE DEF Workers, Runners
  <2>3. QED
    BY <2>1, <2>2
<1>30. ASSUME NEW c \in Conns, Connect(c)
      PROVE (Unanswered /\ AtMostOneAnswer)'
  <2>1. UNCHANGED <<stream, answers, accConn>>
    BY <1>30 DEF Connect
  <2>2. \A v \in Workers : Answering(v)' <=> Answering(v)
    BY <1>30 DEF Connect, Answering
  <2>3. \A d \in Conns : cst'[d] \in {"new", "backlog"} => cst[d] \in {"new", "backlog"}
    BY <1>30 DEF Connect
  <2> HIDE DEF Workers, Runners
  <2>4. QED
    BY <2>1, <2>2, <2>3
<1>31. ASSUME NEW c \in Conns, NEW e \in Ends, Send(c, e)
      PROVE (Unanswered /\ AtMostOneAnswer)'
  <2>1. UNCHANGED <<stream, answers, accConn>>
    BY <1>31 DEF Send
  <2>2. \A v \in Workers : Answering(v)' <=> Answering(v)
    BY <1>31 DEF Send, Answering
  <2>3. \A d \in Conns : cst'[d] \in {"new", "backlog"} => cst[d] \in {"new", "backlog"}
    BY <1>31 DEF Send
  <2> HIDE DEF Workers, Runners
  <2>4. QED
    BY <2>1, <2>2, <2>3
<1>32. CASE UNCHANGED vars
  BY <1>32 DEF Answering
<1>33. QED
  BY <1>1, <1>2, <1>3, <1>4, <1>5, <1>6, <1>7, <1>8, <1>9, <1>10, <1>11,
     <1>12, <1>13, <1>14, <1>15, <1>16, <1>17, <1>18, <1>19, <1>20,
     <1>21, <1>22, <1>23, <1>24, <1>25, <1>26, <1>27, <1>28, <1>29,
     <1>30, <1>31, <1>32
     DEF Next, Pick, Step, Stream, Client

\* No connection is answered twice, whatever its client pipelines: the worker
\* that answered closes it, and no other worker or accept ever has it again.
THEOREM AnsweredOnce == Spec => []AtMostOneAnswer
<1>1. Init => Unanswered /\ AtMostOneAnswer
  BY DEF Init, Unanswered, AtMostOneAnswer
<1>2. AnsweredInv /\ [Next]_vars => (Unanswered /\ AtMostOneAnswer)'
  BY AnswerStep
<1>3. Spec => []SInv
  BY SocketsInductive
<1>4. QED
  BY <1>1, <1>2, <1>3, PTL DEF Spec, AnsweredInv

-----------------------------------------------------------------------------
\* Cutting a sequence, element by element.
LEMMA Cut ==
    ASSUME NEW S, NEW s \in Seq(S), NEW k \in 0 .. Len(s)
    PROVE  /\ Len(SubSeq(s, 1, k)) = k
           /\ \A i \in 1 .. k : SubSeq(s, 1, k)[i] = s[i]
           /\ Len(SubSeq(s, k + 1, Len(s))) = Len(s) - k
           /\ \A i \in 1 .. Len(s) - k : SubSeq(s, k + 1, Len(s))[i] = s[k + i]
<1>1. Len(s) \in Nat /\ k \in Int
  BY LenProperties
<1>2. \A i \in 1 .. Len(s) : s[i] \in S
  BY <1>1, ElementOfSeq
<1>3. Len(SubSeq(s, 1, k)) = k /\ \A i \in 1 .. k : SubSeq(s, 1, k)[i] = s[i]
  BY <1>1, <1>2, SubSeqProperties
<1>4. /\ Len(SubSeq(s, k + 1, Len(s))) = Len(s) - k
      /\ \A i \in 1 .. Len(s) - k : SubSeq(s, k + 1, Len(s))[i] = s[k + i]
  BY <1>1, <1>2, SubSeqProperties
<1>5. QED
  BY <1>3, <1>4

\* Joining two sequences, element by element.
LEMMA Joined ==
    ASSUME NEW S, NEW s \in Seq(S), NEW t \in Seq(S)
    PROVE  /\ s \o t \in Seq(S) /\ Len(s \o t) = Len(s) + Len(t)
           /\ \A i \in 1 .. Len(s) : (s \o t)[i] = s[i]
           /\ \A i \in 1 .. Len(t) : (s \o t)[Len(s) + i] = t[i]
  BY ConcatProperties, LenProperties

\* What a worker holds, piece by piece.
LEMMA Held ==
    ASSUME TypeOK, NEW w \in Workers
    PROVE  /\ parser[w] \in Seq(Piece) /\ buf[w] \in Seq(Piece) /\ All(w) \in Seq(Piece)
           /\ Len(parser[w]) \in Nat /\ Len(buf[w]) \in Nat /\ Len(All(w)) \in Nat
           /\ Len(parser[w]) + Len(buf[w]) = Len(All(w))
           /\ \A i \in 1 .. Len(parser[w]) : All(w)[i] = parser[w][i]
           /\ \A i \in 1 .. Len(buf[w]) : All(w)[Len(parser[w]) + i] = buf[w][i]
           /\ \A i \in 1 .. Len(All(w)) : All(w)[i].from \in Conns
<1>1. parser[w] \in Seq(Piece) /\ buf[w] \in Seq(Piece)
  BY DEF TypeOK
<1>2. /\ All(w) \in Seq(Piece) /\ Len(parser[w]) + Len(buf[w]) = Len(All(w))
      /\ \A i \in 1 .. Len(parser[w]) : All(w)[i] = parser[w][i]
      /\ \A i \in 1 .. Len(buf[w]) : All(w)[Len(parser[w]) + i] = buf[w][i]
  <2> DEFINE p == parser[w]
             b == buf[w]
  <2>1. p \in Seq(Piece) /\ b \in Seq(Piece) /\ All(w) = p \o b
    BY <1>1 DEF All
  <2> HIDE DEF p, b
  <2>2. /\ p \o b \in Seq(Piece) /\ Len(p \o b) = Len(p) + Len(b)
        /\ \A i \in 1 .. Len(p) : (p \o b)[i] = p[i]
        /\ \A i \in 1 .. Len(b) : (p \o b)[Len(p) + i] = b[i]
    BY <2>1, Joined
  <2>3. QED
    BY <2>1, <2>2 DEF p, b
<1>3. \A i \in 1 .. Len(All(w)) : All(w)[i] \in Piece
  BY <1>2, ElementOfSeq
<1>4. \A i \in 1 .. Len(All(w)) : All(w)[i].from \in Conns
  BY <1>3 DEF Piece
<1>5. QED
  BY <1>1, <1>2, <1>4, LenProperties

\* The same after a step.
LEMMA HeldThen ==
    ASSUME TypeOK', NEW w \in Workers
    PROVE  /\ Len(parser'[w]) + Len(buf'[w]) = Len(All(w)')
           /\ \A i \in 1 .. Len(parser'[w]) : All(w)'[i] = parser'[w][i]
           /\ \A i \in 1 .. Len(buf'[w]) : All(w)'[Len(parser'[w]) + i] = buf'[w][i]
<1> DEFINE p == parser'[w]
           b == buf'[w]
<1>1. p \in Seq(Piece) /\ b \in Seq(Piece) /\ All(w)' = p \o b
  BY DEF TypeOK, All
<1> HIDE DEF p, b
<1>2. /\ Len(p \o b) = Len(p) + Len(b)
      /\ \A i \in 1 .. Len(p) : (p \o b)[i] = p[i]
      /\ \A i \in 1 .. Len(b) : (p \o b)[Len(p) + i] = b[i]
  BY <1>1, Joined
<1>3. QED
  BY <1>1, <1>2 DEF p, b

\* A whole request leaves the buffer: nothing is lost, and the piece that ends
\* it was not in the parser before.
LEMMA Parsed ==
    ASSUME TypeOK, TypeOK', ParserFresh, NEW w \in Workers, ReadParse(w)
    PROVE  \E n \in 1 .. Len(All(w)) :
             /\ FirstMessage(All(w), n)
             /\ n > Len(parser[w])
             /\ Len(parser'[w]) = n /\ \A i \in 1 .. n : parser'[w][i] = All(w)[i]
             /\ Len(buf'[w]) = Len(All(w)) - n
             /\ \A i \in 1 .. Len(All(w)) - n : buf'[w][i] = All(w)[n + i]
             /\ Len(All(w)') = Len(All(w))
             /\ \A i \in 1 .. Len(All(w)) : All(w)'[i] = All(w)[i]
<1>0. /\ parser[w] \in Seq(Piece) /\ buf[w] \in Seq(Piece) /\ All(w) \in Seq(Piece)
      /\ Len(parser[w]) \in Nat /\ Len(buf[w]) \in Nat /\ Len(All(w)) \in Nat
      /\ Len(parser[w]) + Len(buf[w]) = Len(All(w))
  BY Held
<1>e. /\ \A i \in 1 .. Len(parser[w]) : All(w)[i] = parser[w][i]
      /\ \A i \in 1 .. Len(buf[w]) : All(w)[Len(parser[w]) + i] = buf[w][i]
  BY Held
<1>1. PICK n \in 1 .. Len(All(w)) :
        /\ FirstMessage(All(w), n)
        /\ parser' = [parser EXCEPT ![w] = SubSeq(All(w), 1, n)]
        /\ buf' = [buf EXCEPT ![w] = SubSeq(All(w), n + 1, Len(All(w)))]
  BY DEF ReadParse, All
<1>2. parser'[w] = SubSeq(All(w), 1, n) /\ buf'[w] = SubSeq(All(w), n + 1, Len(All(w)))
  BY <1>1 DEF TypeOK
<1>3. All(w) \in Seq(Piece) /\ n \in 0 .. Len(All(w)) /\ Len(All(w)) \in Nat
  BY <1>0
<1>4. /\ Len(parser'[w]) = n /\ \A i \in 1 .. n : parser'[w][i] = All(w)[i]
      /\ Len(buf'[w]) = Len(All(w)) - n
      /\ \A i \in 1 .. Len(All(w)) - n : buf'[w][i] = All(w)[n + i]
  BY <1>2, <1>3, Cut
<1>5. n > Len(parser[w])
  <2>1. ~Complete(parser[w])
    BY DEF ReadParse, ParserFresh
  <2>2. \A i \in 1 .. Len(parser[w]) : ~All(w)[i].ends
    BY <1>0, <1>e, <2>1, LenProperties DEF Complete
  <2>3. All(w)[n].ends
    BY <1>1 DEF FirstMessage
  <2>4. n \notin 1 .. Len(parser[w])
    BY <2>2, <2>3
  <2>5. QED
    BY <1>0, <2>4
<1>6. parser'[w] \in Seq(Piece) /\ buf'[w] \in Seq(Piece)
  BY DEF TypeOK
<1>7. /\ Len(parser'[w]) + Len(buf'[w]) = Len(All(w)')
      /\ \A i \in 1 .. Len(parser'[w]) : All(w)'[i] = parser'[w][i]
      /\ \A i \in 1 .. Len(buf'[w]) : All(w)'[Len(parser'[w]) + i] = buf'[w][i]
  BY HeldThen
<1>8. Len(All(w)') = Len(All(w))
  BY <1>3, <1>4, <1>7
<1>9. \A i \in 1 .. Len(All(w)) : All(w)'[i] = All(w)[i]
  <2> SUFFICES ASSUME NEW i \in 1 .. Len(All(w)) PROVE All(w)'[i] = All(w)[i]
    OBVIOUS
  <2>1. CASE i <= n
    BY <1>3, <1>4, <1>7, <2>1
  <2>2. CASE i > n
    <3> DEFINE j == i - n
    <3>1. j \in 1 .. Len(All(w)) - n /\ n + j = i
      BY <1>3, <2>2
    <3> HIDE DEF j
    <3>2. All(w)'[n + j] = buf'[w][j]
      BY <1>4, <1>7, <3>1
    <3>3. buf'[w][j] = All(w)[n + j]
      BY <1>4, <3>1
    <3>4. QED
      BY <3>1, <3>2, <3>3
  <2>3. QED
    BY <1>3, <2>1, <2>2
<1>10. QED
  BY <1>1, <1>4, <1>5, <1>8, <1>9

\* Pieces are read from the connection's inbox and kept behind what was there;
\* the parser takes pieces without an end only.
LEMMA Fed ==
    ASSUME TypeOK, TypeOK', HandlerOwnsStream, NEW w \in Workers, ReadSome(w)
    PROVE  \E k \in 1 .. Len(inbox[stream[w]]) :
             /\ Len(inbox'[stream[w]]) = Len(inbox[stream[w]]) - k
             /\ \A i \in 1 .. Len(inbox[stream[w]]) - k :
                  inbox'[stream[w]][i] = inbox[stream[w]][k + i]
             /\ Len(All(w)) + k = Len(All(w)')
             /\ \A i \in 1 .. Len(All(w)) : All(w)'[i] = All(w)[i]
             /\ \A i \in 1 .. k : All(w)'[Len(All(w)) + i] = inbox[stream[w]][i]
             /\ \A i \in 1 .. Len(parser[w]) : parser'[w][i] = parser[w][i]
             /\ Len(parser'[w]) >= Len(parser[w])
             /\ Len(parser'[w]) > Len(parser[w]) =>
                  \A i \in 1 .. Len(buf'[w]) : ~buf'[w][i].ends
             /\ \A i \in 1 .. Len(All(w)) : ~All(w)[i].ends
             /\ ~Complete(parser'[w])
<1>0. /\ parser[w] \in Seq(Piece) /\ buf[w] \in Seq(Piece) /\ All(w) \in Seq(Piece)
      /\ Len(parser[w]) \in Nat /\ Len(buf[w]) \in Nat /\ Len(All(w)) \in Nat
      /\ Len(parser[w]) + Len(buf[w]) = Len(All(w))
  BY Held
<1>e. /\ \A i \in 1 .. Len(parser[w]) : All(w)[i] = parser[w][i]
      /\ \A i \in 1 .. Len(buf[w]) : All(w)[Len(parser[w]) + i] = buf[w][i]
  BY Held
<1> DEFINE c == stream[w]
           new(k) == buf[w] \o SubSeq(inbox[c], 1, k)
<1>1. c \in Conns /\ inbox[c] \in Seq(Piece) /\ Len(inbox[c]) \in Nat
  BY LenProperties DEF ReadSome, HandlerOwnsStream, TypeOK
<1>2. PICK k \in 1 .. Len(inbox[c]) :
        /\ inbox' = [inbox EXCEPT ![c] = SubSeq(@, k + 1, Len(@))]
        /\ \E n \in IF Complete(new(k)) THEN {0} ELSE 0 .. Len(new(k)) :
             /\ parser' = [parser EXCEPT ![w] = @ \o SubSeq(new(k), 1, n)]
             /\ buf' = [buf EXCEPT ![w] = SubSeq(new(k), n + 1, Len(new(k)))]
  BY DEF ReadSome
<1> DEFINE got == SubSeq(inbox[c], 1, k)
           all == buf[w] \o got
<1>3. k \in 0 .. Len(inbox[c])
  BY <1>1
<1>4. /\ got \in Seq(Piece) /\ Len(got) = k
      /\ \A i \in 1 .. k : got[i] = inbox[c][i]
  BY <1>1, <1>3, Halves, Cut
<1>5. /\ Len(inbox'[c]) = Len(inbox[c]) - k
      /\ \A i \in 1 .. Len(inbox[c]) - k : inbox'[c][i] = inbox[c][k + i]
  <2>1. inbox'[c] = SubSeq(inbox[c], k + 1, Len(inbox[c]))
    BY <1>1, <1>2 DEF TypeOK
  <2>2. QED
    BY <1>1, <1>3, <2>1, Cut
<1> HIDE DEF got
<1>6. /\ all \in Seq(Piece) /\ Len(buf[w]) + k = Len(all) /\ Len(all) \in Nat
      /\ \A i \in 1 .. Len(buf[w]) : all[i] = buf[w][i]
      /\ \A i \in 1 .. k : all[Len(buf[w]) + i] = got[i]
  <2> DEFINE b == buf[w]
  <2>1. b \in Seq(Piece) /\ all = b \o got
    BY <1>0
  <2> HIDE DEF b, all
  <2>2. /\ b \o got \in Seq(Piece) /\ Len(b \o got) = Len(b) + Len(got)
        /\ \A i \in 1 .. Len(b) : (b \o got)[i] = b[i]
        /\ \A i \in 1 .. Len(got) : (b \o got)[Len(b) + i] = got[i]
    <3>1. got \in Seq(Piece)
      BY <1>4
    <3>2. QED
      BY <2>1, <3>1, Joined
  <2>3. QED
    BY <1>0, <1>4, <2>1, <2>2, LenProperties DEF b
<1>7. PICK n \in IF Complete(all) THEN {0} ELSE 0 .. Len(all) :
        /\ parser' = [parser EXCEPT ![w] = @ \o SubSeq(all, 1, n)]
        /\ buf' = [buf EXCEPT ![w] = SubSeq(all, n + 1, Len(all))]
  BY <1>2 DEF got
<1> HIDE DEF new, all
<1>8. n \in 0 .. Len(all) /\ (n # 0 => ~Complete(all))
  BY <1>6, <1>7
<1>9. parser'[w] = parser[w] \o SubSeq(all, 1, n) /\ buf'[w] = SubSeq(all, n + 1, Len(all))
  BY <1>7 DEF TypeOK
<1>10. /\ SubSeq(all, 1, n) \in Seq(Piece) /\ Len(SubSeq(all, 1, n)) = n
       /\ \A i \in 1 .. n : SubSeq(all, 1, n)[i] = all[i]
       /\ Len(buf'[w]) = Len(all) - n
       /\ \A i \in 1 .. Len(all) - n : buf'[w][i] = all[n + i]
  <2>1. all \in Seq(Piece) /\ n \in 0 .. Len(all)
    BY <1>6, <1>8
  <2>2. SubSeq(all, 1, n) \in Seq(Piece)
    BY <2>1, Halves
  <2>3. /\ Len(SubSeq(all, 1, n)) = n
        /\ \A i \in 1 .. n : SubSeq(all, 1, n)[i] = all[i]
        /\ Len(SubSeq(all, n + 1, Len(all))) = Len(all) - n
        /\ \A i \in 1 .. Len(all) - n : SubSeq(all, n + 1, Len(all))[i] = all[n + i]
    BY <2>1, Cut
  <2>4. QED
    BY <1>9, <2>2, <2>3
<1>11. /\ Len(parser[w]) + n = Len(parser'[w])
       /\ \A i \in 1 .. Len(parser[w]) : parser'[w][i] = parser[w][i]
       /\ \A i \in 1 .. n : parser'[w][Len(parser[w]) + i] = all[i]
  <2> DEFINE p == parser[w]
             q == SubSeq(all, 1, n)
  <2>1. p \in Seq(Piece) /\ q \in Seq(Piece)
    BY <1>0, <1>10
  <2>2. Len(q) = n /\ parser'[w] = p \o q /\ \A i \in 1 .. n : q[i] = all[i]
    BY <1>9, <1>10
  <2> HIDE DEF p, q
  <2>3. /\ Len(p \o q) = Len(p) + Len(q)
        /\ \A i \in 1 .. Len(p) : (p \o q)[i] = p[i]
        /\ \A i \in 1 .. Len(q) : (p \o q)[Len(p) + i] = q[i]
    BY <2>1, Joined
  <2>4. QED
    BY <2>1, <2>2, <2>3 DEF p
<1>12. /\ Len(parser'[w]) + Len(buf'[w]) = Len(All(w)')
       /\ \A i \in 1 .. Len(parser'[w]) : All(w)'[i] = parser'[w][i]
       /\ \A i \in 1 .. Len(buf'[w]) : All(w)'[Len(parser'[w]) + i] = buf'[w][i]
  BY HeldThen
<1> DEFINE lp == Len(parser[w])
           lb == Len(buf[w])
           la == Len(All(w))
           li == Len(inbox[c])
<1>13. lp \in Nat /\ lb \in Nat /\ la \in Nat /\ li \in Nat /\ la = lp + lb
  BY <1>0, <1>1
<1>14. \A i \in 1 .. Len(all) : All(w)'[Len(parser[w]) + i] = all[i]
  <2> SUFFICES ASSUME NEW i \in 1 .. Len(all)
               PROVE  All(w)'[Len(parser[w]) + i] = all[i]
    OBVIOUS
  <2>1. CASE i <= n
    <3>0. lp \in Nat /\ n \in Nat /\ i \in Nat /\ i >= 1
      BY <1>6, <1>8, <1>13
    <3>1. i \in 1 .. n /\ Len(parser[w]) + i \in 1 .. Len(parser[w]) + n
      <4> HIDE DEF lp
      <4>1. i \in 1 .. n /\ lp + i \in 1 .. lp + n
        BY <2>1, <3>0
      <4>2. QED
        BY <4>1 DEF lp
    <3>2. Len(parser[w]) + i \in 1 .. Len(parser'[w])
      BY <1>11, <3>1
    <3>3. QED
      BY <1>11, <1>12, <3>1, <3>2
  <2>2. CASE i > n
    <3> DEFINE j == i - n
    <3>1. j \in 1 .. Len(all) - n /\ n + j = i
      BY <1>6, <1>8, <2>2
    <3>2. Len(parser[w]) + n + j = Len(parser[w]) + i
      BY <1>8, <1>13, <3>1
    <3> HIDE DEF j
    <3>3. All(w)'[Len(parser'[w]) + j] = buf'[w][j] /\ buf'[w][j] = all[n + j]
      BY <1>10, <1>12, <3>1
    <3>4. QED
      BY <1>11, <3>1, <3>2, <3>3
  <2>3. QED
    BY <1>6, <1>8, <2>1, <2>2
<1>15. Len(All(w)) + k = Len(All(w)')
  <2>1. (lp + n) + (Len(all) - n) = Len(All(w)')
    BY <1>10, <1>11, <1>12
  <2>2. lb + k = Len(all) /\ Len(all) \in Nat /\ n \in 0 .. Len(all) /\ k \in 1 .. li
    BY <1>6, <1>8
  <2> HIDE DEF lp, lb, la, li
  <2>3. la + k = Len(All(w)')
    BY <1>13, <2>1, <2>2
  <2>4. QED
    BY <2>3 DEF la
<1>16. \A i \in 1 .. Len(All(w)) : All(w)'[i] = All(w)[i]
  <2> SUFFICES ASSUME NEW i \in 1 .. Len(All(w)) PROVE All(w)'[i] = All(w)[i]
    OBVIOUS
  <2>1. i \in 1 .. la /\ lp + n = Len(parser'[w]) /\ lb + k = Len(all) /\ k \in 1 .. li
    BY <1>6, <1>11
  <2>2. n \in 0 .. Len(all) /\ Len(all) \in Nat
    BY <1>6, <1>8
  <2>3. i \in 1 .. lp \/ \E j \in 1 .. lb : i = lp + j
    <3> HIDE DEF lp, lb, la, li
    <3>1. i > lp => i - lp \in 1 .. lb /\ i = lp + (i - lp)
      BY <1>13, <2>1
    <3>2. QED
      BY <1>13, <2>1, <3>1
  <2>4. ASSUME i \in 1 .. lp PROVE All(w)'[i] = All(w)[i]
    <3>1. i \in 1 .. Len(parser'[w])
      <4> HIDE DEF lp, lb, la, li
      <4>1. QED
        BY <1>13, <2>1, <2>2, <2>4
    <3>2. QED
      BY <1>11, <1>12, <1>e, <2>4, <3>1
  <2>5. ASSUME NEW j \in 1 .. lb, i = lp + j PROVE All(w)'[i] = All(w)[i]
    <3>1. j \in 1 .. Len(all)
      <4> HIDE DEF lp, lb, la, li
      <4>1. QED
        BY <1>13, <2>1
    <3>2. All(w)'[lp + j] = all[j] /\ all[j] = buf[w][j] /\ buf[w][j] = All(w)[lp + j]
      BY <1>6, <1>14, <1>e, <3>1
    <3>3. QED
      BY <2>5, <3>2
  <2>6. QED
    BY <2>3, <2>4, <2>5
<1>17. \A i \in 1 .. k : All(w)'[Len(All(w)) + i] = inbox[c][i]
  <2> SUFFICES ASSUME NEW i \in 1 .. k
               PROVE  All(w)'[Len(All(w)) + i] = inbox[c][i]
    OBVIOUS
  <2>1. /\ Len(buf[w]) + i \in 1 .. Len(all)
        /\ Len(parser[w]) + (Len(buf[w]) + i) = Len(All(w)) + i
    <3>1. lb + k = Len(all) /\ k \in 1 .. li
      BY <1>6
    <3> HIDE DEF lp, lb, la, li
    <3>2. lb + i \in 1 .. Len(all) /\ lp + (lb + i) = la + i
      BY <1>13, <3>1
    <3>3. QED
      BY <3>2 DEF lp, lb, la
  <2>2. QED
    BY <1>4, <1>6, <1>14, <2>1
<1>18. \A i \in 1 .. Len(All(w)) : ~All(w)[i].ends
  <2>1. ~Complete(All(w))
    BY DEF ReadSome, All
  <2>2. DOMAIN All(w) = 1 .. Len(All(w))
    BY <1>0, LenProperties
  <2>3. QED
    BY <2>1, <2>2 DEF Complete
<1>19. n # 0 => \A i \in 1 .. Len(all) : ~all[i].ends
  <2>1. DOMAIN all = 1 .. Len(all)
    BY <1>6, LenProperties
  <2>2. QED
    BY <1>8, <2>1 DEF Complete
<1>20. n # 0 => \A i \in 1 .. Len(buf'[w]) : ~buf'[w][i].ends
  <2> SUFFICES ASSUME n # 0, NEW i \in 1 .. Len(buf'[w]) PROVE ~buf'[w][i].ends
    OBVIOUS
  <2>1. n + i \in 1 .. Len(all)
    BY <1>6, <1>8, <1>10
  <2>2. QED
    BY <1>10, <1>19, <2>1
<1>21. ~Complete(parser'[w])
  <2> SUFFICES ASSUME NEW i \in DOMAIN parser'[w] PROVE ~parser'[w][i].ends
    BY DEF Complete
  <2>1. i \in 1 .. Len(parser'[w])
    <3>1. parser'[w] \in Seq(Piece)
      BY DEF TypeOK
    <3>2. QED
      BY <3>1, LenProperties
  <2>2. lp + n = Len(parser'[w]) /\ Len(all) \in Nat /\ n \in 0 .. Len(all)
    BY <1>6, <1>8, <1>11
  <2>3. i \in 1 .. lp \/ \E j \in 1 .. n : i = lp + j
    <3> HIDE DEF lp, lb, la, li
    <3>0. 1 .. Len(parser'[w]) = 1 .. lp + n
      BY <2>2, Zenon
    <3>1. i \in 1 .. lp + n
      BY <2>1, <3>0, Zenon
    <3>2. lp \in Nat /\ n \in Nat
      BY <1>13, <2>2
    <3>3. i \in 1 .. lp \/ (i - lp \in 1 .. n /\ i = lp + (i - lp))
      BY <3>1, <3>2
    <3>4. QED
      BY <3>3, Zenon
  <2>4. ASSUME i \in 1 .. lp PROVE ~parser'[w][i].ends
    <3>1. i \in 1 .. la
      <4> HIDE DEF lp, lb, la, li
      <4>1. QED
        BY <1>13, <2>4
    <3>2. QED
      BY <1>11, <1>18, <1>e, <2>4, <3>1
  <2>5. ASSUME NEW j \in 1 .. n, i = lp + j PROVE ~parser'[w][i].ends
    <3>1. parser'[w][i] = all[j] /\ j \in 1 .. Len(all) /\ n # 0
      BY <1>11, <2>2, <2>5
    <3>2. QED
      BY <1>19, <3>1
  <2>6. QED
    BY <2>3, <2>4, <2>5
<1>22. Len(parser'[w]) >= Len(parser[w]) /\ (Len(parser'[w]) > Len(parser[w]) => n # 0)
  BY <1>6, <1>8, <1>11, <1>13
<1> HIDE DEF c
<1>23. QED
  BY <1>5, <1>11, <1>15, <1>16, <1>17, <1>18, <1>20, <1>21, <1>22 DEF c

\* The actions that touch a stream, a buffer, a parser or an inbox.
LEMMA PieceMoves ==
    ASSUME [Next]_vars
    PROVE  Moves
<1> USE DEF workerVars, clientVars, Quiet
<1>1. CASE UNCHANGED vars
  BY <1>1 DEF vars, Moves
<1>2. ASSUME Boot \/ Accept \/ Signal \/ Terminated PROVE Quiet
  BY <1>2 DEF Boot, Accept, Signal, Terminated, vars
<1>3. ASSUME NEW t \in Runners, Pick(t) PROVE Quiet
  BY <1>3 DEF Pick, RunPosted, RunAccept, RunSignal, RunRead, RunWritten
<1>4. ASSUME NEW t \in Runners, Step(t)
      PROVE  Quiet \/ start_work(t) \/ reset(t) \/ Disengage(t)
  BY <1>4 DEF Step, async_accept, StartWorkThrows, next_worker, start, call_app,
              AppReturns, async_write_response, Destroy, StopIo, StopTest, StopCancel,
              Leave
<1>5. ASSUME NEW w \in Workers, Stream(w) PROVE Quiet \/ ReadParse(w) \/ ReadSome(w)
  BY <1>5 DEF Stream, ReadFails, WriteSucceeds, WriteFails
<1>6. ASSUME NEW c \in Conns, Client(c) PROVE Quiet \/ \E e \in Ends : Send(c, e)
  BY <1>6 DEF Client, Connect
<1> HIDE DEF Quiet
<1>7. QED
  BY <1>1, <1>2, <1>3, <1>4, <1>5, <1>6 DEF Next, Moves

\* A connection that was handed to a worker never goes back to the listener.
LEMMA TakenStays ==
    ASSUME SInv, [Next]_vars, NEW d \in Conns, Taken(d)
    PROVE  Taken(d)'
<1>0. /\ cst \in [Conns -> {"new", "backlog", "accepted", "closed"}]
      /\ accConn \in Conns \cup {NoConn}
  BY DEF SInv, IInv, TypeOK
<1> USE <1>0, BeastAssumption DEF Taken, acceptVars, clientVars
<1>1. CASE UNCHANGED vars
  BY <1>1 DEF vars
<1>2. ASSUME Boot \/ Accept \/ Signal \/ Terminated PROVE Taken(d)'
  BY <1>2 DEF Boot, Accept, Signal, Terminated, vars
<1>3. ASSUME NEW t \in Runners, Pick(t) PROVE Taken(d)'
  BY <1>3 DEF Pick, RunPosted, RunAccept, RunSignal, RunRead, RunWritten
<1>4. ASSUME NEW t \in Runners, start_work(t) \/ StartWorkThrows(t) \/ reset(t)
      PROVE  Taken(d)'
  BY <1>4 DEF start_work, StartWorkThrows, reset
<1>5. ASSUME NEW t \in Runners, Step(t) PROVE Taken(d)'
  BY <1>4, <1>5 DEF Step, async_accept, next_worker, start, call_app, AppReturns,
                    async_write_response, Disengage, Destroy, StopIo, StopTest,
                    StopCancel, Leave
<1>6. ASSUME NEW w \in Workers, Stream(w) PROVE Taken(d)'
  BY <1>6 DEF Stream, ReadParse, ReadSome, ReadFails, WriteSucceeds, WriteFails
<1>7. ASSUME NEW c \in Conns, Client(c) PROVE Taken(d)'
  BY <1>7 DEF Client, Connect, Send
<1>8. QED
  BY <1>1, <1>2, <1>3, <1>5, <1>6, <1>7 DEF Next

\* A worker begins to read with a fresh parser, and ceases by itself only: the
\* handler of a failed read does not run once the server has stopped.
LEMMA WaitSteps ==
    ASSUME SInv, PiecesInv, NEW x \in Workers, [Next]_vars
    PROVE  Waits(x)
<1> USE BeastAssumption DEF Workers, Runners, Goto, InRun,
        vars, threadVars, acceptVars, workerVars, ioVars, clientVars
<1>0. /\ pc \in [Runners -> Labels]
      /\ hnd \in [Runners -> Workers \cup {NoWorker}]
      /\ op \in [Workers -> {"none", "reading", "read_ok", "read_err",
                           "writing", "written"}]
      /\ HandlerOwnsStream
      /\ StopsLast
      /\ ParserFresh
  BY DEF SInv, IInv, TypeOK, PiecesInv
<1> USE <1>0 DEF Waits, Waiting, HandlerOwnsStream, Serving, StopsLast,
        ParserFresh
<1>1. ASSUME Boot PROVE Waits(x)
  BY <1>1 DEF Boot
<1>2. ASSUME Accept PROVE Waits(x)
  BY <1>2 DEF Accept
<1>3. ASSUME Signal PROVE Waits(x)
  BY <1>3 DEF Signal
<1>4. ASSUME Terminated PROVE Waits(x)
  BY <1>4 DEF Terminated
<1>5. ASSUME NEW t \in Runners, RunPosted(t) PROVE Waits(x)
  BY <1>5 DEF RunPosted
<1>6. ASSUME NEW t \in Runners, RunAccept(t) PROVE Waits(x)
  BY <1>6 DEF RunAccept
<1>7. ASSUME NEW t \in Runners, RunSignal(t) PROVE Waits(x)
  BY <1>7 DEF RunSignal
<1>8. ASSUME NEW t \in Runners, async_accept(t) PROVE Waits(x)
  BY <1>8 DEF async_accept
<1>9. ASSUME NEW t \in Runners, start_work(t) PROVE Waits(x)
  BY <1>9 DEF start_work
<1>10. ASSUME NEW t \in Runners, StartWorkThrows(t) PROVE Waits(x)
  BY <1>10 DEF StartWorkThrows
<1>11. ASSUME NEW t \in Runners, next_worker(t) PROVE Waits(x)
  BY <1>11 DEF next_worker, Successor, is_idle
<1>12. ASSUME NEW t \in Runners, start(t) PROVE Waits(x)
  BY <1>12 DEF start
<1>13. ASSUME NEW t \in Runners, call_app(t) PROVE Waits(x)
  BY <1>13 DEF call_app
<1>14. ASSUME NEW t \in Runners, AppReturns(t) PROVE Waits(x)
  BY <1>14 DEF AppReturns
<1>15. ASSUME NEW t \in Runners, async_write_response(t) PROVE Waits(x)
  BY <1>15 DEF async_write_response
<1>16. ASSUME NEW t \in Runners, reset(t) PROVE Waits(x)
  BY <1>16 DEF reset
<1>17. ASSUME NEW t \in Runners, Disengage(t) PROVE Waits(x)
  BY <1>17 DEF Disengage
<1>18. ASSUME NEW t \in Runners, Destroy(t) PROVE Waits(x)
  BY <1>18 DEF Destroy
<1>19. ASSUME NEW t \in Runners, StopIo(t) PROVE Waits(x)
  BY <1>19 DEF StopIo
<1>20. ASSUME NEW t \in Runners, StopTest(t) PROVE Waits(x)
  BY <1>20 DEF StopTest, NextStop, is_idle
<1>21. ASSUME NEW t \in Runners, StopCancel(t) PROVE Waits(x)
  BY <1>21 DEF StopCancel, NextStop
<1>22. ASSUME NEW t \in Runners, Leave(t) PROVE Waits(x)
  BY <1>22 DEF Leave
<1>23. ASSUME NEW t \in Runners, NEW w \in Workers, RunRead(t, w) PROVE Waits(x)
  BY <1>23 DEF RunRead
<1>24. ASSUME NEW t \in Runners, NEW w \in Workers, RunWritten(t, w)
      PROVE Waits(x)
  BY <1>24 DEF RunWritten
<1>25. ASSUME NEW w \in Workers, ReadParse(w) PROVE Waits(x)
  BY <1>25 DEF ReadParse
<1>26. ASSUME NEW w \in Workers, ReadSome(w) PROVE Waits(x)
  BY <1>26 DEF ReadSome
<1>27. ASSUME NEW w \in Workers, ReadFails(w) PROVE Waits(x)
  BY <1>27 DEF ReadFails
<1>28. ASSUME NEW w \in Workers, WriteSucceeds(w) PROVE Waits(x)
  BY <1>28 DEF WriteSucceeds
<1>29. ASSUME NEW w \in Workers, WriteFails(w) PROVE Waits(x)
  BY <1>29 DEF WriteFails
<1>30. ASSUME NEW c \in Conns, Connect(c) PROVE Waits(x)
  BY <1>30 DEF Connect
<1>31. ASSUME NEW c \in Conns, NEW e \in Ends, Send(c, e) PROVE Waits(x)
  BY <1>31 DEF Send
<1>32. CASE UNCHANGED vars
  BY <1>32
<1>33. QED
  BY <1>1, <1>2, <1>3, <1>4, <1>5, <1>6, <1>7, <1>8, <1>9, <1>10, <1>11,
     <1>12, <1>13, <1>14, <1>15, <1>16, <1>17, <1>18, <1>19, <1>20,
     <1>21, <1>22, <1>23, <1>24, <1>25, <1>26, <1>27, <1>28, <1>29,
     <1>30, <1>31, <1>32
     DEF Next, Pick, Step, Stream, Client

\* reset() renews the parser before the next connection meets it.
LEMMA FreshStep ==
    ASSUME SInv, PiecesInv, [Next]_vars
    PROVE  (StopsLast /\ ParserFresh)'
<1> USE BeastAssumption DEF Workers, Runners, Goto, InRun,
        vars, threadVars, acceptVars, workerVars, ioVars, clientVars
<1>0. /\ pc \in [Runners -> Labels]
      /\ hnd \in [Runners -> Workers \cup {NoWorker}]
      /\ stream \in [Workers -> Conns \cup {NoConn}]
      /\ op \in [Workers -> {"none", "reading", "read_ok", "read_err",
                           "writing", "written"}]
      /\ parser \in [Workers -> Seq(Piece)]
      /\ worker \in Workers
      /\ OneAcceptHandler
      /\ ReservedWorkerIdle
      /\ HandlerOwnsStream
      /\ StopsLast
      /\ ParserFresh
  BY DEF SInv, IInv, TypeOK, PiecesInv
<1> USE <1>0 DEF StopsLast, ParserFresh
<1>c. ~Complete(<<>>)
  BY DEF Complete
<1>t. TypeOK /\ TypeOK'
  BY TypeStep DEF SInv, IInv
<1>1. ASSUME Boot PROVE (StopsLast /\ ParserFresh)'
  <2>1. UNCHANGED <<stream, parser>>
    BY <1>1 DEF Boot
  <2>2. \A v \in Workers : op'[v] = "reading" => op[v] = "reading"
    BY <1>1 DEF Boot
  <2>3. \A u \in Runners : pc'[u] \in {"spin", "start", "disengage"} =>
          pc[u] \in {"spin", "start", "disengage"} /\ hnd'[u] = hnd[u]
    BY <1>1 DEF Boot
  <2>4. StopsLast'
    BY <1>1 DEF Boot
  <2>5. QED
    BY <2>1, <2>2, <2>3, <2>4
<1>2. ASSUME Accept PROVE (StopsLast /\ ParserFresh)'
  <2>1. UNCHANGED <<stream, parser>>
    BY <1>2 DEF Accept
  <2>2. \A v \in Workers : op'[v] = "reading" => op[v] = "reading"
    BY <1>2 DEF Accept
  <2>3. \A u \in Runners : pc'[u] \in {"spin", "start", "disengage"} =>
          pc[u] \in {"spin", "start", "disengage"} /\ hnd'[u] = hnd[u]
    BY <1>2 DEF Accept
  <2>4. StopsLast'
    BY <1>2 DEF Accept
  <2>5. QED
    BY <2>1, <2>2, <2>3, <2>4
<1>3. ASSUME Signal PROVE (StopsLast /\ ParserFresh)'
  <2>1. UNCHANGED <<stream, parser>>
    BY <1>3 DEF Signal
  <2>2. \A v \in Workers : op'[v] = "reading" => op[v] = "reading"
    BY <1>3 DEF Signal
  <2>3. \A u \in Runners : pc'[u] \in {"spin", "start", "disengage"} =>
          pc[u] \in {"spin", "start", "disengage"} /\ hnd'[u] = hnd[u]
    BY <1>3 DEF Signal
  <2>4. StopsLast'
    BY <1>3 DEF Signal
  <2>5. QED
    BY <2>1, <2>2, <2>3, <2>4
<1>4. ASSUME Terminated PROVE (StopsLast /\ ParserFresh)'
  <2>1. UNCHANGED <<stream, parser>>
    BY <1>4 DEF Terminated
  <2>2. \A v \in Workers : op'[v] = "reading" => op[v] = "reading"
    BY <1>4 DEF Terminated
  <2>3. \A u \in Runners : pc'[u] \in {"spin", "start", "disengage"} =>
          pc[u] \in {"spin", "start", "disengage"} /\ hnd'[u] = hnd[u]
    BY <1>4 DEF Terminated
  <2>4. StopsLast'
    BY <1>4 DEF Terminated
  <2>5. QED
    BY <2>1, <2>2, <2>3, <2>4
<1>5. ASSUME NEW t \in Runners, RunPosted(t) PROVE (StopsLast /\ ParserFresh)'
  <2>1. UNCHANGED <<stream, parser>>
    BY <1>5 DEF RunPosted
  <2>2. \A v \in Workers : op'[v] = "reading" => op[v] = "reading"
    BY <1>5 DEF RunPosted
  <2>3. \A u \in Runners : pc'[u] \in {"spin", "start", "disengage"} =>
          pc[u] \in {"spin", "start", "disengage"} /\ hnd'[u] = hnd[u]
    BY <1>5 DEF RunPosted
  <2>4. StopsLast'
    BY <1>5 DEF RunPosted
  <2>5. QED
    BY <2>1, <2>2, <2>3, <2>4
<1>6. ASSUME NEW t \in Runners, RunAccept(t) PROVE (StopsLast /\ ParserFresh)'
  <2>1. UNCHANGED <<stream, parser>>
    BY <1>6 DEF RunAccept
  <2>2. \A v \in Workers : op'[v] = "reading" => op[v] = "reading"
    BY <1>6 DEF RunAccept
  <2>3. \A u \in Runners : pc'[u] \in {"spin", "start", "disengage"} =>
          pc[u] \in {"spin", "start", "disengage"} /\ hnd'[u] = hnd[u]
    BY <1>6 DEF RunAccept
  <2>4. StopsLast'
    BY <1>6 DEF RunAccept
  <2>5. QED
    BY <2>1, <2>2, <2>3, <2>4
<1>7. ASSUME NEW t \in Runners, RunSignal(t) PROVE (StopsLast /\ ParserFresh)'
  <2>1. UNCHANGED <<stream, parser>>
    BY <1>7 DEF RunSignal
  <2>2. \A v \in Workers : op'[v] = "reading" => op[v] = "reading"
    BY <1>7 DEF RunSignal
  <2>3. \A u \in Runners : pc'[u] \in {"spin", "start", "disengage"} =>
          pc[u] \in {"spin", "start", "disengage"} /\ hnd'[u] = hnd[u]
    BY <1>7 DEF RunSignal
  <2>4. StopsLast'
    BY <1>7 DEF RunSignal
  <2>5. QED
    BY <2>1, <2>2, <2>3, <2>4
<1>8. ASSUME NEW t \in Runners, async_accept(t)
      PROVE (StopsLast /\ ParserFresh)'
  <2>1. UNCHANGED <<stream, parser>>
    BY <1>8 DEF async_accept
  <2>2. \A v \in Workers : op'[v] = "reading" => op[v] = "reading"
    BY <1>8 DEF async_accept
  <2>3. \A u \in Runners : pc'[u] \in {"spin", "start", "disengage"} =>
          pc[u] \in {"spin", "start", "disengage"} /\ hnd'[u] = hnd[u]
    BY <1>8 DEF async_accept
  <2>4. StopsLast'
    BY <1>8 DEF async_accept
  <2>5. QED
    BY <2>1, <2>2, <2>3, <2>4
<1>9. ASSUME NEW t \in Runners, start_work(t)
      PROVE (StopsLast /\ ParserFresh)'
  <2>1. stream[worker] = NoConn
    BY <1>9 DEF start_work, ReservedWorkerIdle, is_idle, OneAcceptHandler, Accepting
  <2>2. /\ parser[worker] = <<>> /\ UNCHANGED <<op, parser>>
        /\ \A v \in Workers : v # worker => stream'[v] = stream[v]
    BY <1>9, <2>1 DEF start_work
  <2>3. \A u \in Runners : pc'[u] \in {"spin", "start", "disengage"} =>
          \/ hnd'[u] = worker
          \/ pc[u] \in {"spin", "start", "disengage"} /\ hnd'[u] = hnd[u]
    BY <1>9 DEF start_work
  <2>4. StopsLast'
    BY <1>9 DEF start_work
  <2>5. \A v \in Workers : stream'[v] = NoConn => parser[v] = <<>>
    BY <2>2
  <2>6. QED
    BY <2>2, <2>3, <2>4, <2>5
<1>10. ASSUME NEW t \in Runners, StartWorkThrows(t)
      PROVE (StopsLast /\ ParserFresh)'
  <2>1. UNCHANGED <<stream, parser>>
    BY <1>10 DEF StartWorkThrows
  <2>2. \A v \in Workers : op'[v] = "reading" => op[v] = "reading"
    BY <1>10 DEF StartWorkThrows
  <2>3. \A u \in Runners : pc'[u] \in {"spin", "start", "disengage"} =>
          pc[u] \in {"spin", "start", "disengage"} /\ hnd'[u] = hnd[u]
    BY <1>10 DEF StartWorkThrows
  <2>4. StopsLast'
    BY <1>10 DEF StartWorkThrows
  <2>5. QED
    BY <2>1, <2>2, <2>3, <2>4
<1>11. ASSUME NEW t \in Runners, next_worker(t)
      PROVE (StopsLast /\ ParserFresh)'
  <2>1. UNCHANGED <<stream, parser>>
    BY <1>11 DEF next_worker, Successor, is_idle
  <2>2. \A v \in Workers : op'[v] = "reading" => op[v] = "reading"
    BY <1>11 DEF next_worker, Successor, is_idle
  <2>3. \A u \in Runners : pc'[u] \in {"spin", "start", "disengage"} =>
          pc[u] \in {"spin", "start", "disengage"} /\ hnd'[u] = hnd[u]
    BY <1>11 DEF next_worker, Successor, is_idle
  <2>4. StopsLast'
    BY <1>11 DEF next_worker, Successor, is_idle
  <2>5. QED
    BY <2>1, <2>2, <2>3, <2>4
<1>12. ASSUME NEW t \in Runners, start(t) PROVE (StopsLast /\ ParserFresh)'
  <2>1. hnd[t] \in Workers /\ parser[hnd[t]] = <<>>
    BY <1>12 DEF start, HandlerOwnsStream, Serving
  <2>2. /\ UNCHANGED <<stream, parser>>
        /\ \A v \in Workers : op'[v] = "reading" => op[v] = "reading" \/ v = hnd[t]
    BY <1>12 DEF start
  <2>3. \A u \in Runners : pc'[u] \in {"spin", "start", "disengage"} =>
          pc[u] \in {"spin", "start", "disengage"} /\ hnd'[u] = hnd[u]
    BY <1>12 DEF start
  <2>4. StopsLast'
    BY <1>12 DEF start
  <2>5. \A v \in Workers : op'[v] = "reading" => ~Complete(parser[v])
    <3> HIDE DEF Workers
    <3>1. \A v \in Workers : v = hnd[t] => ~Complete(parser[v])
      BY <1>c, <2>1
    <3>2. QED
      BY <2>2, <3>1
  <2>6. QED
    BY <2>2, <2>3, <2>4, <2>5
<1>13. ASSUME NEW t \in Runners, call_app(t) PROVE (StopsLast /\ ParserFresh)'
  <2>1. UNCHANGED <<stream, parser>>
    BY <1>13 DEF call_app
  <2>2. \A v \in Workers : op'[v] = "reading" => op[v] = "reading"
    BY <1>13 DEF call_app
  <2>3. \A u \in Runners : pc'[u] \in {"spin", "start", "disengage"} =>
          pc[u] \in {"spin", "start", "disengage"} /\ hnd'[u] = hnd[u]
    BY <1>13 DEF call_app
  <2>4. StopsLast'
    BY <1>13 DEF call_app
  <2>5. QED
    BY <2>1, <2>2, <2>3, <2>4
<1>14. ASSUME NEW t \in Runners, AppReturns(t)
      PROVE (StopsLast /\ ParserFresh)'
  <2>1. UNCHANGED <<stream, parser>>
    BY <1>14 DEF AppReturns
  <2>2. \A v \in Workers : op'[v] = "reading" => op[v] = "reading"
    BY <1>14 DEF AppReturns
  <2>3. \A u \in Runners : pc'[u] \in {"spin", "start", "disengage"} =>
          pc[u] \in {"spin", "start", "disengage"} /\ hnd'[u] = hnd[u]
    BY <1>14 DEF AppReturns
  <2>4. StopsLast'
    BY <1>14 DEF AppReturns
  <2>5. QED
    BY <2>1, <2>2, <2>3, <2>4
<1>15. ASSUME NEW t \in Runners, async_write_response(t)
      PROVE (StopsLast /\ ParserFresh)'
  <2>1. UNCHANGED <<stream, parser>>
    BY <1>15 DEF async_write_response
  <2>2. \A v \in Workers : op'[v] = "reading" => op[v] = "reading"
    BY <1>15 DEF async_write_response
  <2>3. \A u \in Runners : pc'[u] \in {"spin", "start", "disengage"} =>
          pc[u] \in {"spin", "start", "disengage"} /\ hnd'[u] = hnd[u]
    BY <1>15 DEF async_write_response
  <2>4. StopsLast'
    BY <1>15 DEF async_write_response
  <2>5. QED
    BY <2>1, <2>2, <2>3, <2>4
<1>16. ASSUME NEW t \in Runners, reset(t) PROVE (StopsLast /\ ParserFresh)'
  <2>1. hnd[t] \in Workers /\ parser' = [parser EXCEPT ![hnd[t]] = <<>>]
    BY <1>16 DEF reset, HandlerOwnsStream, Serving
  <2>2. UNCHANGED <<stream, op, hnd>> /\ parser'[hnd[t]] = <<>>
    BY <1>16, <2>1 DEF reset
  <2>3. \A v \in Workers : parser'[v] = parser[v] \/ parser'[v] = <<>>
    BY <2>1
  <2>4. \A u \in Runners : pc'[u] \in {"spin", "start", "disengage"} =>
          hnd[u] \in Workers /\ (u = t \/ pc[u] \in {"spin", "start", "disengage"})
    BY <1>16 DEF reset, HandlerOwnsStream, Serving
  <2>5. StopsLast'
    BY <1>16 DEF reset
  <2>6. \A u \in Runners : pc'[u] \in {"spin", "start", "disengage"} => parser'[hnd[u]] = <<>>
    BY <2>2, <2>3, <2>4
  <2>7. QED
    BY <1>c, <2>2, <2>3, <2>5, <2>6
<1>17. ASSUME NEW t \in Runners, Disengage(t)
      PROVE (StopsLast /\ ParserFresh)'
  <2>1. parser[hnd[t]] = <<>> /\ UNCHANGED <<parser, op, hnd>>
    BY <1>17 DEF Disengage
  <2>2. \A v \in Workers : stream'[v] = NoConn => stream[v] = NoConn \/ v = hnd[t]
    BY <1>17 DEF Disengage
  <2>3. \A u \in Runners : pc'[u] \in {"spin", "start", "disengage"} =>
          pc[u] \in {"spin", "start", "disengage"}
    BY <1>17 DEF Disengage
  <2>4. StopsLast'
    BY <1>17 DEF Disengage
  <2>5. QED
    BY <2>1, <2>2, <2>3, <2>4
<1>18. ASSUME NEW t \in Runners, Destroy(t) PROVE (StopsLast /\ ParserFresh)'
  <2>1. UNCHANGED <<stream, parser>>
    BY <1>18 DEF Destroy
  <2>2. \A v \in Workers : op'[v] = "reading" => op[v] = "reading"
    BY <1>18 DEF Destroy
  <2>3. \A u \in Runners : pc'[u] \in {"spin", "start", "disengage"} =>
          pc[u] \in {"spin", "start", "disengage"} /\ hnd'[u] = hnd[u]
    BY <1>18 DEF Destroy
  <2>4. StopsLast'
    BY <1>18 DEF Destroy
  <2>5. QED
    BY <2>1, <2>2, <2>3, <2>4
<1>19. ASSUME NEW t \in Runners, StopIo(t) PROVE (StopsLast /\ ParserFresh)'
  <2>1. UNCHANGED <<stream, parser>>
    BY <1>19 DEF StopIo
  <2>2. \A v \in Workers : op'[v] = "reading" => op[v] = "reading"
    BY <1>19 DEF StopIo
  <2>3. \A u \in Runners : pc'[u] \in {"spin", "start", "disengage"} =>
          pc[u] \in {"spin", "start", "disengage"} /\ hnd'[u] = hnd[u]
    BY <1>19 DEF StopIo
  <2>4. StopsLast'
    BY <1>19 DEF StopIo
  <2>5. QED
    BY <2>1, <2>2, <2>3, <2>4
<1>20. ASSUME NEW t \in Runners, StopTest(t) PROVE (StopsLast /\ ParserFresh)'
  <2>1. UNCHANGED <<stream, parser>>
    BY <1>20 DEF StopTest, NextStop, is_idle
  <2>2. \A v \in Workers : op'[v] = "reading" => op[v] = "reading"
    BY <1>20 DEF StopTest, NextStop, is_idle
  <2>3. \A u \in Runners : pc'[u] \in {"spin", "start", "disengage"} =>
          pc[u] \in {"spin", "start", "disengage"} /\ hnd'[u] = hnd[u]
    BY <1>20 DEF StopTest, NextStop, is_idle
  <2>4. StopsLast'
    BY <1>20 DEF StopTest, NextStop, is_idle
  <2>5. QED
    BY <2>1, <2>2, <2>3, <2>4
<1>21. ASSUME NEW t \in Runners, StopCancel(t)
      PROVE (StopsLast /\ ParserFresh)'
  <2>1. UNCHANGED <<stream, parser>>
    BY <1>21 DEF StopCancel, NextStop
  <2>2. \A v \in Workers : op'[v] = "reading" => op[v] = "reading"
    BY <1>21 DEF StopCancel, NextStop
  <2>3. \A u \in Runners : pc'[u] \in {"spin", "start", "disengage"} =>
          pc[u] \in {"spin", "start", "disengage"} /\ hnd'[u] = hnd[u]
    BY <1>21 DEF StopCancel, NextStop
  <2>4. StopsLast'
    BY <1>21 DEF StopCancel, NextStop
  <2>5. QED
    BY <2>1, <2>2, <2>3, <2>4
<1>22. ASSUME NEW t \in Runners, Leave(t) PROVE (StopsLast /\ ParserFresh)'
  <2>1. UNCHANGED <<stream, parser>>
    BY <1>22 DEF Leave
  <2>2. \A v \in Workers : op'[v] = "reading" => op[v] = "reading"
    BY <1>22 DEF Leave
  <2>3. \A u \in Runners : pc'[u] \in {"spin", "start", "disengage"} =>
          pc[u] \in {"spin", "start", "disengage"} /\ hnd'[u] = hnd[u]
    BY <1>22 DEF Leave
  <2>4. StopsLast'
    BY <1>22 DEF Leave
  <2>5. QED
    BY <2>1, <2>2, <2>3, <2>4
<1>23. ASSUME NEW t \in Runners, NEW w \in Workers, RunRead(t, w)
      PROVE (StopsLast /\ ParserFresh)'
  <2>1. UNCHANGED <<stream, parser>>
    BY <1>23 DEF RunRead
  <2>2. \A v \in Workers : op'[v] = "reading" => op[v] = "reading"
    BY <1>23 DEF RunRead
  <2>3. \A u \in Runners : pc'[u] \in {"spin", "start", "disengage"} =>
          pc[u] \in {"spin", "start", "disengage"} /\ hnd'[u] = hnd[u]
    BY <1>23 DEF RunRead
  <2>4. StopsLast'
    BY <1>23 DEF RunRead
  <2>5. QED
    BY <2>1, <2>2, <2>3, <2>4
<1>24. ASSUME NEW t \in Runners, NEW w \in Workers, RunWritten(t, w)
      PROVE (StopsLast /\ ParserFresh)'
  <2>1. UNCHANGED <<stream, parser>>
    BY <1>24 DEF RunWritten
  <2>2. \A v \in Workers : op'[v] = "reading" => op[v] = "reading"
    BY <1>24 DEF RunWritten
  <2>3. \A u \in Runners : pc'[u] \in {"spin", "start", "disengage"} =>
          pc[u] \in {"spin", "start", "disengage"} /\ hnd'[u] = hnd[u]
    BY <1>24 DEF RunWritten
  <2>4. StopsLast'
    BY <1>24 DEF RunWritten
  <2>5. QED
    BY <2>1, <2>2, <2>3, <2>4
<1>25. ASSUME NEW w \in Workers, ReadParse(w)
      PROVE (StopsLast /\ ParserFresh)'
  <2>1. /\ op[w] = "reading" /\ stream[w] # NoConn
        /\ \A u \in Runners : Serving(u) => hnd[u] \in Workers /\ hnd[u] # w
    BY <1>25 DEF ReadParse, HandlerOwnsStream
  <2>2. /\ UNCHANGED <<stream, pc, hnd, stopped>>
        /\ \A v \in Workers \ {w} : parser'[v] = parser[v] /\ op'[v] = op[v]
    BY <1>25 DEF ReadParse
  <2>3. op'[w] = "reading" => ~Complete(parser'[w])
    BY <1>25 DEF ReadParse
  <2>4. \A u \in Runners : pc[u] \in {"spin", "start", "disengage"} => Serving(u)
    BY DEF Serving
  <2>5. QED
    BY <2>1, <2>2, <2>3, <2>4
<1>26. ASSUME NEW w \in Workers, ReadSome(w) PROVE (StopsLast /\ ParserFresh)'
  <2>1. /\ op[w] = "reading" /\ stream[w] # NoConn
        /\ \A u \in Runners : Serving(u) => hnd[u] \in Workers /\ hnd[u] # w
    BY <1>26 DEF ReadSome, HandlerOwnsStream
  <2>2. /\ UNCHANGED <<stream, pc, hnd, stopped>>
        /\ \A v \in Workers \ {w} : parser'[v] = parser[v] /\ op'[v] = op[v]
    BY <1>26 DEF ReadSome
  <2>3. op'[w] = "reading" => ~Complete(parser'[w])
    BY <1>26, <1>t, Fed
  <2>4. \A u \in Runners : pc[u] \in {"spin", "start", "disengage"} => Serving(u)
    BY DEF Serving
  <2>5. QED
    BY <2>1, <2>2, <2>3, <2>4
<1>27. ASSUME NEW w \in Workers, ReadFails(w)
      PROVE (StopsLast /\ ParserFresh)'
  <2>1. UNCHANGED <<stream, parser>>
    BY <1>27 DEF ReadFails
  <2>2. \A v \in Workers : op'[v] = "reading" => op[v] = "reading"
    BY <1>27 DEF ReadFails
  <2>3. \A u \in Runners : pc'[u] \in {"spin", "start", "disengage"} =>
          pc[u] \in {"spin", "start", "disengage"} /\ hnd'[u] = hnd[u]
    BY <1>27 DEF ReadFails
  <2>4. StopsLast'
    BY <1>27 DEF ReadFails
  <2>5. QED
    BY <2>1, <2>2, <2>3, <2>4
<1>28. ASSUME NEW w \in Workers, WriteSucceeds(w)
      PROVE (StopsLast /\ ParserFresh)'
  <2>1. UNCHANGED <<stream, parser>>
    BY <1>28 DEF WriteSucceeds
  <2>2. \A v \in Workers : op'[v] = "reading" => op[v] = "reading"
    BY <1>28 DEF WriteSucceeds
  <2>3. \A u \in Runners : pc'[u] \in {"spin", "start", "disengage"} =>
          pc[u] \in {"spin", "start", "disengage"} /\ hnd'[u] = hnd[u]
    BY <1>28 DEF WriteSucceeds
  <2>4. StopsLast'
    BY <1>28 DEF WriteSucceeds
  <2>5. QED
    BY <2>1, <2>2, <2>3, <2>4
<1>29. ASSUME NEW w \in Workers, WriteFails(w)
      PROVE (StopsLast /\ ParserFresh)'
  <2>1. UNCHANGED <<stream, parser>>
    BY <1>29 DEF WriteFails
  <2>2. \A v \in Workers : op'[v] = "reading" => op[v] = "reading"
    BY <1>29 DEF WriteFails
  <2>3. \A u \in Runners : pc'[u] \in {"spin", "start", "disengage"} =>
          pc[u] \in {"spin", "start", "disengage"} /\ hnd'[u] = hnd[u]
    BY <1>29 DEF WriteFails
  <2>4. StopsLast'
    BY <1>29 DEF WriteFails
  <2>5. QED
    BY <2>1, <2>2, <2>3, <2>4
<1>30. ASSUME NEW c \in Conns, Connect(c) PROVE (StopsLast /\ ParserFresh)'
  <2>1. UNCHANGED <<stream, parser>>
    BY <1>30 DEF Connect
  <2>2. \A v \in Workers : op'[v] = "reading" => op[v] = "reading"
    BY <1>30 DEF Connect
  <2>3. \A u \in Runners : pc'[u] \in {"spin", "start", "disengage"} =>
          pc[u] \in {"spin", "start", "disengage"} /\ hnd'[u] = hnd[u]
    BY <1>30 DEF Connect
  <2>4. StopsLast'
    BY <1>30 DEF Connect
  <2>5. QED
    BY <2>1, <2>2, <2>3, <2>4
<1>31. ASSUME NEW c \in Conns, NEW e \in Ends, Send(c, e)
      PROVE (StopsLast /\ ParserFresh)'
  <2>1. UNCHANGED <<stream, parser>>
    BY <1>31 DEF Send
  <2>2. \A v \in Workers : op'[v] = "reading" => op[v] = "reading"
    BY <1>31 DEF Send
  <2>3. \A u \in Runners : pc'[u] \in {"spin", "start", "disengage"} =>
          pc[u] \in {"spin", "start", "disengage"} /\ hnd'[u] = hnd[u]
    BY <1>31 DEF Send
  <2>4. StopsLast'
    BY <1>31 DEF Send
  <2>5. QED
    BY <2>1, <2>2, <2>3, <2>4
<1>32. CASE UNCHANGED vars
  BY <1>32
<1>33. QED
  BY <1>1, <1>2, <1>3, <1>4, <1>5, <1>6, <1>7, <1>8, <1>9, <1>10, <1>11,
     <1>12, <1>13, <1>14, <1>15, <1>16, <1>17, <1>18, <1>19, <1>20,
     <1>21, <1>22, <1>23, <1>24, <1>25, <1>26, <1>27, <1>28, <1>29,
     <1>30, <1>31, <1>32
     DEF Next, Pick, Step, Stream, Client

\* Nobody takes back what was sent.
LEMMA SentGrows ==
    ASSUME SInv, [Next]_vars, NEW c \in Conns
    PROVE  nsent[c] \in Nat /\ nsent'[c] \in Nat /\ nsent'[c] >= nsent[c]
<1>1. nsent \in [Conns -> Nat]
  BY DEF SInv, IInv, TypeOK
<1>2. UNCHANGED nsent \/ \E d \in Conns : nsent' = [nsent EXCEPT ![d] = @ + 1]
  BY PieceMoves DEF Moves, Quiet, start_work, reset, Disengage, ReadParse, ReadSome,
                    Send, clientVars
<1>3. QED
  BY <1>1, <1>2

\* A worker changes its connection between two requests only, with a fresh
\* parser, and its buffer by reading only.
LEMMA WorkerSteps ==
    ASSUME SInv, PiecesInv, [Next]_vars, NEW w \in Workers
    PROVE  /\ \/ stream'[w] = stream[w]
              \/ /\ stream'[w] = NoConn \/ stream'[w] = accConn
                 /\ op[w] = "none" /\ parser[w] = <<>>
           /\ \/ ReadSome(w)
              \/ ReadParse(w)
              \/ buf'[w] = buf[w] /\ (parser'[w] = parser[w] \/ parser'[w] = <<>>)
<1> DEFINE A == \/ stream'[w] = stream[w]
                \/ /\ stream'[w] = NoConn \/ stream'[w] = accConn
                   /\ op[w] = "none" /\ parser[w] = <<>>
           B == \/ ReadSome(w)
                \/ ReadParse(w)
                \/ buf'[w] = buf[w] /\ (parser'[w] = parser[w] \/ parser'[w] = <<>>)
<1>0. /\ stream \in [Workers -> Conns \cup {NoConn}]
      /\ parser \in [Workers -> Seq(Piece)]
      /\ buf \in [Workers -> Seq(Piece)]
      /\ HandlerOwnsStream
      /\ ParserFresh
  BY DEF SInv, IInv, TypeOK, PiecesInv
<1> USE DEF workerVars
<1>1. CASE Quiet
  BY <1>1 DEF Quiet
<1>2. ASSUME NEW t \in Runners, start_work(t) PROVE A /\ B
  <2>1. stream[worker] = NoConn
    BY <1>2 DEF start_work, SInv, IInv, ReservedWorkerIdle, is_idle, OneAcceptHandler, Accepting
  <2>2. /\ stream' = [stream EXCEPT ![worker] = accConn]
        /\ UNCHANGED <<buf, parser>>
    BY <1>2 DEF start_work
  <2>3. w = worker => op[w] = "none" /\ parser[w] = <<>>
    BY <1>0, <2>1 DEF HandlerOwnsStream, ParserFresh
  <2>4. stream'[w] = stream[w] \/ (w = worker /\ stream'[w] = accConn)
    BY <1>0, <2>2
  <2>5. QED
    BY <2>2, <2>3, <2>4
<1>3. ASSUME NEW t \in Runners, reset(t) PROVE A /\ B
  <2>1. UNCHANGED <<stream, buf>> /\ parser' = [parser EXCEPT ![hnd[t]] = <<>>]
    BY <1>3 DEF reset
  <2>2. parser'[w] = parser[w] \/ parser'[w] = <<>>
    BY <1>0, <2>1
  <2>3. QED
    BY <2>1, <2>2
<1>4. ASSUME NEW t \in Runners, Disengage(t) PROVE A /\ B
  <2>1. /\ stream' = [stream EXCEPT ![hnd[t]] = NoConn]
        /\ UNCHANGED <<buf, parser>>
    BY <1>4 DEF Disengage
  <2>2. op[hnd[t]] = "none" /\ parser[hnd[t]] = <<>>
    BY <1>0, <1>4 DEF Disengage, HandlerOwnsStream, Serving, ParserFresh
  <2>3. stream'[w] = stream[w] \/ (w = hnd[t] /\ stream'[w] = NoConn)
    BY <1>0, <2>1
  <2>4. QED
    BY <2>1, <2>2, <2>3
<1>5. ASSUME NEW v \in Workers, ReadParse(v) PROVE A /\ B
  <2>1. /\ UNCHANGED stream
        /\ v # w => buf'[w] = buf[w] /\ parser'[w] = parser[w]
    BY <1>0, <1>5 DEF ReadParse
  <2>2. QED
    BY <1>5, <2>1
<1>6. ASSUME NEW v \in Workers, ReadSome(v) PROVE A /\ B
  <2>1. /\ UNCHANGED stream
        /\ v # w => buf'[w] = buf[w] /\ parser'[w] = parser[w]
    BY <1>0, <1>6 DEF ReadSome
  <2>2. QED
    BY <1>6, <2>1
<1>7. ASSUME NEW c \in Conns, NEW e \in Ends, Send(c, e) PROVE A /\ B
  BY <1>7 DEF Send
<1> HIDE DEF A, B
<1>8. A /\ B
  BY <1>1, <1>2, <1>3, <1>4, <1>5, <1>6, <1>7, PieceMoves DEF Moves, A, B, Quiet
<1>9. QED
  BY <1>8 DEF A, B

\* A step that does not read from the socket leaves what a worker holds, or
\* drops a part in front.
LEMMA PiecesStay ==
    ASSUME SInv, PiecesInv, [Next]_vars, NEW w \in Workers, ~ReadSome(w)
    PROVE  \E d \in 0 .. Len(All(w)) :
             /\ Len(All(w)') + d = Len(All(w))
             /\ \A i \in 1 .. Len(All(w)') : All(w)'[i] = All(w)[d + i]
<1>1. TypeOK /\ TypeOK'
  BY TypeStep DEF SInv, IInv
<1>2. Len(parser[w]) \in Nat /\ Len(buf[w]) \in Nat /\ Len(All(w)) \in Nat
  BY <1>1, Held
<1>3. CASE ReadParse(w)
  <2>1. /\ Len(All(w)') = Len(All(w))
        /\ \A i \in 1 .. Len(All(w)) : All(w)'[i] = All(w)[i]
    BY <1>1, <1>3, Parsed DEF PiecesInv
  <2> DEFINE la == Len(All(w))
             ln == Len(All(w)')
  <2>2. la \in Nat /\ ln = la
    BY <1>2, <2>1
  <2>3. \A i \in 1 .. ln : All(w)'[i] = All(w)[0 + i]
    BY <1>2, <2>1
  <2> HIDE DEF la, ln
  <2>4. ln + 0 = la /\ 0 \in 0 .. la
    BY <2>2
  <2>5. QED
    BY <2>3, <2>4 DEF la, ln
<1>4. CASE buf'[w] = buf[w] /\ parser'[w] = parser[w]
  <2>1. All(w)' = All(w)
    BY <1>4 DEF All
  <2>2. Len(All(w)') + 0 = Len(All(w)) /\ 0 \in 0 .. Len(All(w))
    BY <1>2, <2>1
  <2>3. \A i \in 1 .. Len(All(w)') : All(w)'[i] = All(w)[0 + i]
    BY <1>2, <2>1
  <2>4. QED
    BY <2>2, <2>3
<1>5. CASE buf'[w] = buf[w] /\ parser'[w] = <<>>
  <2> DEFINE lp == Len(parser[w])
             lb == Len(buf[w])
             la == Len(All(w))
             ln == Len(All(w)')
  <2>1. /\ 0 + lb = ln
        /\ \A i \in 1 .. lb : All(w)'[0 + i] = buf[w][i]
    <3>1. Len(parser'[w]) = 0 /\ Len(buf'[w]) = lb
      BY <1>5
    <3>2. /\ Len(parser'[w]) + Len(buf'[w]) = ln
          /\ \A i \in 1 .. Len(buf'[w]) : All(w)'[Len(parser'[w]) + i] = buf'[w][i]
      BY <1>1, HeldThen
    <3>3. QED
      BY <1>5, <3>1, <3>2
  <2>2. \A i \in 1 .. lb : All(w)[lp + i] = buf[w][i]
    BY <1>1, Held
  <2>3. lp \in Nat /\ lb \in Nat /\ lp + lb = la
    BY <1>1, Held
  <2> HIDE DEF lp, lb, la, ln
  <2>4. ln + lp = la /\ lp \in 0 .. la /\ ln = lb
    BY <2>1, <2>3
  <2>5. \A i \in 1 .. ln : All(w)'[i] = All(w)[lp + i]
    BY <2>1, <2>2, <2>3, <2>4
  <2>6. QED
    BY <2>4, <2>5 DEF la, ln
<1>6. QED
  BY <1>3, <1>4, <1>5, WorkerSteps

\* A read takes pieces of the worker's own connection, which nobody shares.
LEMMA Own ==
    ASSUME SInv, InboxOwn, NEW w \in Workers, ReadSome(w)
    PROVE  /\ stream[w] \in Conns /\ Taken(stream[w])
           /\ Len(inbox[stream[w]]) \in Nat
           /\ \A i \in 1 .. Len(inbox[stream[w]]) : inbox[stream[w]][i].from = stream[w]
           /\ \A v \in Workers \ {w} : stream[v] # stream[w]
           /\ UNCHANGED <<stream, op, nsent>>
<1>1. stream[w] # NoConn
  BY DEF ReadSome, SInv, IInv, HandlerOwnsStream
<1>2. stream[w] \in Conns /\ Taken(stream[w])
  BY <1>1, StreamsTaken
<1>3. \A v \in Workers \ {w} : stream[v] # stream[w]
  BY <1>1 DEF SInv, OpenSocketsOwned
<1>4. Len(inbox[stream[w]]) \in Nat
  BY <1>2, LenProperties DEF SInv, IInv, TypeOK
<1>5. UNCHANGED <<stream, op, nsent>>
  BY DEF ReadSome
<1>6. QED
  BY <1>2, <1>3, <1>4, <1>5 DEF InboxOwn

\* What a client sends arrives on its own connection; reading takes it away.
LEMMA InboxStep ==
    ASSUME SInv, PiecesInv, [Next]_vars
    PROVE  (InboxOwn /\ ParserFed)'
<1>0. /\ inbox \in [Conns -> Seq(Piece)]
      /\ nsent \in [Conns -> Nat]
      /\ stream \in [Workers -> Conns \cup {NoConn}]
      /\ op \in [Workers -> {"none", "reading", "read_ok", "read_err",
                             "writing", "written"}]
      /\ HandlerOwnsStream
      /\ InboxOwn
      /\ ParserFed
  BY DEF SInv, IInv, TypeOK, PiecesInv
<1>1. TypeOK /\ TypeOK'
  BY TypeStep DEF SInv, IInv
<1>2. ASSUME UNCHANGED <<inbox, nsent>> PROVE (InboxOwn /\ ParserFed)'
  <2>1. InboxOwn'
    BY <1>0, <1>2 DEF InboxOwn
  <2>2. ASSUME NEW w \in Workers, op'[w] = "reading", parser'[w] # <<>>
        PROVE  Len(inbox'[stream'[w]]) < nsent'[stream'[w]]
    <3>1. op[w] = "reading" \/ parser[w] = <<>>
      BY <2>2, WaitSteps DEF Waits
    <3>2. CASE ReadSome(w)
      <4>1. PICK k \in 1 .. Len(inbox[stream[w]]) :
              Len(inbox'[stream[w]]) = Len(inbox[stream[w]]) - k
        BY <1>0, <1>1, <3>2, Fed
      <4>2. Len(inbox[stream[w]]) \in Nat
        BY <1>0, <3>2, Own
      <4>3. Len(inbox'[stream[w]]) = Len(inbox[stream[w]])
        BY <1>2
      <4> HIDE DEF InboxOwn
      <4>4. FALSE
        BY <4>1, <4>2, <4>3
      <4>5. QED
        BY <4>4
    <3>3. CASE ReadParse(w)
      BY <1>0, <2>2, <3>3 DEF ReadParse
    <3>4. CASE ~ReadSome(w) /\ ~ReadParse(w)
      <4>1. parser'[w] = parser[w] /\ parser[w] # <<>> /\ op[w] = "reading"
        BY <2>2, <3>1, <3>4, WorkerSteps
      <4>2. stream'[w] = stream[w]
        BY <4>1, WorkerSteps
      <4>3. QED
        BY <1>0, <1>2, <4>1, <4>2 DEF ParserFed
    <3>5. QED
      BY <3>2, <3>3, <3>4
  <2>3. QED
    BY <2>1, <2>2 DEF ParserFed
<1>3. ASSUME NEW w \in Workers, ReadSome(w) PROVE (InboxOwn /\ ParserFed)'
  <2> DEFINE c == stream[w]
             l == Len(inbox[c])
             m == Len(inbox'[c])
  <2>1. /\ c \in Conns /\ l \in Nat /\ \A v \in Workers \ {w} : stream[v] # c
        /\ UNCHANGED <<stream, op, nsent>>
    BY <1>0, <1>3, Own
  <2>2. PICK k \in 1 .. l :
          m = l - k /\ \A i \in 1 .. l - k : inbox'[c][i] = inbox[c][k + i]
    BY <1>0, <1>1, <1>3, Fed
  <2>3. \A d \in Conns : d # c => inbox'[d] = inbox[d]
    BY <1>0, <1>3 DEF ReadSome
  <2>4. \A v \in Workers : v # w => parser'[v] = parser[v]
    BY <1>1, <1>3 DEF ReadSome, TypeOK
  <2>5. \A i \in 1 .. l : inbox[c][i].from = c
    BY <1>0, <2>1 DEF InboxOwn
  <2>6. l <= nsent[c] /\ nsent[c] \in Nat
    BY <1>0, <2>1 DEF InboxOwn
  <2>7. m < nsent[c] /\ m <= nsent[c] /\ \A i \in 1 .. m : inbox'[c][i].from = c
    <3> HIDE DEF c, l, m
    <3>1. m < nsent[c] /\ m <= nsent[c] /\ \A i \in 1 .. m : i \in 1 .. l - k /\ k + i \in 1 .. l
      BY <2>1, <2>2, <2>6
    <3>2. QED
      BY <2>2, <2>5, <3>1
  <2>8. InboxOwn'
    <3>1. ASSUME NEW d \in Conns
          PROVE  Len(inbox'[d]) <= nsent'[d] /\ \A i \in 1 .. Len(inbox'[d]) : inbox'[d][i].from = d
      <4>1. CASE d = c
        BY <2>1, <2>7, <4>1
      <4>2. CASE d # c
        BY <1>0, <2>1, <2>3, <4>2 DEF InboxOwn
      <4>3. QED
        BY <4>1, <4>2
    <3>2. QED
      BY <3>1 DEF InboxOwn
  <2>9. ParserFed'
    <3>1. ASSUME NEW v \in Workers, op'[v] = "reading", parser'[v] # <<>>
          PROVE  Len(inbox'[stream'[v]]) < nsent'[stream'[v]]
      <4>1. CASE v = w
        BY <2>1, <2>7, <4>1
      <4>2. CASE v # w
        <5>1. stream[v] \in Conns /\ stream[v] # c
          BY <1>0, <2>1, <3>1, <4>2 DEF HandlerOwnsStream
        <5>2. QED
          BY <1>0, <2>1, <2>3, <2>4, <3>1, <4>2, <5>1 DEF ParserFed
      <4>3. QED
        BY <4>1, <4>2
    <3>2. QED
      BY <3>1 DEF ParserFed
  <2>10. QED
    BY <2>8, <2>9
<1>4. ASSUME NEW c \in Conns, NEW e \in Ends, Send(c, e) PROVE (InboxOwn /\ ParserFed)'
  <2> DEFINE new == [from |-> c, ends |-> e]
             s == inbox[c]
             l == Len(s)
  <2>1. /\ inbox' = [inbox EXCEPT ![c] = Append(@, new)]
        /\ nsent' = [nsent EXCEPT ![c] = @ + 1]
        /\ UNCHANGED <<op, parser, stream>>
    BY <1>4 DEF Send, workerVars
  <2>2. new \in Piece /\ new.from = c /\ s \in Seq(Piece) /\ l \in Nat
    BY <1>0, <1>4, BeastAssumption, LenProperties DEF Piece
  <2>3. inbox'[c] = Append(s, new) /\ \A d \in Conns : d # c => inbox'[d] = inbox[d]
    BY <1>0, <2>1
  <2>4. nsent'[c] = nsent[c] + 1 /\ nsent[c] \in Nat
        /\ \A d \in Conns : d # c => nsent'[d] = nsent[d]
    BY <1>0, <2>1
  <2>5. l <= nsent[c] /\ \A i \in 1 .. l : s[i].from = c
    BY <1>0 DEF InboxOwn
  <2>6. /\ Len(inbox'[c]) = l + 1
        /\ \A i \in 1 .. l : inbox'[c][i] = s[i]
        /\ inbox'[c][l + 1] = new
    <3> HIDE DEF new, s
    <3>1. QED
      BY <2>2, <2>3, AppendProperties
  <2> HIDE DEF new, l, s
  <2>7. InboxOwn'
    <3>1. ASSUME NEW d \in Conns
          PROVE  Len(inbox'[d]) <= nsent'[d] /\ \A i \in 1 .. Len(inbox'[d]) : inbox'[d][i].from = d
      <4>1. CASE d = c
        <5>1. l + 1 <= nsent[c] + 1 /\ \A i \in 1 .. l + 1 : i \in 1 .. l \/ i = l + 1
          BY <2>2, <2>4, <2>5
        <5>2. QED
          BY <2>2, <2>4, <2>5, <2>6, <4>1, <5>1
      <4>2. CASE d # c
        BY <1>0, <2>3, <2>4, <4>2 DEF InboxOwn
      <4>3. QED
        BY <4>1, <4>2
    <3>2. QED
      BY <3>1 DEF InboxOwn
  <2>8. ParserFed'
    <3>1. ASSUME NEW v \in Workers, op'[v] = "reading", parser'[v] # <<>>
          PROVE  Len(inbox'[stream'[v]]) < nsent'[stream'[v]]
      <4>1. stream[v] \in Conns /\ Len(inbox[stream[v]]) < nsent[stream[v]]
        BY <1>0, <2>1, <3>1 DEF HandlerOwnsStream, ParserFed
      <4>2. CASE stream[v] = c
        <5>1. l < nsent[c] => l + 1 < nsent[c] + 1
          BY <2>2, <2>4
        <5>2. QED
          BY <2>1, <2>4, <2>6, <4>1, <4>2, <5>1 DEF l, s
      <4>3. CASE stream[v] # c
        BY <2>1, <2>3, <2>4, <4>1, <4>3
      <4>4. QED
        BY <4>2, <4>3
    <3>2. QED
      BY <3>1 DEF ParserFed
  <2>9. QED
    BY <2>7, <2>8
<1>5. QED
  <2>1. \/ UNCHANGED <<inbox, nsent>>
        \/ \E w \in Workers : ReadSome(w)
        \/ \E c \in Conns, e \in Ends : Send(c, e)
    BY PieceMoves DEF Moves, Quiet, start_work, reset, Disengage, ReadParse, clientVars
  <2>2. QED
    BY <1>2, <1>3, <1>4, <2>1

\* The pieces a worker holds stay those of connections it was given, in the
\* order of the connections.
LEMMA OriginStep ==
    ASSUME SInv, PiecesInv, [Next]_vars
    PROVE  (Origin /\ ForeignFirst)'
<1>0. Origin /\ ForeignFirst /\ InboxOwn /\ HandlerOwnsStream
  BY DEF PiecesInv, SInv, IInv
<1>1. TypeOK /\ TypeOK'
  BY TypeStep DEF SInv, IInv
<1>2. ASSUME NEW d \in Conns, Taken(d), NEW v \in Workers, stream[v] # d
      PROVE  stream'[v] # d
  BY <1>2, WorkerSteps, BeastAssumption DEF Taken
<1>3. ASSUME NEW w \in Workers, NEW d \in Conns, Taken(d),
             \A v \in Workers \ {w} : stream[v] # d
      PROVE  Taken(d)' /\ \A v \in Workers \ {w} : stream'[v] # d
  BY <1>2, <1>3, TakenStays
<1>4. ASSUME NEW w \in Workers, ~ReadSome(w)
      PROVE  /\ \A i \in 1 .. Len(All(w)') :
                  /\ Taken(All(w)[i].from)'
                  /\ \A v \in Workers \ {w} : stream'[v] # All(w)'[i].from
             /\ \A i, j \in 1 .. Len(All(w)') :
                  i <= j /\ All(w)'[i].from = stream'[w] => All(w)'[j].from = stream'[w]
  <2> DEFINE la == Len(All(w))
             ln == Len(All(w)')
  <2>1. PICK d \in 0 .. la : ln + d = la /\ \A i \in 1 .. ln : All(w)'[i] = All(w)[d + i]
    BY <1>4, PiecesStay
  <2>2. la \in Nat /\ ln \in Nat
    <3>1. ln \in Nat
      BY <1>1, HeldThen, LenProperties DEF All, TypeOK
    <3>2. QED
      BY <1>1, <3>1, Held
  <2>3. \A i \in 1 .. la : All(w)[i].from \in Conns
    BY <1>1, Held
  <2>4. \A i \in 1 .. la : /\ Taken(All(w)[i].from)
                           /\ \A v \in Workers \ {w} : stream[v] # All(w)[i].from
    BY <1>0 DEF Origin
  <2>5. \A i, j \in 1 .. la : i <= j /\ All(w)[i].from = stream[w] => All(w)[j].from = stream[w]
    BY <1>0 DEF ForeignFirst
  <2> HIDE DEF la, ln
  <2>6. \A i \in 1 .. ln : d + i \in 1 .. la
    BY <2>1, <2>2
  <2>7. ASSUME NEW i \in 1 .. ln
        PROVE  Taken(All(w)[i].from)' /\ \A v \in Workers \ {w} : stream'[v] # All(w)'[i].from
    <3>1. PICK p : p = All(w)[d + i].from
      OBVIOUS
    <3>2. p \in Conns /\ Taken(p) /\ \A v \in Workers \ {w} : stream[v] # p
      BY <2>3, <2>4, <2>6, <3>1
    <3>3. Taken(p)' /\ \A v \in Workers \ {w} : stream'[v] # p
      BY <1>3, <3>2
    <3>4. All(w)'[i].from = p
      BY <2>1, <3>1
    <3>5. QED
      BY <3>3, <3>4 DEF Taken
  <2>8. ASSUME NEW i \in 1 .. ln, NEW j \in 1 .. ln, i <= j, All(w)'[i].from = stream'[w]
        PROVE  All(w)'[j].from = stream'[w]
    <3>1. /\ d + i \in 1 .. la /\ d + j \in 1 .. la /\ d + i <= d + j
          /\ All(w)'[i] = All(w)[d + i] /\ All(w)'[j] = All(w)[d + j]
      BY <2>1, <2>2, <2>6, <2>8
    <3>2. All(w)[d + i].from \in Conns /\ Taken(All(w)[d + i].from)
      BY <2>3, <2>4, <3>1
    <3>3. stream'[w] # NoConn /\ stream'[w] # accConn
      BY <2>8, <3>1, <3>2, BeastAssumption DEF Taken
    <3>4. stream'[w] = stream[w]
      BY <3>3, WorkerSteps
    <3>5. QED
      BY <2>5, <2>8, <3>1, <3>4
  <2>9. QED
    BY <2>7, <2>8 DEF ln
<1>5. ASSUME NEW w \in Workers, ReadSome(w)
      PROVE  /\ \A i \in 1 .. Len(All(w)') :
                  /\ Taken(All(w)[i].from)'
                  /\ \A v \in Workers \ {w} : stream'[v] # All(w)'[i].from
             /\ \A i, j \in 1 .. Len(All(w)') :
                  i <= j /\ All(w)'[i].from = stream'[w] => All(w)'[j].from = stream'[w]
  <2> DEFINE c == stream[w]
             la == Len(All(w))
             ln == Len(All(w)')
             li == Len(inbox[c])
  <2>1. PICK k \in 1 .. li :
          /\ la + k = ln
          /\ \A i \in 1 .. la : All(w)'[i] = All(w)[i]
          /\ \A i \in 1 .. k : All(w)'[la + i] = inbox[c][i]
    BY <1>0, <1>1, <1>5, Fed
  <2>2. /\ c \in Conns /\ Taken(c) /\ li \in Nat /\ stream'[w] = c
        /\ \A i \in 1 .. li : inbox[c][i].from = c
        /\ \A v \in Workers \ {w} : stream[v] # c
    BY <1>0, <1>5, Own
  <2>3. la \in Nat
    BY <1>1, Held
  <2>4. \A i \in 1 .. la : /\ All(w)[i].from \in Conns /\ Taken(All(w)[i].from)
                           /\ \A v \in Workers \ {w} : stream[v] # All(w)[i].from
    BY <1>0, <1>1, Held DEF Origin
  <2>5. \A i, j \in 1 .. la : i <= j /\ All(w)[i].from = c => All(w)[j].from = c
    BY <1>0 DEF ForeignFirst
  <2> HIDE DEF la, ln, li, c
  <2>6. ASSUME NEW i \in 1 .. ln
        PROVE  i \in 1 .. la \/ (i > la /\ All(w)'[i].from = c)
    <3>1. CASE i > la
      <4> DEFINE j == i - la
      <4>1. j \in 1 .. k /\ j \in 1 .. li /\ i = la + j
        BY <2>1, <2>2, <2>3, <3>1
      <4> HIDE DEF j
      <4>2. All(w)'[i] = inbox[c][j]
        BY <2>1, <4>1
      <4>3. QED
        BY <2>2, <3>1, <4>1, <4>2
    <3>2. CASE ~(i > la)
      <4>1. i \in Nat /\ ln \in Nat /\ 1 <= i
        BY <2>1, <2>2, <2>3
      <4>2. QED
        BY <2>3, <3>2, <4>1
    <3>3. QED
      BY <3>1, <3>2
  <2>7. ASSUME NEW i \in 1 .. ln
        PROVE  Taken(All(w)[i].from)' /\ \A v \in Workers \ {w} : stream'[v] # All(w)'[i].from
    <3>1. PICK p : p = All(w)'[i].from
      OBVIOUS
    <3>2. p \in Conns /\ Taken(p) /\ \A v \in Workers \ {w} : stream[v] # p
      BY <2>1, <2>2, <2>4, <2>6, <3>1
    <3>3. Taken(p)' /\ \A v \in Workers \ {w} : stream'[v] # p
      BY <1>3, <3>2
    <3>4. QED
      BY <3>1, <3>3 DEF Taken
  <2>8. ASSUME NEW i \in 1 .. ln, NEW j \in 1 .. ln, i <= j, All(w)'[i].from = c
        PROVE  All(w)'[j].from = c
    <3>1. CASE j > la
      BY <2>3, <2>6, <3>1
    <3>2. CASE j \in 1 .. la
      <4>1. i \in 1 .. la
        <5>1. ln \in Nat
          BY <2>1, <2>2, <2>3
        <5>2. i <= la
          BY <2>3, <2>8, <3>2, <5>1
        <5>3. QED
          BY <2>3, <5>1, <5>2
      <4>2. QED
        BY <2>1, <2>5, <2>8, <3>2, <4>1
    <3>3. QED
      BY <2>6, <3>1, <3>2
  <2>9. QED
    BY <2>2, <2>7, <2>8 DEF ln
<1>6. Origin'
  BY <1>4, <1>5 DEF Origin
<1>7. ForeignFirst'
  BY <1>4, <1>5 DEF ForeignFirst
<1>8. QED
  BY <1>6, <1>7

\* The end of a request stays behind only where its client sent more.
LEMMA LeftoverStep ==
    ASSUME SInv, PiecesInv, [Next]_vars
    PROVE  Leftovers'
<1> SUFFICES ASSUME NEW w \in Workers, NEW i \in 1 .. Len(buf'[w]), buf'[w][i].ends
             PROVE  \/ nsent'[buf'[w][i].from] > 1
                    \/ i > 1 /\ ~buf'[w][i - 1].ends
                    \/ /\ i = 1 /\ buf'[w][1].from = stream'[w]
                       /\ Waiting(w)' /\ parser'[w] = <<>>
  BY DEF Leftovers
<1>0. Leftovers /\ ParserFed /\ InboxOwn /\ HandlerOwnsStream /\ ParserFresh
  BY DEF PiecesInv, SInv, IInv
<1>1. TypeOK /\ TypeOK'
  BY TypeStep DEF SInv, IInv
<1>2. /\ parser[w] \in Seq(Piece) /\ buf[w] \in Seq(Piece)
      /\ Len(parser[w]) \in Nat /\ Len(buf[w]) \in Nat /\ Len(All(w)) \in Nat
  BY <1>1, Held
<1>3. \A j \in 1 .. Len(buf[w]) : buf[w][j].from \in Conns
  <2>1. \A j \in 1 .. Len(buf[w]) : buf[w][j] \in Piece
    BY <1>2, ElementOfSeq
  <2>2. QED
    BY <2>1 DEF Piece
<1>4. CASE ReadParse(w)
  <2> DEFINE lp == Len(parser[w])
             lb == Len(buf[w])
             la == Len(All(w))
             m == Len(buf'[w])
  <2>1. PICK n \in 1 .. la :
          /\ FirstMessage(All(w), n) /\ n > lp
          /\ m = la - n /\ \A j \in 1 .. la - n : buf'[w][j] = All(w)[n + j]
    BY <1>0, <1>1, <1>4, Parsed
  <2>2. lp \in Nat /\ lb \in Nat /\ la \in Nat /\ lp + lb = la
    BY <1>1, Held
  <2>3. \A j \in 1 .. lb : All(w)[lp + j] = buf[w][j]
    BY <1>1, Held
  <2>4. i \in 1 .. m
    OBVIOUS
  <2>5. All(w)[n].ends
    BY <2>1 DEF FirstMessage
  <2> HIDE DEF lp, lb, la, m
  <2> DEFINE j == (n + i) - lp
  <2>6. /\ j \in 1 .. lb /\ j > 1 /\ lp + j = n + i
        /\ i \in 1 .. la - n /\ (i = 1 => j - 1 \in 1 .. lb /\ lp + (j - 1) = n)
        /\ (i > 1 => j - 1 \in 1 .. lb /\ i - 1 \in 1 .. la - n /\ lp + (j - 1) = n + (i - 1))
    BY <2>1, <2>2, <2>4
  <2> HIDE DEF j
  <2>7. buf'[w][i] = buf[w][j]
    BY <2>1, <2>3, <2>6
  <2>8. nsent[buf[w][j].from] > 1 \/ ~buf[w][j - 1].ends
    BY <1>0, <2>6, <2>7 DEF Leftovers, lb
  <2>9. CASE nsent[buf[w][j].from] > 1
    <3>1. buf[w][j].from \in Conns
      BY <1>3, <2>6 DEF lb
    <3>2. nsent'[buf[w][j].from] > 1
      BY <2>9, <3>1, SentGrows
    <3>3. QED
      BY <2>7, <3>2
  <2>10. CASE ~buf[w][j - 1].ends
    <3>1. i # 1
      BY <2>3, <2>5, <2>6, <2>10
    <3>2. i > 1
      BY <2>1, <2>2, <2>4, <3>1
    <3>3. buf'[w][i - 1] = All(w)[n + (i - 1)]
      BY <2>1, <2>6, <3>2
    <3>4. All(w)[lp + (j - 1)] = buf[w][j - 1]
      BY <2>3, <2>6, <3>2
    <3>5. buf'[w][i - 1] = buf[w][j - 1]
      BY <2>6, <3>2, <3>3, <3>4
    <3>6. QED
      BY <2>10, <3>2, <3>5
  <2>11. QED
    BY <2>8, <2>9, <2>10
<1>5. CASE ReadSome(w)
  <2> DEFINE c == stream[w]
             l == Len(inbox[c])
             lp == Len(parser[w])
             lb == Len(buf[w])
             la == Len(All(w))
             m == Len(buf'[w])
             mp == Len(parser'[w])
             ma == Len(All(w)')
  <2>1. PICK k \in 1 .. l :
          /\ la + k = ma
          /\ \A j \in 1 .. la : All(w)'[j] = All(w)[j]
          /\ \A j \in 1 .. k : All(w)'[la + j] = inbox[c][j]
          /\ mp >= lp
          /\ mp > lp => \A j \in 1 .. m : ~buf'[w][j].ends
          /\ \A j \in 1 .. la : ~All(w)[j].ends
    BY <1>0, <1>1, <1>5, Fed
  <2>2. /\ c \in Conns /\ l \in Nat /\ UNCHANGED <<stream, op, nsent>>
        /\ \A j \in 1 .. l : inbox[c][j].from = c
    BY <1>0, <1>5, Own
  <2>3. lp \in Nat /\ lb \in Nat /\ la \in Nat /\ lp + lb = la
    BY <1>1, Held
  <2>4. mp + m = ma /\ \A j \in 1 .. m : All(w)'[mp + j] = buf'[w][j]
    BY <1>1, HeldThen
  <2>5. mp \in Nat /\ m \in Nat
    BY <1>1, LenProperties DEF TypeOK
  <2>6. l <= nsent[c] /\ nsent[c] \in Nat
    BY <1>0, <1>1, <2>2 DEF InboxOwn, TypeOK
  <2>7. i \in 1 .. m
    OBVIOUS
  <2>8. op[w] = "reading" /\ (parser[w] # <<>> => l < nsent[c])
    BY <1>0, <1>5 DEF ReadSome, ParserFed
  <2>9. lp = 0 <=> parser[w] = <<>>
    BY <1>2, EmptySeq
  <2>10. mp = 0 <=> parser'[w] = <<>>
    BY <1>1, EmptySeq DEF TypeOK
  <2> HIDE DEF c, l, lp, lb, la, m, mp, ma
  <2>11. mp = lp
    BY <2>1, <2>3, <2>5, <2>7
  <2>12. lp + i \in 1 .. ma
    BY <2>1, <2>2, <2>3, <2>4, <2>5, <2>7, <2>11
  <2>13. All(w)'[lp + i] = buf'[w][i]
    BY <2>4, <2>7, <2>11
  <2>14. lp + i > la
    <3>1. lp + i \in 1 .. la => FALSE
      BY <2>1, <2>13
    <3>2. lp + i \in Nat /\ lp + i >= 1
      BY <2>3, <2>5, <2>7
    <3>3. QED
      BY <2>3, <3>1, <3>2
  <2> DEFINE j == (lp + i) - la
  <2>15. j \in 1 .. k /\ j \in 1 .. l /\ la + j = lp + i /\ (j > 1 => j - 1 \in 1 .. k) /\ j \in Nat
    BY <2>1, <2>2, <2>3, <2>5, <2>7, <2>12, <2>14
  <2>16. j = 1 => la = lp + (i - 1)
    BY <2>3, <2>5, <2>7
  <2> HIDE DEF j
  <2>17. buf'[w][i] = inbox[c][j] /\ buf'[w][i].from = c
    BY <2>1, <2>2, <2>13, <2>15
  <2>18. CASE j > 1
    <3>1. nsent[c] > 1
      BY <2>2, <2>6, <2>15, <2>18
    <3>2. QED
      BY <2>2, <2>17, <3>1
  <2>19. CASE j = 1 /\ i > 1
    <3>1. lp + (i - 1) \in 1 .. la /\ i - 1 \in 1 .. m
      BY <2>3, <2>5, <2>7, <2>16, <2>19
    <3>2. All(w)'[lp + (i - 1)] = buf'[w][i - 1]
      BY <2>4, <2>11, <3>1
    <3>3. ~buf'[w][i - 1].ends
      BY <2>1, <3>1, <3>2
    <3>4. QED
      BY <2>19, <3>3
  <2>20. CASE i = 1
    <3>1. CASE parser[w] = <<>>
      <4>1. parser'[w] = <<>>
        BY <2>9, <2>10, <2>11, <3>1
      <4>2. Waiting(w)'
        BY <2>2, <2>8 DEF Waiting
      <4>3. stream'[w] = c
        BY <2>2 DEF c
      <4>4. QED
        BY <2>17, <2>20, <4>1, <4>2, <4>3
    <3>2. CASE parser[w] # <<>>
      <4>1. nsent[c] > 1
        BY <2>2, <2>6, <2>8, <2>15, <3>2
      <4>2. QED
        BY <2>2, <2>17, <4>1
    <3>3. QED
      BY <3>1, <3>2
  <2>21. QED
    BY <2>5, <2>7, <2>15, <2>18, <2>19, <2>20
<1>6. CASE ~ReadParse(w) /\ ~ReadSome(w)
  <2>1. buf'[w] = buf[w] /\ (parser'[w] = parser[w] \/ parser'[w] = <<>>)
    BY <1>6, WorkerSteps
  <2>2. i \in 1 .. Len(buf[w]) /\ buf[w][i].ends
    BY <2>1
  <2>3. \/ nsent[buf[w][i].from] > 1
        \/ i > 1 /\ ~buf[w][i - 1].ends
        \/ i = 1 /\ buf[w][1].from = stream[w] /\ Waiting(w) /\ parser[w] = <<>>
    BY <1>0, <2>2 DEF Leftovers
  <2>4. CASE nsent[buf[w][i].from] > 1
    <3>1. buf[w][i].from \in Conns
      BY <1>3, <2>2
    <3>2. nsent'[buf[w][i].from] > 1
      BY <2>4, <3>1, SentGrows
    <3>3. QED
      BY <2>1, <3>2
  <2>5. CASE i > 1 /\ ~buf[w][i - 1].ends
    BY <2>1, <2>5
  <2>6. CASE i = 1 /\ buf[w][1].from = stream[w] /\ Waiting(w) /\ parser[w] = <<>>
    <3>1. ~(ReadFails(w) /\ ~stopped)
      <4>1. SUFFICES ASSUME ReadFails(w) PROVE FALSE
        OBVIOUS
      <4>2. All(w) = buf[w]
        BY <1>2, <2>6 DEF All
      <4>3. FirstMessage(buf[w], 1) /\ 1 \in 1 .. Len(buf[w])
        BY <2>2, <2>6 DEF FirstMessage
      <4>4. \E j \in 1 .. 1 : buf[w][j].from # stream[w]
        BY <4>1, <4>2, <4>3 DEF ReadFails, All
      <4>5. QED
        BY <2>6, <4>4
    <3>2. Waiting(w)'
      BY <1>6, <2>6, <3>1, WaitSteps DEF Waits
    <3>3. op[w] # "none"
      BY <2>6 DEF Waiting
    <3>4. stream'[w] = stream[w]
      BY <3>3, WorkerSteps
    <3>5. QED
      BY <2>1, <2>6, <3>2, <3>4
  <2>7. QED
    BY <2>3, <2>4, <2>5, <2>6
<1>7. QED
  BY <1>4, <1>5, <1>6

\* A parser that holds foreign pieces begins with one, and it is a leftover.
LEMMA ParserStartStep ==
    ASSUME SInv, PiecesInv, [Next]_vars
    PROVE  ParserStart'
<1> SUFFICES ASSUME NEW w \in Workers, NEW k \in 1 .. Len(parser'[w]),
                    parser'[w][k].from # stream'[w]
             PROVE  /\ parser'[w][1].from # stream'[w]
                    /\ ~parser'[w][1].ends \/ nsent'[parser'[w][1].from] > 1
  BY DEF ParserStart, ForeignStart
<1>0. Leftovers /\ HandlerOwnsStream /\ ParserFresh /\ ParserStart /\ InboxOwn
  BY DEF PiecesInv, SInv, IInv
<1>1. TypeOK /\ TypeOK'
  BY TypeStep DEF SInv, IInv
<1>2. /\ Len(parser'[w]) \in Nat /\ Len(buf'[w]) \in Nat
      /\ \A i \in 1 .. Len(parser'[w]) : parser'[w][i].from \in Conns
  <2>1. parser'[w] \in Seq(Piece) /\ buf'[w] \in Seq(Piece)
    BY <1>1 DEF TypeOK
  <2>2. \A i \in 1 .. Len(parser'[w]) : parser'[w][i] \in Piece
    BY <2>1, ElementOfSeq
  <2>3. QED
    BY <2>1, <2>2, LenProperties DEF Piece
<1>3. parser'[w][1].from # stream'[w]
  <2> DEFINE mp == Len(parser'[w])
             ma == Len(All(w)')
             mb == Len(buf'[w])
  <2>1. ForeignFirst'
    BY OriginStep
  <2>2. mp + mb = ma /\ \A i \in 1 .. mp : All(w)'[i] = parser'[w][i]
    BY <1>1, HeldThen
  <2>3. mp \in Nat /\ mb \in Nat /\ k \in 1 .. mp
    BY <1>2
  <2>4. \A i, j \in 1 .. ma :
          i <= j /\ All(w)'[i].from = stream'[w] => All(w)'[j].from = stream'[w]
    BY <2>1 DEF ForeignFirst
  <2> HIDE DEF mp, ma, mb
  <2>5. 1 \in 1 .. ma /\ k \in 1 .. ma /\ 1 <= k /\ 1 \in 1 .. mp
    BY <2>2, <2>3
  <2>6. All(w)'[k] = parser'[w][k] /\ All(w)'[1] = parser'[w][1]
    BY <2>2, <2>3, <2>5
  <2>7. QED
    BY <2>4, <2>5, <2>6
<1>4. 1 \in 1 .. Len(parser'[w])
  BY <1>2
<1>5. CASE ReadParse(w)
  <2> DEFINE lp == Len(parser[w])
             lb == Len(buf[w])
             la == Len(All(w))
  <2>1. PICK n \in 1 .. la :
          /\ FirstMessage(All(w), n) /\ n > lp
          /\ Len(parser'[w]) = n /\ \A j \in 1 .. n : parser'[w][j] = All(w)[j]
    BY <1>0, <1>1, <1>5, Parsed
  <2>2. lp \in Nat /\ lb \in Nat /\ la \in Nat /\ lp + lb = la
    BY <1>1, Held
  <2>3. \A j \in 1 .. lb : All(w)[lp + j] = buf[w][j]
    BY <1>1, Held
  <2>4. parser'[w][1] = All(w)[1]
    BY <1>4, <2>1
  <2>5. stream'[w] = stream[w]
    BY <1>5 DEF ReadParse
  <2>6. ASSUME parser'[w][1].ends PROVE nsent'[parser'[w][1].from] > 1
    <3>1. \A j \in 1 .. (n - 1) : ~All(w)[j].ends
      BY <2>1 DEF FirstMessage
    <3> HIDE DEF lp, lb, la
    <3>2. ~(1 \in 1 .. (n - 1))
      BY <2>4, <2>6, <3>1
    <3>3. n = 1 /\ lp = 0 /\ 1 \in 1 .. lb
      BY <2>1, <2>2, <3>2
    <3>4. All(w)[1] = buf[w][1]
      <4>1. All(w)[lp + 1] = buf[w][1] /\ lp + 1 = 1
        BY <2>3, <3>3
      <4>2. QED
        BY <4>1
    <3>5. buf[w][1].ends /\ buf[w][1].from # stream[w] /\ 1 \in 1 .. Len(buf[w])
      BY <1>3, <2>4, <2>5, <2>6, <3>3, <3>4 DEF lb
    <3>6. nsent[buf[w][1].from] > 1
      BY <1>0, <3>5 DEF Leftovers
    <3>7. buf[w][1].from \in Conns
      BY <1>2, <1>4, <2>4, <3>4
    <3>8. nsent'[buf[w][1].from] > 1
      BY <3>6, <3>7, SentGrows
    <3>9. QED
      BY <2>4, <3>4, <3>8
  <2>7. QED
    BY <1>3, <2>6
<1>6. CASE ReadSome(w)
  <2>1. ~Complete(parser'[w])
    <3>1. \E n \in 1 .. Len(inbox[stream[w]]) : ~Complete(parser'[w])
      BY <1>0, <1>1, <1>6, Fed
    <3>2. QED
      BY <3>1
  <2>2. 1 \in DOMAIN parser'[w]
    BY <1>1, <1>4, LenProperties DEF TypeOK
  <2>3. ~parser'[w][1].ends
    BY <2>1, <2>2 DEF Complete
  <2>4. QED
    BY <1>3, <2>3
<1>7. CASE ~ReadParse(w) /\ ~ReadSome(w)
  <2>1. parser'[w] # <<>>
    BY <1>2, <1>4
  <2>2. parser'[w] = parser[w] /\ parser[w] # <<>>
    BY <1>7, <2>1, WorkerSteps
  <2>3. stream'[w] = stream[w]
    BY <2>2, WorkerSteps
  <2>4. ~parser[w][1].ends \/ nsent[parser[w][1].from] > 1
    BY <1>0, <2>2, <2>3 DEF ParserStart, ForeignStart
  <2>5. parser[w][1].from \in Conns
    BY <1>2, <1>4, <2>2
  <2>6. nsent[parser[w][1].from] > 1 => nsent'[parser[w][1].from] > 1
    BY <2>5, SentGrows
  <2>7. QED
    BY <1>3, <2>2, <2>4, <2>6
<1>8. QED
  BY <1>5, <1>6, <1>7

\* Answers are written by async_write only.
LEMMA AnswersMove ==
    ASSUME [Next]_vars
    PROVE  UNCHANGED answers \/ \E w \in Workers : WriteSucceeds(w)
<1>1. CASE UNCHANGED vars
  BY <1>1 DEF vars, clientVars
<1>2. CASE Boot \/ Accept \/ Signal \/ Terminated
  BY <1>2 DEF Boot, Accept, Signal, Terminated, vars, clientVars
<1>3. ASSUME NEW t \in Runners, Pick(t) PROVE UNCHANGED answers
  BY <1>3 DEF Pick, RunPosted, RunAccept, RunSignal, RunRead, RunWritten, clientVars
<1>4. ASSUME NEW t \in Runners, Step(t) PROVE UNCHANGED answers
  BY <1>4 DEF Step, async_accept, start_work, StartWorkThrows, next_worker, start,
              call_app, AppReturns, async_write_response, reset, Disengage, Destroy,
              StopIo, StopTest, StopCancel, Leave, clientVars
<1>5. ASSUME NEW w \in Workers, Stream(w) PROVE UNCHANGED answers \/ WriteSucceeds(w)
  BY <1>5 DEF Stream, ReadParse, ReadSome, ReadFails, WriteFails, clientVars
<1>6. ASSUME NEW c \in Conns, Client(c) PROVE UNCHANGED answers
  BY <1>6 DEF Client, Connect, Send
<1>7. QED
  BY <1>1, <1>2, <1>3, <1>4, <1>5, <1>6 DEF Next

\* An answer is what the parser holds when the response is written, and what
\* was a leftover stays one.
LEMMA ForeignStep ==
    ASSUME SInv, PiecesInv, ForeignBytesAreLeftovers, [Next]_vars
    PROVE  ForeignBytesAreLeftovers'
<1>1. TypeOK /\ TypeOK'
  BY TypeStep DEF SInv, IInv
<1>2. ASSUME NEW a \in Seq(Piece), NEW c \in Conns, ForeignStart(a, c), NEW k \in DOMAIN a,
             a[k].from # c
      PROVE  a[1].from # c /\ (~a[1].ends \/ nsent'[a[1].from] > 1)
  <2>1. DOMAIN a = 1 .. Len(a) /\ Len(a) \in Nat
    BY LenProperties
  <2>2. k \in 1 .. Len(a) /\ 1 \in 1 .. Len(a)
    BY <2>1
  <2>3. a[1] \in Piece
    BY <2>2, ElementOfSeq
  <2>4. a[1].from \in Conns
    BY <2>3 DEF Piece
  <2>5. a[1].from # c /\ (~a[1].ends \/ nsent[a[1].from] > 1)
    BY <1>2, <2>2 DEF ForeignStart
  <2>6. nsent[a[1].from] > 1 => nsent'[a[1].from] > 1
    BY <2>4, SentGrows
  <2>7. QED
    BY <2>5, <2>6
<1>3. ASSUME NEW c \in Conns, NEW i \in DOMAIN answers[c]
      PROVE  answers[c][i] \in Seq(Piece) /\ ForeignStart(answers[c][i], c)
  <2> DEFINE a == answers[c][i]
  <2>1. answers[c] \in Seq(Seq(Piece))
    BY <1>1 DEF TypeOK
  <2>2. a \in Seq(Piece)
    BY <2>1, ElementOfSeq, LenProperties
  <2>3. DOMAIN a = 1 .. Len(a)
    BY <2>2, LenProperties
  <2>4. (\E k \in DOMAIN a : a[k].from # c) =>
           a[1].from # c /\ (~a[1].ends \/ nsent[a[1].from] > 1)
    BY DEF ForeignBytesAreLeftovers
  <2> HIDE DEF a
  <2>5. a \in Seq(Piece) /\ ForeignStart(a, c)
    BY <2>2, <2>3, <2>4 DEF ForeignStart
  <2>6. QED
    BY <2>5 DEF a
<1>4. CASE UNCHANGED answers
  <2> SUFFICES ASSUME NEW c \in Conns, NEW i \in DOMAIN answers[c],
                      NEW k \in DOMAIN answers[c][i], answers[c][i][k].from # c
               PROVE  /\ answers[c][i][1].from # c
                      /\ ~answers[c][i][1].ends \/ nsent'[answers[c][i][1].from] > 1
    BY <1>4 DEF ForeignBytesAreLeftovers
  <2>1. QED
    BY <1>2, <1>3
<1>5. ASSUME NEW w \in Workers, WriteSucceeds(w) PROVE ForeignBytesAreLeftovers'
  <2> DEFINE d == stream[w]
             p == parser[w]
             s == answers[d]
  <2>1. d \in Conns
    BY <1>5 DEF WriteSucceeds, SInv, IInv, HandlerOwnsStream, TypeOK
  <2>2. p \in Seq(Piece) /\ s \in Seq(Seq(Piece))
    BY <1>1, <2>1 DEF TypeOK
  <2>3. ForeignStart(p, d)
    BY DEF PiecesInv, ParserStart
  <2>4. answers' = [answers EXCEPT ![d] = Append(@, p)]
    BY <1>5 DEF WriteSucceeds
  <2>5. answers'[d] = Append(s, p) /\ \A c \in Conns : c # d => answers'[c] = answers[c]
    BY <1>1, <2>1, <2>4 DEF TypeOK
  <2>6. \A i \in DOMAIN s : s[i] \in Seq(Piece) /\ ForeignStart(s[i], d)
    BY <1>3, <2>1
  <2> HIDE DEF p, s, d
  <2>7. \A i \in DOMAIN answers'[d] : answers'[d][i] = p \/ (i \in DOMAIN s /\ answers'[d][i] = s[i])
    <3>1. DOMAIN s = 1 .. Len(s) /\ Len(s) \in Nat
      BY <2>2, LenProperties
    <3>2. /\ Append(s, p) \in Seq(Seq(Piece)) /\ Len(Append(s, p)) = Len(s) + 1
          /\ \A i \in 1 .. Len(s) : Append(s, p)[i] = s[i]
          /\ Append(s, p)[Len(s) + 1] = p
      BY <2>2, AppendProperties
    <3>3. DOMAIN Append(s, p) = 1 .. Len(s) + 1
      BY <3>2, LenProperties
    <3>4. \A i \in 1 .. Len(s) + 1 : i \in 1 .. Len(s) \/ i = Len(s) + 1
      BY <3>1
    <3>5. QED
      BY <2>5, <3>1, <3>2, <3>3, <3>4
  <2>8. SUFFICES ASSUME NEW c \in Conns, NEW i \in DOMAIN answers'[c],
                        NEW k \in DOMAIN answers'[c][i], answers'[c][i][k].from # c
                 PROVE  /\ answers'[c][i][1].from # c
                        /\ ~answers'[c][i][1].ends \/ nsent'[answers'[c][i][1].from] > 1
    BY DEF ForeignBytesAreLeftovers
  <2>9. answers'[c][i] \in Seq(Piece) /\ ForeignStart(answers'[c][i], c)
    <3>1. CASE c = d
      BY <2>2, <2>3, <2>6, <2>7, <3>1
    <3>2. CASE c # d
      BY <1>3, <2>5, <3>2
    <3>3. QED
      BY <3>1, <3>2
  <2>10. PICK a : a = answers'[c][i]
    OBVIOUS
  <2>11. a[1].from # c /\ (~a[1].ends \/ nsent'[a[1].from] > 1)
    BY <1>2, <2>8, <2>9, <2>10
  <2>12. QED
    BY <2>10, <2>11
<1>6. QED
  BY <1>4, <1>5, AnswersMove

\* Every reachable state has the invariants of the pieces: where what a worker
\* holds came from, in which order, and what may be left of it.
THEOREM PiecesInductive == Spec => []PiecesInv
<1>1. Init => PiecesInv
  <2> SUFFICES ASSUME Init PROVE PiecesInv
    OBVIOUS
  <2> USE BeastAssumption DEF Init
  <2>1. /\ \A w \in Workers : parser[w] = <<>> /\ buf[w] = <<>> /\ op[w] = "none"
        /\ \A c \in Conns : inbox[c] = <<>> /\ nsent[c] = 0
        /\ \A t \in Runners : pc[t] = "boot"
    OBVIOUS
  <2>2. \A w \in Workers : All(w) = <<>>
    BY <2>1 DEF All
  <2>3. StopsLast /\ ParserFresh /\ InboxOwn /\ ParserFed
    BY <2>1 DEF StopsLast, ParserFresh, InboxOwn, ParserFed
  <2>4. Origin /\ ForeignFirst /\ Leftovers /\ ParserStart
    BY <2>1, <2>2 DEF Origin, ForeignFirst, Leftovers, ParserStart, ForeignStart
  <2>5. QED
    BY <2>3, <2>4 DEF PiecesInv
<1>2. SInv /\ PiecesInv /\ [Next]_vars => PiecesInv'
  BY FreshStep, InboxStep, OriginStep, LeftoverStep, ParserStartStep DEF PiecesInv
<1>3. Spec => []SInv
  BY SocketsInductive
<1>4. QED
  BY <1>1, <1>2, <1>3, PTL DEF Spec

\* reset() renews the parser and keeps buf: an answer may hold another
\* connection's bytes, but these come first, and only from a client that sent
\* more than the one request its connection is answered for, or a request in
\* parts whose rest a timeout or a disconnect cut off.
THEOREM ForeignBytesAreLeftoversOnly == Spec => []ForeignBytesAreLeftovers
<1>1. Init => ForeignBytesAreLeftovers
  BY DEF Init, ForeignBytesAreLeftovers
<1>2. SInv /\ PiecesInv /\ ForeignBytesAreLeftovers /\ [Next]_vars => ForeignBytesAreLeftovers'
  BY ForeignStep
<1>3. Spec => []SInv
  BY SocketsInductive
<1>4. Spec => []PiecesInv
  BY PiecesInductive
<1>5. QED
  BY <1>1, <1>2, <1>3, <1>4, PTL DEF Spec

=============================================================================
