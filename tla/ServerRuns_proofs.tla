-------------------------- MODULE ServerRuns_proofs --------------------------
(***************************************************************************)
(* One pi process behind its handle (PiHost), and the four components of   *)
(* MCServerRuns together.                                                  *)
(*                                                                         *)
(* PiHost: the exit of a pi process comes after everything pi wrote, and   *)
(* each request is a promise.  That no answer and no event is overtaken is *)
(* not inductive: it rests on what is still in the pipe.  Every answer a   *)
(* request still waits for, and every event not yet offered, is a line of  *)
(* it, the events in order; and the pipe is empty where the exit is        *)
(* published.                                                              *)
(*                                                                         *)
(* MCServerRuns: a step of the composition is a step of each component or  *)
(* leaves it alone, so what is proved of a component is true of the run    *)
(* that checks the four of them.                                           *)
(***************************************************************************)
EXTENDS MCServerRuns, LoopRun_proofs, ChildWorktrees_proofs, LoopCheckouts_proofs,
        SequenceTheorems, TLAPS

-----------------------------------------------------------------------------
(* One pi process behind its handle.                                       *)

Lines == 1 .. Len(stdout)
IsEvent(k) == stdout[k].kind = "event"

\* A request that waits is not settled; one that reached pi was asked; only the
\* published exit fails one.
Asked ==
  /\ \A i \in Requests : answer[i] = "exited" => exited
  /\ \A i \in pending : answer[i] = Unsettled
  /\ \A i \in stdin \cup replied : i \in pending \/ answer[i] # Unsettled

\* An answer whose request still waits is in the pipe.
RepliesUnderWay ==
  ~cut => \A i \in replied \cap pending :
            \E k \in Lines : stdout[k].kind = "reply" /\ stdout[k].of = i

\* The events in the pipe are in order, and are those not offered yet.
EventsUnderWay ==
  consumer \in {"none", "reading"} /\ ~cut =>
    /\ offered <= written
    /\ \A k \in Lines : IsEvent(k) => stdout[k].of \in (offered + 1) .. written
    /\ \A j, k \in Lines : j < k /\ IsEvent(j) /\ IsEvent(k) => stdout[j].of < stdout[k].of
    /\ \A n \in (offered + 1) .. written : \E k \in Lines : IsEvent(k) /\ stdout[k].of = n

\* What is over: a stdout that is done or was cut is empty, an exit was the last item.
PipeIsEmpty ==
  /\ drainTimer => exitRecord
  /\ stdoutAt = "done" => stdout = <<>>
  /\ cut => stdoutAt # "open" /\ stdout = <<>>
  /\ exited => last = offered
  /\ consumer = "ended" => exited

HostInv ==
  HostTypeOK /\ ExitComesLast /\ Asked /\ RepliesUnderWay /\ EventsUnderWay /\ PipeIsEmpty

USE DEF Unsettled, Lines, IsEvent

LEMMA InitHostInv == HostInit => HostInv
<1> SUFFICES ASSUME HostInit PROVE HostInv
  OBVIOUS
<1>1. stdout = <<>> /\ stdout \in Seq(Line) /\ Len(stdout) = 0
  BY DEF HostInit
<1>2. HostTypeOK
  <2>1. /\ {exitRecord, drainTimer, exited, cut} \subseteq BOOLEAN
        /\ exitRecord \/ stdoutAt # "open" => pi = "dead"
        /\ exited <=> exitRecord /\ stdoutAt = "done"
    BY DEF HostInit
  <2>2. {offered, last, taken, written} \subseteq Nat
    BY DEF HostInit
  <2>3. QED
    BY <1>1, <2>1, <2>2 DEF HostInit, HostTypeOK
<1>3. ExitComesLast /\ Asked /\ PipeIsEmpty
  BY DEF HostInit, ExitComesLast, Asked, PipeIsEmpty
<1>4. RepliesUnderWay /\ EventsUnderWay
  BY <1>1 DEF HostInit, RepliesUnderWay, EventsUnderWay
<1>5. QED
  BY <1>2, <1>3, <1>4 DEF HostInv

\* A line is a record of its kind.
LEMMA LineIs ==
  ASSUME NEW e \in Line
  PROVE  /\ e.kind \in {"reply", "event"}
         /\ e.kind = "reply" => e.of \in Requests
         /\ e.kind = "event" => e.of \in Nat
BY DEF Line

-----------------------------------------------------------------------------
(* Requests: what is asked and what times out.                             *)

LEMMA RequestsKeep ==
  ASSUME HostInv, NEW i \in Requests, Ask(i) \/ TimesOut(i)
  PROVE  HostInv'
<1> USE DEF HostInv
<1>1. HostTypeOK'
  BY DEF HostTypeOK, Ask, TimesOut, process, feed
<1>2. Asked' /\ RepliesUnderWay'
  BY DEF HostTypeOK, ExitComesLast, Asked, RepliesUnderWay, Ask, TimesOut, process, feed
<1>3. ExitComesLast'
  BY DEF HostTypeOK, ExitComesLast, Asked, Ask, TimesOut, process, feed
<1>4. EventsUnderWay' /\ PipeIsEmpty'
  BY DEF EventsUnderWay, PipeIsEmpty, Ask, TimesOut, process, feed
<1>5. QED
  BY <1>1, <1>2, <1>3, <1>4

-----------------------------------------------------------------------------
(* The pipe: a line enters it, a line leaves it.                           *)

\* What pi writes while it runs is the last line of an open pipe.
LEMMA WrittenIs ==
  ASSUME HostInv, pi = "running", NEW e \in Line, stdout' = Append(stdout, e)
  PROVE  /\ stdoutAt = "open" /\ ~exited /\ ~cut /\ consumer # "ended"
         /\ stdout' \in Seq(Line) /\ Len(stdout') = Len(stdout) + 1
         /\ \A k \in 1 .. Len(stdout) : stdout'[k] = stdout[k]
         /\ stdout'[Len(stdout) + 1] = e
<1>1. stdout \in Seq(Line)
  BY DEF HostInv, HostTypeOK
<1>2. stdoutAt = "open" /\ ~exited /\ ~cut /\ consumer # "ended"
  BY DEF HostInv, HostTypeOK, PipeIsEmpty
<1>3. QED
  BY <1>1, <1>2, AppendProperties

LEMMA AnswersKeep ==
  ASSUME HostInv, NEW i \in Requests, PiAnswers(i)
  PROVE  HostInv'
<1> DEFINE e == [kind |-> "reply", of |-> i]
<1>1. e \in Line /\ e.kind = "reply" /\ e.of = i
  BY DEF Line
<1>2. /\ stdoutAt = "open" /\ ~exited /\ ~cut /\ consumer # "ended"
      /\ stdout' \in Seq(Line) /\ Len(stdout') = Len(stdout) + 1
      /\ \A k \in 1 .. Len(stdout) : stdout'[k] = stdout[k]
      /\ stdout'[Len(stdout) + 1] = e
  BY <1>1, WrittenIs DEF PiAnswers
<1> HIDE DEF e
<1>3. Len(stdout) \in Nat
  BY DEF HostInv, HostTypeOK
<1>4. HostTypeOK'
  BY <1>2 DEF HostInv, HostTypeOK, PiAnswers, feed
<1>5. Asked'
  BY DEF HostInv, Asked, PiAnswers
<1>6. ExitComesLast'
  BY <1>2 DEF HostInv, ExitComesLast, Asked, HostTypeOK, PiAnswers, feed
<1>7. RepliesUnderWay'
  BY <1>1, <1>2, <1>3 DEF HostInv, RepliesUnderWay, PiAnswers
<1>8. EventsUnderWay'
  BY <1>1, <1>2, <1>3 DEF HostInv, EventsUnderWay, PiAnswers, feed
<1>9. PipeIsEmpty'
  BY <1>2 DEF HostInv, PipeIsEmpty, PiAnswers, feed
<1>10. QED
  BY <1>4, <1>5, <1>6, <1>7, <1>8, <1>9 DEF HostInv

LEMMA EmitsKeep ==
  ASSUME HostInv, PiEmits
  PROVE  HostInv'
<1> DEFINE e == [kind |-> "event", of |-> written']
<1>0. written \in Nat /\ written' = written + 1
  BY DEF HostInv, HostTypeOK, PiEmits
<1>1. e \in Line /\ e.kind = "event" /\ e.of = written + 1
  BY <1>0 DEF Line
<1>2. /\ stdoutAt = "open" /\ ~exited /\ ~cut /\ consumer # "ended"
      /\ stdout' \in Seq(Line) /\ Len(stdout') = Len(stdout) + 1
      /\ \A k \in 1 .. Len(stdout) : stdout'[k] = stdout[k]
      /\ stdout'[Len(stdout) + 1] = e
  BY <1>1, WrittenIs DEF PiEmits
<1> HIDE DEF e
<1>3. Len(stdout) \in Nat
  BY DEF HostInv, HostTypeOK
<1>4. HostTypeOK'
  BY <1>0, <1>2 DEF HostInv, HostTypeOK, PiEmits, process, feed
<1>5. Asked'
  BY DEF HostInv, Asked, PiEmits, process
<1>6. ExitComesLast'
  BY <1>2 DEF HostInv, ExitComesLast, PiEmits, process, feed
<1>7. RepliesUnderWay'
  BY <1>1, <1>2, <1>3 DEF HostInv, RepliesUnderWay, PiEmits
<1>8. EventsUnderWay'
  <2> SUFFICES ASSUME consumer \in {"none", "reading"}
               PROVE  EventsUnderWay'
    BY DEF EventsUnderWay, PiEmits, feed
  <2> DEFINE new == Len(stdout) + 1
  <2>1. UNCHANGED <<offered, consumer, cut>> /\ offered \in Nat
    BY DEF HostInv, HostTypeOK, PiEmits, feed
  <2>2. /\ offered <= written
        /\ \A k \in Lines : IsEvent(k) =>
             stdout[k].of \in Nat /\ offered < stdout[k].of /\ stdout[k].of <= written
        /\ \A j, k \in Lines : j < k /\ IsEvent(j) /\ IsEvent(k) => stdout[j].of < stdout[k].of
        /\ \A n \in (offered + 1) .. written : \E k \in Lines : IsEvent(k) /\ stdout[k].of = n
    BY <1>0, <1>2, <2>1 DEF HostInv, EventsUnderWay
  <2>3. /\ \A k \in Lines' : k \in Lines \/ k = new
        /\ \A k \in Lines : k \in Lines' /\ k < new /\ stdout'[k] = stdout[k]
        /\ stdout'[new] = e /\ new \in Lines'
        /\ Lines \subseteq Nat
    BY <1>2, <1>3
  <2> HIDE DEF new
  <2>4. ASSUME NEW k \in Lines', IsEvent(k)'
        PROVE  stdout'[k].of \in (offered + 1) .. written'
    <3>1. CASE k \in Lines
      BY <1>0, <2>1, <2>2, <2>3, <2>4, <3>1
    <3>2. CASE k = new
      BY <1>0, <1>1, <2>1, <2>2, <2>3, <3>2
    <3>3. QED
      BY <2>3, <3>1, <3>2
  <2>5. ASSUME NEW j \in Lines', NEW k \in Lines', j < k, IsEvent(j)', IsEvent(k)'
        PROVE  stdout'[j].of < stdout'[k].of
    <3>1. k \in Lines => j \in Lines
      BY <1>3, <2>3, <2>5
    <3>2. CASE k \in Lines
      BY <2>2, <2>3, <2>5, <3>1, <3>2
    <3>3. CASE k = new
      <4>1. j \in Lines
        BY <1>3, <2>3, <2>5, <3>3 DEF new
      <4>2. QED
        BY <1>0, <1>1, <2>2, <2>3, <2>5, <3>3, <4>1
    <3>4. QED
      BY <2>3, <3>2, <3>3
  <2>6. ASSUME NEW n \in (offered + 1) .. written'
        PROVE  \E k \in Lines' : IsEvent(k)' /\ stdout'[k].of = n
    <3>1. CASE n = written'
      BY <1>0, <1>1, <2>3, <3>1
    <3>2. CASE n \in (offered + 1) .. written
      BY <2>2, <2>3, <3>2
    <3>3. QED
      BY <1>0, <2>1, <3>1, <3>2
  <2>7. QED
    BY <1>0, <2>1, <2>2, <2>4, <2>5, <2>6 DEF EventsUnderWay
<1>9. PipeIsEmpty'
  BY <1>2 DEF HostInv, PipeIsEmpty, PiEmits, process, feed
<1>10. QED
  BY <1>4, <1>5, <1>6, <1>7, <1>8, <1>9 DEF HostInv

\* The head of the pipe, if it is an event, is the next one to offer.
LEMMA HeadIsNext ==
  ASSUME HostInv, stdout # <<>>, Head(stdout).kind = "event", consumer \in {"none", "reading"}
  PROVE  Head(stdout).of = offered + 1 /\ offered < written
<1>1. /\ stdout \in Seq(Line) /\ Len(stdout) \in Nat /\ Len(stdout) > 0
      /\ Head(stdout) = stdout[1] /\ offered \in Nat /\ written \in Nat
  BY EmptySeq, SeqDef DEF HostInv, HostTypeOK
<1>2. ~cut
  BY DEF HostInv, PipeIsEmpty
<1>3. stdout[1].of \in (offered + 1) .. written
  BY <1>1, <1>2 DEF HostInv, EventsUnderWay
<1>4. PICK k \in Lines : IsEvent(k) /\ stdout[k].of = offered + 1
  BY <1>1, <1>2, <1>3 DEF HostInv, EventsUnderWay
<1>5. k = 1
  BY <1>1, <1>2, <1>3, <1>4 DEF HostInv, EventsUnderWay
<1>6. QED
  BY <1>1, <1>3, <1>4, <1>5

LEMMA DeliverKeeps ==
  ASSUME HostInv, Deliver
  PROVE  HostInv'
<1>1. /\ stdout \in Seq(Line) /\ stdout # <<>> /\ Len(stdout) \in Nat \ {0}
      /\ Head(stdout) = stdout[1] /\ Head(stdout) \in Line
      /\ stdout' \in Seq(Line) /\ Len(stdout') = Len(stdout) - 1
      /\ \A k \in 1 .. Len(stdout') : stdout'[k] = stdout[k + 1]
  BY HeadTailProperties, EmptySeq DEF HostInv, HostTypeOK, Deliver
<1>2. /\ Head(stdout).kind \in {"reply", "event"}
      /\ Head(stdout).kind = "reply" => Head(stdout).of \in Requests
  BY <1>1, LineIs
<1>3. stdoutAt # "done" /\ ~cut /\ ~exited /\ consumer # "ended"
  BY <1>1 DEF HostInv, PipeIsEmpty, ExitComesLast
<1>4. /\ UNCHANGED <<process, consumer, last, taken, written, replied, cut>>
      /\ UNCHANGED <<pi, heir, stdin, stdoutAt, exitRecord, drainTimer, exited, stop>>
  BY DEF Deliver, process
<1>5. HostTypeOK'
  BY <1>1, <1>2, <1>4 DEF HostInv, HostTypeOK, Deliver
<1>6. Asked'
  BY <1>2, <1>4 DEF HostInv, HostTypeOK, Asked, Deliver
<1>7. ExitComesLast'
  BY <1>3, <1>2, <1>4 DEF HostInv, HostTypeOK, Asked, ExitComesLast, Deliver
<1>8. RepliesUnderWay'
  <2> SUFFICES ASSUME NEW i \in replied, i \in pending'
               PROVE  \E k \in Lines' : stdout'[k].kind = "reply" /\ stdout'[k].of = i
    BY <1>4 DEF RepliesUnderWay
  <2>1. i \in pending /\ ~(stdout[1].kind = "reply" /\ stdout[1].of = i)
    BY <1>1, <1>2 DEF Deliver
  <2>2. PICK k \in Lines : stdout[k].kind = "reply" /\ stdout[k].of = i
    BY <1>3, <2>1 DEF HostInv, RepliesUnderWay
  <2>3. k # 1 /\ k - 1 \in Lines' /\ stdout'[k - 1] = stdout[k]
    BY <1>1, <2>1, <2>2
  <2>4. QED
    BY <2>2, <2>3
<1>9. EventsUnderWay'
  <2> SUFFICES ASSUME consumer \in {"none", "reading"}
               PROVE  EventsUnderWay'
    BY <1>4 DEF EventsUnderWay
  <2>1. written \in Nat /\ offered \in Nat
    BY DEF HostInv, HostTypeOK
  <2>2. /\ offered <= written
        /\ \A k \in Lines : IsEvent(k) =>
             stdout[k].of \in Nat /\ offered < stdout[k].of /\ stdout[k].of <= written
        /\ \A j, k \in Lines : j < k /\ IsEvent(j) /\ IsEvent(k) => stdout[j].of < stdout[k].of
        /\ \A n \in (offered + 1) .. written : \E k \in Lines : IsEvent(k) /\ stdout[k].of = n
    BY <1>3, <2>1 DEF HostInv, EventsUnderWay
  <2>3. /\ \A k \in Lines' : k + 1 \in Lines /\ k + 1 > 1 /\ stdout'[k] = stdout[k + 1]
        /\ 1 \in Lines
        /\ \A j, k \in Lines' : j < k => j + 1 < k + 1
        /\ \A j, k \in Lines' : j < k /\ IsEvent(j)' /\ IsEvent(k)' => stdout'[j].of < stdout'[k].of
    BY <1>1, <2>2
  <2>4. CASE Head(stdout).kind = "reply"
    <3>1. offered' = offered
      BY <2>4 DEF Deliver
    <3>2. \A n \in (offered + 1) .. written : \E k \in Lines' : IsEvent(k)' /\ stdout'[k].of = n
      <4> SUFFICES ASSUME NEW n \in (offered + 1) .. written
                   PROVE  \E k \in Lines' : IsEvent(k)' /\ stdout'[k].of = n
        OBVIOUS
      <4>1. PICK k \in Lines : IsEvent(k) /\ stdout[k].of = n
        BY <2>2
      <4>2. k # 1 /\ k - 1 \in Lines' /\ stdout'[k - 1] = stdout[k]
        BY <1>1, <2>4, <4>1
      <4>3. IsEvent(k - 1)' /\ stdout'[k - 1].of = n
        BY <4>1, <4>2
      <4>4. QED
        BY <4>2, <4>3
    <3>3. \A k \in Lines' : IsEvent(k)' => stdout'[k].of \in (offered' + 1) .. written
      <4> SUFFICES ASSUME NEW k \in Lines', IsEvent(k)'
                   PROVE  stdout'[k].of \in (offered' + 1) .. written
        OBVIOUS
      <4>1. k + 1 \in Lines /\ IsEvent(k + 1) /\ stdout'[k].of = stdout[k + 1].of
        BY <2>3
      <4>2. stdout[k + 1].of \in Nat /\ offered < stdout[k + 1].of /\ stdout[k + 1].of <= written
        BY <2>2, <4>1
      <4> QED
        BY <2>1, <3>1, <4>1, <4>2
    <3>4. QED
      BY <1>4, <2>1, <2>2, <2>3, <3>1, <3>2, <3>3 DEF EventsUnderWay
  <2>5. CASE Head(stdout).kind = "event"
    <3>1. Head(stdout).of = offered + 1 /\ offered < written
      BY <1>1, <2>5, HeadIsNext
    <3>2. offered' = offered + 1
      BY <2>5 DEF Deliver
    <3>3. \A k \in Lines' : IsEvent(k)' => stdout'[k].of \in (offered' + 1) .. written
      <4> SUFFICES ASSUME NEW k \in Lines', IsEvent(k)'
                   PROVE  stdout'[k].of \in (offered' + 1) .. written
        OBVIOUS
      <4>1. k + 1 \in Lines /\ 1 \in Lines /\ 1 < k + 1 /\ IsEvent(1) /\ IsEvent(k + 1)
        BY <1>1, <2>3, <2>5
      <4>2. stdout[1].of < stdout[k + 1].of
        BY <2>2, <4>1
      <4>3. stdout[1].of = offered + 1 /\ stdout[k + 1].of \in Nat /\ stdout[k + 1].of <= written
        BY <1>1, <2>2, <3>1, <4>1
      <4>4. stdout[k + 1].of \in (offered + 2) .. written
        BY <2>1, <4>2, <4>3
      <4>5. QED
        BY <2>1, <2>3, <3>2, <4>4
    <3>4. \A n \in (offered' + 1) .. written : \E k \in Lines' : IsEvent(k)' /\ stdout'[k].of = n
      <4> SUFFICES ASSUME NEW n \in (offered' + 1) .. written
                   PROVE  \E k \in Lines' : IsEvent(k)' /\ stdout'[k].of = n
        OBVIOUS
      <4>1. PICK k \in Lines : IsEvent(k) /\ stdout[k].of = n
        BY <2>1, <2>2, <3>2
      <4>2. k # 1
        BY <1>1, <2>1, <3>1, <3>2, <4>1
      <4>3. k - 1 \in Lines' /\ stdout'[k - 1] = stdout[k]
        BY <1>1, <4>1, <4>2
      <4>4. IsEvent(k - 1)' /\ stdout'[k - 1].of = n
        BY <4>1, <4>3
      <4>5. QED
        BY <4>3, <4>4
    <3>5. QED
      BY <1>4, <2>1, <2>3, <3>1, <3>2, <3>3, <3>4 DEF EventsUnderWay
  <2>6. QED
    BY <1>2, <2>4, <2>5
<1>10. PipeIsEmpty'
  BY <1>3, <1>4 DEF HostInv, PipeIsEmpty
<1>11. QED
  BY <1>5, <1>6, <1>7, <1>8, <1>9, <1>10 DEF HostInv

-----------------------------------------------------------------------------
(* The exit.                                                               *)

\* What the published exit settles: nothing pi answered, unless its lines were cut.
LEMMA PublishKeeps ==
  ASSUME HostInv, stdout = <<>>, NEW ready \in BOOLEAN, Publish(ready), ready => pi = "dead",
         ready <=> exitRecord' /\ stdoutAt' = "done", ~exited,
         UNCHANGED <<pi, heir, stdin, stdout, consumer, offered, taken, written, replied, cut>>
  PROVE  /\ exited' <=> exitRecord' /\ stdoutAt' = "done"
         /\ exited' \in BOOLEAN /\ stop' \in {"none", "waiting", "killed", "returned"}
         /\ pending' \subseteq Requests /\ last' \in Nat
         /\ answer' \in [Requests -> {Unsettled, "reply", "timeout", "exited"}]
         /\ ExitComesLast' /\ Asked' /\ RepliesUnderWay' /\ EventsUnderWay'
         /\ exited' => last' = offered'
         /\ consumer' = "ended" => exited'
<1>1. HostTypeOK
  BY DEF HostInv
<1>2. ~cut => replied \cap pending = {}
  BY DEF HostInv, RepliesUnderWay
<1>3. consumer # "ended"
  BY DEF HostInv, PipeIsEmpty
<1>4. EventsUnderWay'
  BY DEF HostInv, EventsUnderWay
<1>5. CASE ready
  <2>1. /\ exited' = TRUE /\ pending' = {} /\ last' = offered
        /\ stop' \in {"none", "returned", stop}
        /\ answer' = [i \in Requests |-> IF i \in pending THEN "exited" ELSE answer[i]]
    BY <1>5 DEF Publish
  <2>2. /\ answer' \in [Requests -> {Unsettled, "reply", "timeout", "exited"}]
        /\ \A i \in Requests : answer'[i] = IF i \in pending THEN "exited" ELSE answer[i]
    BY <1>1, <2>1 DEF HostTypeOK
  <2>3. exited' <=> exitRecord' /\ stdoutAt' = "done"
    BY <1>5, <2>1
  <2>4. Asked'
    BY <1>1, <2>1, <2>2 DEF HostInv, Asked, HostTypeOK
  <2>5. ExitComesLast'
    BY <1>1, <1>2, <1>3, <2>1, <2>2 DEF HostInv, ExitComesLast, HostTypeOK
  <2>6. RepliesUnderWay'
    BY <2>1 DEF RepliesUnderWay
  <2>7. QED
    BY <1>1, <1>3, <1>4, <2>1, <2>2, <2>3, <2>4, <2>5, <2>6 DEF HostTypeOK
<1>6. CASE ~ready
  <2>1. UNCHANGED <<exited, answer, pending, last, stop>>
    BY <1>6 DEF Publish
  <2>2. exited' <=> exitRecord' /\ stdoutAt' = "done"
    BY <1>6, <2>1
  <2>3. Asked' /\ ExitComesLast' /\ RepliesUnderWay'
    BY <2>1 DEF HostInv, Asked, ExitComesLast, RepliesUnderWay
  <2>4. QED
    BY <1>1, <1>3, <1>4, <2>1, <2>2, <2>3 DEF HostTypeOK
<1>7. QED
  BY <1>5, <1>6

\* The exit is published by whichever of its two conditions comes last.
LEMMA DrainedKeeps ==
  ASSUME HostInv, Drained
  PROVE  HostInv'
<1>1. HostTypeOK /\ stdout = <<>> /\ ~exited /\ stdoutAt' = "done" /\ pi = "dead"
  BY DEF HostInv, HostTypeOK, Drained
<1>2. exitRecord \in BOOLEAN /\ exitRecord' = exitRecord /\ drainTimer' \in BOOLEAN
  BY <1>1 DEF HostTypeOK, Drained, Publish
<1>3. /\ exited' <=> exitRecord' /\ stdoutAt' = "done"
      /\ exited' \in BOOLEAN /\ stop' \in {"none", "waiting", "killed", "returned"}
      /\ pending' \subseteq Requests /\ last' \in Nat
      /\ answer' \in [Requests -> {Unsettled, "reply", "timeout", "exited"}]
      /\ ExitComesLast' /\ Asked' /\ RepliesUnderWay' /\ EventsUnderWay'
      /\ exited' => last' = offered'
      /\ consumer' = "ended" => exited'
  BY <1>1, <1>2, PublishKeeps DEF Drained
<1>4. HostTypeOK'
  BY <1>1, <1>2, <1>3 DEF HostTypeOK, Drained
<1>5. PipeIsEmpty'
  BY <1>1, <1>3 DEF HostInv, PipeIsEmpty, Drained
<1>6. QED
  BY <1>3, <1>4, <1>5 DEF HostInv

LEMMA ExitObservedKeeps ==
  ASSUME HostInv, ExitObserved
  PROVE  HostInv'
<1>1. HostTypeOK /\ ~exited /\ exitRecord' = TRUE /\ pi = "dead"
  BY DEF HostInv, HostTypeOK, ExitObserved
<1>2. stdoutAt' = stdoutAt /\ drainTimer' \in BOOLEAN
  BY <1>1 DEF HostTypeOK, ExitObserved, Publish
<1>3. CASE stdoutAt = "done"
  <2>1. stdout = <<>>
    BY <1>3 DEF HostInv, PipeIsEmpty
  <2>2. Publish(TRUE)
    BY <1>3 DEF ExitObserved, Publish
  <2>3. UNCHANGED <<pi, heir, stdin, stdout, stdoutAt, consumer, offered, taken, written, replied,
                    cut>>
    BY DEF ExitObserved
  <2>4. /\ exited' <=> exitRecord' /\ stdoutAt' = "done"
        /\ exited' \in BOOLEAN /\ stop' \in {"none", "waiting", "killed", "returned"}
        /\ pending' \subseteq Requests /\ last' \in Nat
        /\ answer' \in [Requests -> {Unsettled, "reply", "timeout", "exited"}]
        /\ ExitComesLast' /\ Asked' /\ RepliesUnderWay' /\ EventsUnderWay'
        /\ exited' => last' = offered'
        /\ consumer' = "ended" => exited'
    BY <1>1, <1>2, <1>3, <2>1, <2>2, <2>3, PublishKeeps
  <2>5. HostTypeOK'
    BY <1>1, <1>2, <2>3, <2>4 DEF HostTypeOK
  <2>6. PipeIsEmpty'
    BY <1>1, <2>3, <2>4 DEF HostInv, PipeIsEmpty
  <2>7. QED
    BY <2>4, <2>5, <2>6 DEF HostInv
<1>4. CASE stdoutAt # "done"
  <2>1. UNCHANGED <<pi, heir, stdin, stdout, stdoutAt, exited, stop, pending, answer, consumer,
                    offered, last, taken, written, replied, cut>>
    BY <1>4 DEF ExitObserved, Publish
  <2>2. ~(exited' <=> TRUE) /\ exited' \in BOOLEAN
    BY <1>1, <2>1 DEF HostTypeOK
  <2>3. HostTypeOK'
    BY <1>1, <1>2, <1>4, <2>1, <2>2 DEF HostTypeOK
  <2>4. ExitComesLast' /\ Asked' /\ RepliesUnderWay' /\ EventsUnderWay' /\ PipeIsEmpty'
    BY <1>1, <2>1 DEF HostInv, ExitComesLast, Asked, RepliesUnderWay, EventsUnderWay, PipeIsEmpty
  <2>5. QED
    BY <2>3, <2>4 DEF HostInv
<1>5. QED
  BY <1>3, <1>4

LEMMA DrainTimerKeeps ==
  ASSUME HostInv, DrainTimerFires
  PROVE  HostInv'
<1>1. /\ HostTypeOK /\ stdoutAt = "open" /\ stdoutAt' = "closed" /\ stdout' = <<>>
      /\ UNCHANGED <<pi, heir, stdin, exitRecord, drainTimer, exited, stop, pending, answer,
                     consumer, offered, last, taken, written, replied>>
  BY DEF HostInv, DrainTimerFires, feed
<1>2. pi = "dead" /\ ~cut /\ ~exited /\ consumer # "ended"
  BY <1>1 DEF HostInv, HostTypeOK, PipeIsEmpty, DrainTimerFires
<1>3. stdout' \in Seq(Line) /\ Len(stdout') = 0
  BY <1>1
<1>4. cut' \in BOOLEAN /\ (stdout # <<>> => cut') /\ (stdout = <<>> => ~cut')
  BY DEF DrainTimerFires
<1>5. HostTypeOK'
  BY <1>1, <1>2, <1>3, <1>4 DEF HostTypeOK
<1>6. Asked' /\ PipeIsEmpty' /\ ExitComesLast'
  BY <1>1, <1>2, <1>4 DEF HostInv, Asked, PipeIsEmpty, ExitComesLast
<1>7. CASE stdout = <<>>
  <2>1. UNCHANGED <<stdout, pending, replied, consumer, offered, written>> /\ ~cut'
    BY <1>1, <1>4, <1>7
  <2>2. RepliesUnderWay' /\ EventsUnderWay'
    BY <1>2, <2>1 DEF HostInv, RepliesUnderWay, EventsUnderWay
  <2>3. QED
    BY <1>5, <1>6, <2>2 DEF HostInv
<1>8. CASE stdout # <<>>
  BY <1>4, <1>5, <1>6, <1>8 DEF HostInv, RepliesUnderWay, EventsUnderWay
<1>9. QED
  BY <1>7, <1>8

-----------------------------------------------------------------------------
(* The rest: pi dies, descendants come and go, stop, and the consumer.     *)

LEMMA ProcessKeeps ==
  ASSUME HostInv, PiDies \/ HeirStarts \/ HeirEnds \/ StdoutCloses
               \/ StopCalled \/ KillTimerFires \/ DeadlinePasses
  PROVE  HostInv'
<1>1. /\ UNCHANGED <<stdout, exitRecord, drainTimer, exited, pending, answer, consumer, offered,
                     last, taken, written, replied, cut>>
      /\ pi' \in {pi, "dead"} /\ stdin' \in {stdin, {}}
      /\ stdoutAt' = stdoutAt \/ (pi = "dead" /\ stdoutAt = "open" /\ stdoutAt' = "closed")
      /\ pi = "running" \/ pi' = pi
      /\ stop' \in {stop, "waiting", "killed", "returned"}
      /\ heir' \in {heir, TRUE, FALSE}
  BY DEF PiDies, HeirStarts, HeirEnds, StdoutCloses, StopCalled, KillTimerFires, DeadlinePasses,
         feed, HostInv, HostTypeOK
<1>2. HostTypeOK'
  <2>1. HostTypeOK
    BY DEF HostInv
  <2>2. pi' \in {"running", "dead"} /\ heir' \in BOOLEAN
        /\ stop' \in {"none", "waiting", "killed", "returned"}
        /\ stdoutAt' \in {"open", "closed", "done"} /\ stdin' \subseteq Requests
    BY <1>1, <2>1 DEF HostTypeOK
  <2>3. /\ exitRecord' \/ stdoutAt' # "open" => pi' = "dead"
        /\ exited' <=> exitRecord' /\ stdoutAt' = "done"
    BY <1>1, <2>1 DEF HostTypeOK
  <2>4. QED
    BY <1>1, <2>1, <2>2, <2>3 DEF HostTypeOK
<1>3. ExitComesLast' /\ Asked' /\ RepliesUnderWay' /\ EventsUnderWay'
  BY <1>1 DEF HostInv, ExitComesLast, Asked, RepliesUnderWay, EventsUnderWay
<1>4. PipeIsEmpty'
  BY <1>1 DEF HostInv, PipeIsEmpty
<1>5. QED
  BY <1>2, <1>3, <1>4 DEF HostInv

LEMMA ConsumerKeeps ==
  ASSUME HostInv, Claim \/ Take \/ TakeExit \/ Leave
  PROVE  HostInv'
<1>1. UNCHANGED <<pi, heir, stdin, stdout, stdoutAt, exitRecord, drainTimer, exited, stop,
                  pending, answer, offered, last, written, replied, cut>>
  BY DEF Claim, Take, TakeExit, Leave, process
<1>2. /\ consumer' \in {"none", "reading", "left", "ended"} /\ taken' \in Nat
      /\ consumer # "ended"
      /\ consumer' \in {"none", "reading"} => consumer \in {"none", "reading"}
      /\ consumer' = "ended" => consumer = "reading" /\ exited /\ taken = last /\ taken' = taken
  BY DEF Claim, Take, TakeExit, Leave, HostInv, HostTypeOK
<1>3. HostTypeOK'
  BY <1>1, <1>2 DEF HostInv, HostTypeOK
<1>4. Asked' /\ RepliesUnderWay' /\ EventsUnderWay' /\ PipeIsEmpty'
  BY <1>1, <1>2 DEF HostInv, Asked, RepliesUnderWay, EventsUnderWay, PipeIsEmpty
<1>5. ExitComesLast'
  <2>1. consumer' = "ended" /\ ~cut => offered = written
    <3> SUFFICES ASSUME consumer' = "ended", ~cut
                 PROVE  offered = written
      OBVIOUS
    <3>1. stdout = <<>> /\ Len(stdout) = 0 /\ offered \in Nat /\ written \in Nat
      BY <1>2 DEF HostInv, ExitComesLast, HostTypeOK
    <3>2. offered <= written /\ \A n \in (offered + 1) .. written : FALSE
      BY <1>2, <3>1 DEF HostInv, EventsUnderWay
    <3>3. QED
      BY <3>1, <3>2
  <2>2. QED
    BY <1>1, <1>2, <2>1 DEF HostInv, ExitComesLast, PipeIsEmpty
<1>6. QED
  BY <1>3, <1>4, <1>5 DEF HostInv

-----------------------------------------------------------------------------

LEMMA NextHostInv == HostInv /\ [HostNext]_hostVars => HostInv'
<1> SUFFICES ASSUME HostInv, [HostNext]_hostVars
             PROVE  HostInv'
  OBVIOUS
<1>1. CASE UNCHANGED hostVars
  BY <1>1 DEF hostVars, HostInv, HostTypeOK, ExitComesLast, Asked, RepliesUnderWay, EventsUnderWay,
              PipeIsEmpty
<1>2. CASE \E i \in Requests : Ask(i) \/ TimesOut(i) \/ PiAnswers(i)
  BY <1>2, RequestsKeep, AnswersKeep
<1>3. CASE PiEmits \/ Deliver
  BY <1>3, EmitsKeep, DeliverKeeps
<1>4. CASE ExitObserved \/ DrainTimerFires \/ Drained
  BY <1>4, ExitObservedKeeps, DrainTimerKeeps, DrainedKeeps
<1>5. CASE HeirStarts \/ HeirEnds \/ PiDies \/ StdoutCloses
           \/ StopCalled \/ KillTimerFires \/ DeadlinePasses
  BY <1>5, ProcessKeeps
<1>6. CASE Claim \/ Take \/ TakeExit \/ Leave
  BY <1>6, ConsumerKeeps
<1>7. QED
  BY <1>1, <1>2, <1>3, <1>4, <1>5, <1>6 DEF HostNext

\* The invariant the order of a pi process's output and exit rests on: what was written
\* and not yet handed over is in the pipe, and the pipe is empty where the exit is published.
THEOREM HostInvariant == HostSpec => []HostInv
BY InitHostInv, NextHostInv, PTL DEF HostSpec

\* The exit of pi is the last thing its users see: no request that pi answered fails for
\* the exit, none waits on a dead pi, and no event is lost before it.
THEOREM ExitIsLast == HostSpec => []ExitComesLast
<1>1. HostInv => ExitComesLast
  BY DEF HostInv
<1>2. QED
  BY <1>1, HostInvariant, PTL

\* A step of the host is a step of the promises its requests are, or none.
LEMMA HostStepIsAPromiseStep ==
  ASSUME HostInv, HostNext
  PROVE  HostPromise!Next \/ UNCHANGED <<pending, answer>>
<1> USE DEF HostPromise!Next
<1>0. pending \subseteq Requests /\ answer \in [Requests -> {"none", "reply", "timeout", "exited"}]
  BY DEF HostInv, HostTypeOK
<1>1. ASSUME NEW i \in Requests, Ask(i)
      PROVE  HostPromise!Next
  <2>1. CASE exited
    <3>1. /\ answer' = [answer EXCEPT ![i] = "exited"] /\ answer'[i] = "exited"
          /\ UNCHANGED pending
      BY <1>0, <1>1, <2>1 DEF Ask
    <3>2. HostPromise!Refuse(i)
      BY <1>1, <3>1 DEF Ask, HostPromise!Refuse, HostPromise!Fresh
    <3>3. QED
      BY <3>2
  <2>2. CASE ~exited
    <3>1. HostPromise!Open(i)
      BY <1>1, <2>2 DEF Ask, HostPromise!Open, HostPromise!Fresh
    <3>2. QED
      BY <3>1
  <2>3. QED
    BY <2>1, <2>2
<1>2. ASSUME NEW i \in pending, NEW o \in {"reply", "timeout"},
             pending' = pending \ {i}, answer' = [answer EXCEPT ![i] = o]
      PROVE  HostPromise!Next
  <2>1. answer' = [j \in Requests |-> IF j \in {i} THEN answer'[j] ELSE answer[j]]
        /\ answer'[i] = o
    BY <1>0, <1>2
  <2>2. HostPromise!Settle({i})
    BY <1>2, <2>1 DEF HostPromise!Settle
  <2>3. QED
    BY <1>0, <2>2
<1>3. ASSUME NEW ready, Publish(ready)
      PROVE  HostPromise!Next \/ UNCHANGED <<pending, answer>>
  <2>1. CASE ready
    <3>1. /\ pending' = pending \ pending
          /\ answer' = [j \in Requests |-> IF j \in pending THEN answer'[j] ELSE answer[j]]
          /\ \A j \in pending : answer'[j] = "exited"
      BY <1>0, <1>3, <2>1 DEF Publish
    <3>2. HostPromise!Settle(pending)
      BY <3>1 DEF HostPromise!Settle
    <3>3. QED
      BY <1>0, <3>2
  <2>2. QED
    BY <1>3, <2>1 DEF Publish
<1>4. CASE Deliver
  BY <1>2, <1>4 DEF Deliver
<1>5. ASSUME NEW i \in Requests, TimesOut(i)
      PROVE  HostPromise!Next
  BY <1>2, <1>5 DEF TimesOut
<1>6. CASE ExitObserved \/ Drained
  BY <1>3, <1>6 DEF ExitObserved, Drained
<1>7. QED
  BY <1>1, <1>4, <1>5, <1>6
     DEF HostNext, PiAnswers, PiEmits, HeirStarts, HeirEnds, PiDies, StdoutCloses,
         DrainTimerFires, StopCalled, KillTimerFires, DeadlinePasses, Claim, Take, TakeExit,
         Leave

\* The requests to pi implement the abstract promise: opened once, and settled once, by a
\* reply, a timeout or the exit, whichever comes first.
THEOREM AnswersImplementPromises == HostSpec => AnswersArePromises
<1>1. HostInit => HostPromise!Init
  BY DEF HostInit, HostPromise!Init
<1>2. HostInv /\ [HostNext]_hostVars => [HostPromise!Next]_(HostPromise!jobVars)
  BY HostStepIsAPromiseStep DEF hostVars, HostPromise!jobVars
<1>3. QED
  BY <1>1, <1>2, HostInvariant, PTL DEF HostSpec, AnswersArePromises, HostPromise!Spec

-----------------------------------------------------------------------------
(* The four components of MCServerRuns.                                    *)

\* A behaviour of the composition is a behaviour of each component: of one it is the
\* behaviour, of the others it is one that never leaves its beginning.
LEMMA AllStepsAreSteps ==
  ASSUME [AllNext]_<<part, vars, childVars, hostVars, checkoutVars>>
  PROVE  [Next]_vars /\ [ChildNext]_childVars /\ [HostNext]_hostVars /\ [CheckoutNext]_checkoutVars
BY DEF AllNext

\* What MCServerRuns checks, it checks of all four: of each component's own specification.
THEOREM EachComponentRuns ==
  AllSpec => Spec /\ ChildSpec /\ HostSpec /\ CheckoutSpec
<1>1. AllInit => Init /\ ChildInit /\ HostInit /\ CheckoutInit
  BY DEF AllInit
<1>2. [AllNext]_<<part, vars, childVars, hostVars, checkoutVars>>
      => [Next]_vars /\ [ChildNext]_childVars /\ [HostNext]_hostVars /\ [CheckoutNext]_checkoutVars
  BY AllStepsAreSteps
<1> QED
  BY <1>1, <1>2, PTL DEF AllSpec, Spec, ChildSpec, HostSpec, CheckoutSpec

\* Every reachable state of the four is of its type: the run's record in memory and in the
\* store, the children's launches and worktrees, the pipe of pi, the Loop's checkouts.
THEOREM AllTyped == AllSpec => []AllTypeOK
<1>1. ChildInv => ChildTypeOK
  BY DEF ChildInv
<1>2. HostInv => HostTypeOK
  BY DEF HostInv
<1>3. TypeOK /\ ChildTypeOK /\ HostTypeOK /\ CheckoutTypeOK => AllTypeOK
  BY DEF AllTypeOK
<1> QED
  BY <1>1, <1>2, <1>3, EachComponentRuns, RunTyped, InductiveInvariant, HostInvariant, TypeCorrect, PTL
=============================================================================
