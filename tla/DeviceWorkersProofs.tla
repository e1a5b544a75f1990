------------------------ MODULE DeviceWorkersProofs ------------------------
(***************************************************************************)
(* Theorems about DeviceWorkers, for any devices, targets and jobs and for *)
(* every use the GUI may make of them: types, the connection that a job    *)
(* gets, and the implementation of JobService.                             *)
(***************************************************************************)
EXTENDS DeviceWorkers, SequenceTheorems, TLAPS

\* Nothing outlives its thread: no item, no job, no connection.
NothingWithoutThread ==
    \A d \in Devices \ threads :
        queue[d] = << >> /\ active[d] = None /\ conn[d] = None

\* Threads quit only while the GUI thread waits for them; with drain they do so
\* after their last item.
QuitIsAsked ==
    /\ closing = "no" => quitting \subseteq waiting
    /\ closing = "drain" => \A d \in quitting : queue[d] = << >>

WorkersInv == NothingWithoutThread /\ QuitIsAsked /\ JobReachesItsTarget

\* The jobs of one step of the GUI, as WorkersNext quantifies over them.
JobLists == [Devices -> Seq(Jobs)]

LEMMA AddressedIsItems ==
    ASSUME WorkersTypeOK, NEW jobs \in JobLists, NEW d \in Devices
    PROVE  /\ Addressed(d, jobs[d]) \in Seq(Items)
           /\ Len(Addressed(d, jobs[d])) = Len(jobs[d])
<1>1. target[d] \in Targets /\ jobs[d] \in Seq(Jobs)
  BY DEF WorkersTypeOK, JobLists
<1>2. \A i \in 1 .. Len(jobs[d]) : [job |-> jobs[d][i], target |-> target[d]] \in Items
  BY <1>1 DEF Items
<1>3. Addressed(d, jobs[d])
        = [i \in 1 .. Len(jobs[d]) |-> [job |-> jobs[d][i], target |-> target[d]]]
  BY <1>1 DEF Addressed
<1> QED BY <1>1, <1>2, <1>3

\* What submitting does to the queues.
LEMMA SubmittedQueues ==
    ASSUME WorkersTypeOK, NEW jobs \in JobLists, Submitted(jobs)
    PROVE  /\ queue' \in [Devices -> Seq(Items)]
           /\ threads \subseteq threads' /\ threads' \subseteq Devices
           /\ \A d \in Devices :
                 /\ Len(queue[d]) <= Len(queue'[d])
                 /\ \A i \in 1 .. Len(queue[d]) : queue'[d][i] = queue[d][i]
           /\ \A d \in Devices \ threads' : queue'[d] = queue[d]
<1>1. \A d \in Devices :
        /\ queue[d] \in Seq(Items)
        /\ Addressed(d, jobs[d]) \in Seq(Items)
        /\ Len(Addressed(d, jobs[d])) = Len(jobs[d])
        /\ queue'[d] = queue[d] \o Addressed(d, jobs[d])
  BY AddressedIsItems DEF WorkersTypeOK, Submitted
<1>2. \A d \in Devices : queue'[d] \in Seq(Items)
  BY <1>1, ConcatProperties
<1>3. \A d \in Devices :
        /\ Len(queue[d]) <= Len(queue'[d])
        /\ \A i \in 1 .. Len(queue[d]) : queue'[d][i] = queue[d][i]
  <2> SUFFICES ASSUME NEW d \in Devices
               PROVE  /\ Len(queue[d]) <= Len(queue'[d])
                      /\ \A i \in 1 .. Len(queue[d]) : queue'[d][i] = queue[d][i]
    OBVIOUS
  <2> DEFINE s == queue[d]
             t == Addressed(d, jobs[d])
  <2>1. s \in Seq(Items) /\ t \in Seq(Items) /\ queue'[d] = s \o t
    BY <1>1
  <2> HIDE DEF s, t
  <2>2. /\ Len(s) \in Nat /\ Len(t) \in Nat
        /\ Len(s \o t) = Len(s) + Len(t)
        /\ \A i \in 1 .. Len(s) + Len(t) :
              (s \o t)[i] = IF i <= Len(s) THEN s[i] ELSE t[i - Len(s)]
    BY <2>1, ConcatProperties, LenProperties
  <2>3. Len(s) <= Len(s \o t) /\ \A i \in 1 .. Len(s) : (s \o t)[i] = s[i]
    BY <2>2
  <2> QED BY <2>1, <2>3 DEF s
<1>4. ASSUME NEW d \in Devices \ threads' PROVE queue'[d] = queue[d]
  <2>1. Len(jobs[d]) = 0
    BY <1>4, EmptySeq DEF Submitted
  <2>2. Addressed(d, jobs[d]) = << >>
    BY <1>1, <2>1, EmptySeq
  <2> QED BY <1>1, <2>2, ConcatEmptySeq
<1>5. queue' = [d \in Devices |-> queue'[d]]
  BY DEF Submitted
<1> QED BY <1>2, <1>3, <1>4, <1>5 DEF Submitted, WorkersTypeOK

\* The step is one in which the GUI thread submits, whatever else it does.
LEMMA SubmitsIn ==
    ASSUME NEW jobs \in JobLists, NEW ds \in SUBSET Devices, NEW drain \in BOOLEAN,
           Submit(jobs) \/ SubmitAndRemove(jobs, ds) \/ SubmitAndShutdown(jobs, drain)
    PROVE  /\ GuiIsFree /\ Submitted(jobs)
           /\ UNCHANGED <<target, active, conn, posted>>
  BY DEF Submit, SubmitAndRemove, SubmitAndShutdown, guiVars

-----------------------------------------------------------------------------
LEMMA SubmitKeepsType ==
    ASSUME WorkersTypeOK, NEW jobs \in JobLists, NEW ds \in SUBSET Devices,
           NEW drain \in BOOLEAN,
           Submit(jobs) \/ SubmitAndRemove(jobs, ds) \/ SubmitAndShutdown(jobs, drain)
    PROVE  WorkersTypeOK'
<1>1. /\ queue' \in [Devices -> Seq(Items)]
      /\ threads \subseteq threads' /\ threads' \subseteq Devices
      /\ UNCHANGED <<target, active, conn, posted>>
  BY SubmitsIn, SubmittedQueues
<1>2. /\ quitting' \subseteq threads'
      /\ waiting' \subseteq Devices
      /\ closing' \in {"no", "drain", "drop"}
  BY <1>1 DEF Submit, SubmitAndRemove, SubmitAndShutdown, guiVars, WorkersTypeOK
<1> QED BY <1>1, <1>2 DEF WorkersTypeOK

LEMMA HeadIsItem ==
    ASSUME WorkersTypeOK, NEW d \in Devices, queue[d] # << >>
    PROVE  /\ Head(queue[d]) \in Items /\ Head(queue[d]).target \in Targets
           /\ Tail(queue[d]) \in Seq(Items)
           /\ queue[d] = <<Head(queue[d])>> \o Tail(queue[d])
<1> DEFINE s == queue[d]
<1>1. s \in Seq(Items) /\ s # << >>
  BY DEF WorkersTypeOK
<1> HIDE DEF s
<1>2. /\ Head(s) \in Items /\ Tail(s) \in Seq(Items)
      /\ Len(s) \in Nat /\ Len(Tail(s)) = Len(s) - 1 /\ Head(s) = s[1]
      /\ \A i \in 1 .. Len(Tail(s)) : Tail(s)[i] = s[i + 1]
  BY <1>1, HeadTailProperties, LenProperties
<1>3. Head(s).target \in Targets
  BY <1>2 DEF Items
<1>4. s = <<Head(s)>> \o Tail(s)
  <2> DEFINE h == <<Head(s)>>
             t == Tail(s)
  <2>1. h \in Seq(Items) /\ Len(h) = 1 /\ h[1] = s[1] /\ t \in Seq(Items)
    BY <1>2
  <2>2. Len(t) \in Nat /\ Len(t) = Len(s) - 1 /\ \A i \in 1 .. Len(t) : t[i] = s[i + 1]
    BY <1>1, <1>2
  <2> HIDE DEF h, t
  <2>3. /\ h \o t \in Seq(Items) /\ Len(h \o t) = Len(h) + Len(t)
        /\ \A i \in 1 .. Len(h) + Len(t) :
              (h \o t)[i] = IF i <= Len(h) THEN h[i] ELSE t[i - Len(h)]
    BY <2>1, ConcatProperties
  <2>6. Len(h) + Len(t) = Len(s)
    BY <2>1, <2>2, <1>2
  <2>4. \A i \in 1 .. Len(s) : (h \o t)[i] = s[i]
    BY <2>1, <2>2, <2>3, <2>6, <1>2
  <2>5. h \o t = s
    BY <1>1, <2>3, <2>4, <2>6, SeqEqual
  <2> QED BY <2>5 DEF h, t
<1> QED BY <1>2, <1>3, <1>4 DEF s

LEMMA ActiveIsItem ==
    ASSUME WorkersTypeOK, NEW d \in Devices, active[d] # None
    PROVE  active[d] \in Items
  BY DEF WorkersTypeOK

LEMMA ConnectionIsTarget ==
    ASSUME NEW d \in Devices, NEW t \in Targets
    PROVE  Connection(d, t) = t
  BY DEF Connection

LEMMA TypeStep ==
    ASSUME WorkersTypeOK, [WorkersNext]_workerVars
    PROVE  WorkersTypeOK'
<1>1. ASSUME NEW jobs \in JobLists, Submit(jobs) PROVE WorkersTypeOK'
  BY <1>1, SubmitKeepsType
<1>2. ASSUME NEW jobs \in JobLists, NEW ds \in SUBSET Devices, SubmitAndRemove(jobs, ds)
      PROVE  WorkersTypeOK'
  BY <1>2, SubmitKeepsType
<1>3. ASSUME NEW jobs \in JobLists, NEW drain \in BOOLEAN, SubmitAndShutdown(jobs, drain)
      PROVE  WorkersTypeOK'
  BY <1>3, SubmitKeepsType
<1>4. CASE WaitReturns
  BY <1>4 DEF WaitReturns, WorkersTypeOK
<1>5. CASE Deliver
  BY <1>5 DEF Deliver, WorkersTypeOK, guiVars
<1>6. ASSUME NEW d \in Devices, NEW t \in Targets, EditTarget(d, t) PROVE WorkersTypeOK'
  BY <1>6 DEF EditTarget, WorkersTypeOK
<1>7. ASSUME NEW d \in Devices, RemoveNext(d) PROVE WorkersTypeOK'
  BY <1>7 DEF RemoveNext, WorkersTypeOK, guiVars
<1>8. ASSUME NEW d \in Devices, BeginJob(d) PROVE WorkersTypeOK'
  BY <1>8, HeadIsItem, ConnectionIsTarget DEF BeginJob, CanRun, WorkersTypeOK, guiVars
<1>9. ASSUME NEW d \in Devices, ConnectThrows(d) PROVE WorkersTypeOK'
  BY <1>9, HeadIsItem DEF ConnectThrows, CanRun, WorkersTypeOK, guiVars, Result, Results
<1>10. ASSUME NEW d \in Devices, NEW ok \in BOOLEAN, EndJob(d, ok) PROVE WorkersTypeOK'
  BY <1>10, ActiveIsItem DEF EndJob, WorkersTypeOK, guiVars, Result, Results
<1>11. ASSUME NEW d \in Devices, OnQuit(d) PROVE WorkersTypeOK'
  BY <1>11 DEF OnQuit, WorkersTypeOK, guiVars
<1>12. ASSUME NEW d \in Devices, ThreadEnds(d) PROVE WorkersTypeOK'
  BY <1>12 DEF ThreadEnds, WorkersTypeOK, guiVars
<1>13. CASE UNCHANGED workerVars
  BY <1>13 DEF workerVars, guiVars, WorkersTypeOK
<1> QED BY <1>1, <1>2, <1>3, <1>4, <1>5, <1>6, <1>7, <1>8, <1>9, <1>10, <1>11, <1>12, <1>13
        DEF WorkersNext, JobLists

\* Types of all variables of the workers, under any use of them.
THEOREM WorkersTypeCorrect == WorkersSpec => []WorkersTypeOK
<1>1. WorkersInit => WorkersTypeOK
  BY DEF WorkersInit, WorkersTypeOK
<1> QED BY <1>1, TypeStep, PTL DEF WorkersSpec
-----------------------------------------------------------------------------
(* The invariant.                                                          *)

LEMMA SubmitKeepsInv ==
    ASSUME WorkersTypeOK, WorkersInv, NEW jobs \in JobLists, NEW ds \in SUBSET Devices,
           NEW drain \in BOOLEAN,
           Submit(jobs) \/ SubmitAndRemove(jobs, ds) \/ SubmitAndShutdown(jobs, drain)
    PROVE  WorkersInv'
<1>1. /\ GuiIsFree /\ threads \subseteq threads'
      /\ \A d \in Devices \ threads' : queue'[d] = queue[d]
      /\ UNCHANGED <<target, active, conn, posted>>
  BY SubmitsIn, SubmittedQueues
<1>2. NothingWithoutThread' /\ JobReachesItsTarget'
  BY <1>1 DEF WorkersInv, NothingWithoutThread, JobReachesItsTarget
<1>3. quitting = {}
  BY <1>1 DEF WorkersInv, QuitIsAsked, GuiIsFree
<1>4. QuitIsAsked'
  BY <1>1, <1>3 DEF Submit, SubmitAndRemove, SubmitAndShutdown, QuitIsAsked, GuiIsFree, guiVars
<1> QED BY <1>2, <1>4 DEF WorkersInv

LEMMA InvStep ==
    ASSUME WorkersTypeOK, WorkersInv, [WorkersNext]_workerVars
    PROVE  WorkersInv'
<1> USE DEF WorkersInv, NothingWithoutThread, QuitIsAsked, JobReachesItsTarget, guiVars
<1>1. ASSUME NEW jobs \in JobLists, Submit(jobs) PROVE WorkersInv'
  BY <1>1, SubmitKeepsInv
<1>2. ASSUME NEW jobs \in JobLists, NEW ds \in SUBSET Devices, SubmitAndRemove(jobs, ds)
      PROVE  WorkersInv'
  BY <1>2, SubmitKeepsInv
<1>3. ASSUME NEW jobs \in JobLists, NEW drain \in BOOLEAN, SubmitAndShutdown(jobs, drain)
      PROVE  WorkersInv'
  BY <1>3, SubmitKeepsInv
<1>4. CASE WaitReturns
  BY <1>4 DEF WaitReturns, WorkersTypeOK
<1>5. CASE Deliver
  BY <1>5 DEF Deliver
<1>6. ASSUME NEW d \in Devices, NEW t \in Targets, EditTarget(d, t) PROVE WorkersInv'
  BY <1>6 DEF EditTarget
<1>7. ASSUME NEW d \in Devices, RemoveNext(d) PROVE WorkersInv'
  BY <1>7 DEF RemoveNext
<1>8. ASSUME NEW d \in Devices, BeginJob(d) PROVE WorkersInv'
  <2>1. /\ d \in threads /\ queue[d] # << >> /\ d \in DOMAIN active /\ d \in DOMAIN conn
        /\ active' = [active EXCEPT ![d] = Head(queue[d])]
        /\ conn' = [conn EXCEPT ![d] = Head(queue[d]).target]
    BY <1>8, HeadIsItem, ConnectionIsTarget DEF BeginJob, CanRun, WorkersTypeOK
  <2>2. JobReachesItsTarget'
    BY <2>1
  <2>3. NothingWithoutThread'
    BY <1>8, <2>1 DEF BeginJob
  <2>4. QuitIsAsked'
    BY <1>8, <2>1 DEF BeginJob, WorkersTypeOK
  <2> QED BY <2>2, <2>3, <2>4
<1>9. ASSUME NEW d \in Devices, ConnectThrows(d) PROVE WorkersInv'
  BY <1>9 DEF ConnectThrows, CanRun, WorkersTypeOK
<1>10. ASSUME NEW d \in Devices, NEW ok \in BOOLEAN, EndJob(d, ok) PROVE WorkersInv'
  BY <1>10 DEF EndJob, WorkersTypeOK
<1>11. ASSUME NEW d \in Devices, OnQuit(d) PROVE WorkersInv'
  BY <1>11 DEF OnQuit
<1>12. ASSUME NEW d \in Devices, ThreadEnds(d) PROVE WorkersInv'
  BY <1>12 DEF ThreadEnds, WorkersTypeOK
<1>13. CASE UNCHANGED workerVars
  BY <1>13 DEF workerVars
<1> QED BY <1>1, <1>2, <1>3, <1>4, <1>5, <1>6, <1>7, <1>8, <1>9, <1>10, <1>11, <1>12, <1>13
        DEF WorkersNext, JobLists

LEMMA WorkersInvariant == WorkersSpec => [](WorkersTypeOK /\ WorkersInv)
<1>1. WorkersInit => WorkersTypeOK /\ WorkersInv
  BY DEF WorkersInit, WorkersTypeOK, WorkersInv, NothingWithoutThread, QuitIsAsked,
         JobReachesItsTarget
<1> QED BY <1>1, TypeStep, InvStep, PTL DEF WorkersSpec

\* A job is executed on a connection to the target captured with it.
THEOREM WorkersUseTheirTarget == WorkersSpec => []JobReachesItsTarget
<1>1. WorkersInv => JobReachesItsTarget
  BY DEF WorkersInv
<1> QED BY <1>1, WorkersInvariant, PTL
-----------------------------------------------------------------------------
(* The refinement.                                                         *)

LEMMA PendingIsSeq ==
    ASSUME WorkersTypeOK, NEW d \in Devices
    PROVE  /\ Executing(d) \in Seq(Items) /\ queue[d] \in Seq(Items)
           /\ Pending[d] = Executing(d) \o queue[d]
           /\ Pending[d] \in Seq(Items)
<1>1. queue[d] \in Seq(Items)
  BY DEF WorkersTypeOK
<1>2. Executing(d) \in Seq(Items)
  BY ActiveIsItem, EmptySeq DEF Executing
<1> QED BY <1>1, <1>2, ConcatProperties DEF Pending

\* With the same job executing, longer queues are longer lists of requests.
LEMMA PendingGrows ==
    ASSUME WorkersTypeOK, WorkersTypeOK', UNCHANGED active, NEW d \in Devices,
           Len(queue[d]) <= Len(queue'[d]),
           \A i \in 1 .. Len(queue[d]) : queue'[d][i] = queue[d][i]
    PROVE  /\ Len(Pending[d]) <= Len(Pending'[d])
           /\ \A i \in DOMAIN Pending[d] : Pending'[d][i] = Pending[d][i]
<1> DEFINE e == Executing(d)
           q == queue[d]
           r == queue'[d]
<1>1. /\ e \in Seq(Items) /\ q \in Seq(Items) /\ r \in Seq(Items)
      /\ Pending[d] = e \o q /\ Pending'[d] = e \o r
  <2>1. e \in Seq(Items) /\ q \in Seq(Items) /\ Pending[d] = e \o q
    BY PendingIsSeq
  <2>2. r \in Seq(Items)
    BY DEF WorkersTypeOK
  <2>3. Pending'[d] = e \o r
    BY DEF Pending, Executing
  <2> QED BY <2>1, <2>2, <2>3
<1>2. Len(q) <= Len(r) /\ \A i \in 1 .. Len(q) : r[i] = q[i]
  OBVIOUS
<1> HIDE DEF e, q, r
<1>3. Len(e) \in Nat /\ Len(q) \in Nat /\ Len(r) \in Nat
  BY <1>1, LenProperties
<1>4. /\ Len(e \o q) = Len(e) + Len(q) /\ Len(e \o r) = Len(e) + Len(r)
      /\ DOMAIN (e \o q) = 1 .. Len(e) + Len(q)
      /\ \A i \in 1 .. Len(e) + Len(q) :
            (e \o q)[i] = IF i <= Len(e) THEN e[i] ELSE q[i - Len(e)]
      /\ \A i \in 1 .. Len(e) + Len(r) :
            (e \o r)[i] = IF i <= Len(e) THEN e[i] ELSE r[i - Len(e)]
  BY <1>1, ConcatProperties, LenProperties
<1>5. \A i \in 1 .. Len(e) + Len(q) : (e \o r)[i] = (e \o q)[i]
  BY <1>2, <1>3, <1>4
<1> QED BY <1>1, <1>2, <1>3, <1>4, <1>5

LEMMA SubmitAsks ==
    ASSUME WorkersTypeOK, WorkersTypeOK', NEW jobs \in JobLists,
           NEW ds \in SUBSET Devices, NEW drain \in BOOLEAN,
           Submit(jobs) \/ SubmitAndRemove(jobs, ds) \/ SubmitAndShutdown(jobs, drain)
    PROVE  Service!MoreAsked
<1>1. \A d \in Devices :
        /\ Len(Pending[d]) <= Len(Pending'[d])
        /\ \A i \in DOMAIN Pending[d] : Pending'[d][i] = Pending[d][i]
  BY SubmitsIn, SubmittedQueues, PendingGrows
<1>2. \A d \in Devices : Pending'[d] \in Seq(Items)
  <2> SUFFICES ASSUME NEW d \in Devices PROVE (Executing(d) \o queue[d])' \in Seq(Items)
    BY DEF Pending
  <2>1. Executing(d)' \in Seq(Items) /\ queue'[d] \in Seq(Items)
    BY EmptySeq DEF Executing, WorkersTypeOK
  <2> QED BY <2>1, ConcatProperties
<1>3. Pending' \in [Devices -> Seq(Items)]
  BY <1>2 DEF Pending
<1> QED BY <1>1, <1>3 DEF Service!MoreAsked, Pending, Executing

LEMMA FirstAnswered ==
    ASSUME WorkersTypeOK, NEW d \in Devices, NEW item \in Items, NEW rest \in Seq(Items)
    PROVE  /\ <<item>> \o rest # << >>
           /\ Head(<<item>> \o rest) = item
           /\ Tail(<<item>> \o rest) = rest
<1> DEFINE s == <<item>> \o rest
<1>1. <<item>> \in Seq(Items) /\ Len(<<item>>) = 1 /\ <<item>>[1] = item
  OBVIOUS
<1>2. /\ s \in Seq(Items) /\ Len(s) = 1 + Len(rest) /\ Len(rest) \in Nat
      /\ \A i \in 1 .. 1 + Len(rest) : s[i] = IF i <= 1 THEN <<item>>[i] ELSE rest[i - 1]
  BY <1>1, ConcatProperties, LenProperties
<1> HIDE DEF s
<1>3. s # << >> /\ s[1] = item
  BY <1>1, <1>2, EmptySeq
<1>4. /\ Head(s) = s[1] /\ Tail(s) \in Seq(Items) /\ Len(Tail(s)) = Len(rest)
      /\ \A i \in 1 .. Len(rest) : Tail(s)[i] = s[i + 1]
  BY <1>2, <1>3, HeadTailProperties
<1>5. \A i \in 1 .. Len(rest) : Tail(s)[i] = rest[i]
  BY <1>2, <1>4
<1>6. Tail(s) = rest
  BY <1>4, <1>5, SeqEqual
<1> QED BY <1>3, <1>4, <1>6 DEF s

\* An item leaves the head of the requests and its result is posted.
LEMMA AnswersFirst ==
    ASSUME WorkersTypeOK, NEW d \in Devices, NEW ok \in BOOLEAN, NEW item \in Items,
           NEW rest \in Seq(Items), Pending[d] = <<item>> \o rest,
           Pending' = [Pending EXCEPT ![d] = rest],
           posted' = Append(posted, Result(d, item, ok)),
           UNCHANGED <<waiting, closing>>
    PROVE  Service!Answer(d, ok)
<1>1. /\ Pending[d] # << >> /\ Head(Pending[d]) = item /\ Tail(Pending[d]) = rest
  BY FirstAnswered
<1>2. posted' = Append(posted, [device |-> d, item |-> Head(Pending[d]), ok |-> ok])
  BY <1>1 DEF Result
<1>3. Pending' = [Pending EXCEPT ![d] = Tail(Pending[d])]
  BY <1>1
<1> QED BY <1>1, <1>2, <1>3 DEF Service!Answer, Pending, Executing, Leaving

LEMMA BeginAnswersNothing ==
    ASSUME WorkersTypeOK, NEW d \in Devices, BeginJob(d)
    PROVE  UNCHANGED Service!vars
<1>1. /\ active[d] = None /\ queue[d] # << >>
      /\ active' = [active EXCEPT ![d] = Head(queue[d])]
      /\ queue' = [queue EXCEPT ![d] = Tail(@)]
      /\ UNCHANGED <<posted, waiting, closing>>
  BY DEF BeginJob, CanRun, guiVars
<1>2. Head(queue[d]) \in Items /\ queue[d] = <<Head(queue[d])>> \o Tail(queue[d])
  BY <1>1, HeadIsItem
<1>3. Head(queue[d]) # None
  BY <1>2, WorkersAssumption DEF Items
<1>4. active'[d] = Head(queue[d]) /\ queue'[d] = Tail(queue[d])
  BY <1>1 DEF WorkersTypeOK
<1>5. Executing(d)' \o queue'[d] = queue[d]
  BY <1>2, <1>3, <1>4 DEF Executing
<1>6. Executing(d) \o queue[d] = queue[d]
  BY <1>1, PendingIsSeq, ConcatEmptySeq DEF Executing
<1>7. \A e \in Devices : Executing(e)' \o queue'[e] = Executing(e) \o queue[e]
  BY <1>1, <1>5, <1>6 DEF Executing, WorkersTypeOK
<1>8. Pending' = Pending
  BY <1>7 DEF Pending
<1> QED BY <1>1, <1>8 DEF Service!vars, Pending, Executing, Leaving

LEMMA ThrowAnswers ==
    ASSUME WorkersTypeOK, NEW d \in Devices, ConnectThrows(d)
    PROVE  Service!Answer(d, FALSE)
<1> DEFINE item == Head(queue[d])
           rest == Tail(queue[d])
<1>1. /\ active[d] = None /\ queue[d] # << >>
      /\ queue' = [queue EXCEPT ![d] = rest]
      /\ posted' = Append(posted, Result(d, item, FALSE))
      /\ UNCHANGED <<active, waiting, closing>>
  BY DEF ConnectThrows, CanRun, guiVars
<1>2. item \in Items /\ rest \in Seq(Items) /\ queue[d] = <<item>> \o rest
  BY <1>1, HeadIsItem
<1> HIDE DEF item, rest
<1>3. Pending[d] = <<item>> \o rest
  BY <1>1, <1>2, PendingIsSeq, ConcatEmptySeq DEF Executing
<1>4. Executing(d)' \o queue'[d] = rest
  BY <1>1, <1>2, ConcatEmptySeq DEF Executing, WorkersTypeOK
<1>5. \A e \in Devices \ {d} : Executing(e)' \o queue'[e] = Pending[e]
  BY <1>1 DEF Executing, Pending, WorkersTypeOK
<1>6. Pending' = [Pending EXCEPT ![d] = rest]
  BY <1>4, <1>5 DEF Pending
<1> QED BY <1>1, <1>2, <1>3, <1>6, AnswersFirst

LEMMA EndAnswers ==
    ASSUME WorkersTypeOK, NEW d \in Devices, NEW ok \in BOOLEAN, EndJob(d, ok)
    PROVE  Service!Answer(d, ok)
<1>1. /\ active[d] # None
      /\ active' = [active EXCEPT ![d] = None]
      /\ posted' = Append(posted, Result(d, active[d], ok))
      /\ UNCHANGED <<queue, waiting, closing>>
  BY DEF EndJob, guiVars
<1>2. active[d] \in Items /\ queue[d] \in Seq(Items)
  BY <1>1, ActiveIsItem, PendingIsSeq
<1>3. Pending[d] = <<active[d]>> \o queue[d]
  BY <1>1 DEF Pending, Executing
<1>4. Executing(d)' \o queue'[d] = queue[d]
  BY <1>1, <1>2, ConcatEmptySeq DEF Executing, WorkersTypeOK
<1>5. \A e \in Devices \ {d} : Executing(e)' \o queue'[e] = Pending[e]
  BY <1>1 DEF Executing, Pending, WorkersTypeOK
<1>6. Pending' = [Pending EXCEPT ![d] = queue[d]]
  BY <1>4, <1>5 DEF Pending
<1> QED BY <1>1, <1>2, <1>3, <1>6, AnswersFirst

\* A thread that ends drops requests only if its device is being left.
LEMMA EndDrops ==
    ASSUME WorkersTypeOK, WorkersInv, NEW d \in Devices, ThreadEnds(d)
    PROVE  Service!Drop(d) \/ UNCHANGED Service!vars
<1>1. /\ active[d] = None /\ d \in quitting
      /\ queue' = [queue EXCEPT ![d] = << >>]
      /\ UNCHANGED <<active, posted, waiting, closing>>
  BY DEF ThreadEnds, guiVars
<1>2. Executing(d)' \o queue'[d] = << >>
  BY <1>1, EmptySeq, ConcatEmptySeq DEF Executing, WorkersTypeOK
<1>3. \A e \in Devices \ {d} : Executing(e)' \o queue'[e] = Pending[e]
  BY <1>1 DEF Executing, Pending, WorkersTypeOK
<1>4. Pending' = [Pending EXCEPT ![d] = << >>]
  BY <1>2, <1>3 DEF Pending
<1>5. CASE closing \in {"no", "drop"}
  <2>1. d \in Leaving
    BY <1>1, <1>5 DEF Leaving, WorkersInv, QuitIsAsked
  <2> QED BY <1>1, <1>4, <2>1 DEF Service!Drop, Pending, Executing, Leaving
<1>6. CASE closing = "drain"
  <2>1. queue[d] = << >>
    BY <1>1, <1>6 DEF WorkersInv, QuitIsAsked
  <2>2. queue' = queue
    BY <1>1, <2>1 DEF WorkersTypeOK
  <2> QED BY <1>1, <2>2 DEF Service!vars, Pending, Executing, Leaving
<1> QED BY <1>5, <1>6 DEF WorkersTypeOK

LEMMA WaitLeaves ==
    ASSUME WorkersTypeOK, WorkersInv, WaitReturns
    PROVE  Service!Left \/ UNCHANGED Service!vars
<1>1. CASE closing = "no"
  <2>1. \A d \in waiting : Pending[d] = << >>
    <3> SUFFICES ASSUME NEW d \in waiting PROVE Pending[d] = << >>
      OBVIOUS
    <3>1. d \in Devices \ threads
      BY DEF WaitReturns, WorkersTypeOK
    <3>2. queue[d] = << >> /\ active[d] = None
      BY <3>1 DEF WorkersInv, NothingWithoutThread
    <3> QED BY <3>1, <3>2, EmptySeq, ConcatEmptySeq DEF Pending, Executing
  <2>2. /\ waiting' = {} /\ UNCHANGED <<queue, active, posted, closing>>
    BY DEF WaitReturns
  <2> QED BY <1>1, <2>1, <2>2 DEF Service!Left, Pending, Executing, Leaving
<1>2. CASE closing # "no"
  BY <1>2 DEF WaitReturns, Service!vars, WorkersTypeOK, Pending, Executing, Leaving
<1> QED BY <1>1, <1>2

LEMMA StepIsServiceStep ==
    ASSUME WorkersTypeOK, WorkersTypeOK', WorkersInv, [WorkersNext]_workerVars
    PROVE  [Service!Next]_(Service!vars)
<1> USE DEF Service!Next, Pending, Executing, Leaving
<1>1. ASSUME NEW jobs \in JobLists, Submit(jobs) PROVE Service!Request({})
  <2>1. GuiIsFree /\ UNCHANGED <<waiting, closing, posted>>
    BY <1>1 DEF Submit, guiVars
  <2>2. Service!MoreAsked
    BY <1>1, SubmitAsks
  <2> QED BY <2>1, <2>2 DEF Service!Request, GuiIsFree
<1>2. ASSUME NEW jobs \in JobLists, NEW ds \in SUBSET Devices, SubmitAndRemove(jobs, ds)
      PROVE  Service!Request(waiting')
  <2>1. GuiIsFree /\ UNCHANGED <<closing, posted>>
    BY <1>2 DEF SubmitAndRemove
  <2>2. Service!MoreAsked
    BY <1>2, SubmitAsks
  <2> QED BY <2>1, <2>2 DEF Service!Request, GuiIsFree
<1>3. ASSUME NEW jobs \in JobLists, NEW drain \in BOOLEAN, SubmitAndShutdown(jobs, drain)
      PROVE  Service!Close(drain)
  <2>1. /\ GuiIsFree /\ closing' = (IF drain THEN "drain" ELSE "drop") /\ UNCHANGED posted
    BY <1>3 DEF SubmitAndShutdown
  <2>2. Service!MoreAsked
    BY <1>3, SubmitAsks
  <2> QED BY <2>1, <2>2 DEF Service!Close, GuiIsFree
<1>4. CASE WaitReturns
  BY <1>4, WaitLeaves
<1>5. CASE Deliver
  BY <1>5 DEF Deliver, GuiIsFree, guiVars, Service!Take
<1>6. ASSUME NEW d \in Devices, NEW t \in Targets, EditTarget(d, t) PROVE UNCHANGED Service!vars
  BY <1>6 DEF EditTarget, Service!vars
<1>7. ASSUME NEW d \in Devices, RemoveNext(d) \/ OnQuit(d) PROVE UNCHANGED Service!vars
  BY <1>7 DEF RemoveNext, OnQuit, guiVars, Service!vars
<1>8. ASSUME NEW d \in Devices, BeginJob(d) PROVE UNCHANGED Service!vars
  BY <1>8, BeginAnswersNothing
<1>9. ASSUME NEW d \in Devices, ConnectThrows(d) PROVE Service!Next
  BY <1>9, ThrowAnswers
<1>10. ASSUME NEW d \in Devices, NEW ok \in BOOLEAN, EndJob(d, ok) PROVE Service!Next
  BY <1>10, EndAnswers
<1>11. ASSUME NEW d \in Devices, ThreadEnds(d) PROVE [Service!Next]_(Service!vars)
  BY <1>11, EndDrops
<1>12. CASE UNCHANGED workerVars
  BY <1>12 DEF workerVars, guiVars, Service!vars
<1>13. waiting' \in SUBSET Devices
  BY DEF WorkersTypeOK
<1> QED BY <1>1, <1>2, <1>3, <1>4, <1>5, <1>6, <1>7, <1>8, <1>9, <1>10, <1>11, <1>12, <1>13
        DEF WorkersNext, JobLists

\* The workers keep the promise of JobService under every use: answers in the
\* order of submission, and no job lost but by remove() or an undrained shutdown.
THEOREM WorkersImplementJobService == WorkersSpec => ImplementsJobService
<1>1. WorkersInit => Service!Init
  <2> SUFFICES ASSUME WorkersInit PROVE Service!Init
    OBVIOUS
  <2>1. \A d \in Devices : Executing(d) \o queue[d] = << >>
    BY EmptySeq, ConcatEmptySeq DEF WorkersInit, Executing
  <2>2. Pending = [d \in Devices |-> << >>]
    BY <2>1 DEF Pending
  <2> QED BY <2>2 DEF WorkersInit, Service!Init, Pending, Executing, Leaving
<1>2. WorkersTypeOK /\ WorkersTypeOK' /\ WorkersInv /\ [WorkersNext]_workerVars
        => [Service!Next]_(Service!vars)
  BY StepIsServiceStep
<1> QED BY <1>1, <1>2, WorkersInvariant, PTL DEF WorkersSpec, Service!Spec, ImplementsJobService
-----------------------------------------------------------------------------
(* What each step does to what the workers have still to do, for the       *)
(* modules that use them.                                                  *)

LEMMA PendingUntouched ==
    ASSUME UNCHANGED <<queue, active>>
    PROVE  Pending' = Pending
  BY DEF Pending, Executing

LEMMA PendingOfNothing ==
    ASSUME WorkersTypeOK, NEW jobs, \A d \in Devices : jobs[d] = << >>,
           Submitted(jobs), UNCHANGED active
    PROVE  Pending' = Pending
<1>1. \A d \in Devices : queue[d] \in Seq(Items) /\ queue'[d] = queue[d] \o << >>
  <2>1. \A d \in Devices : Addressed(d, jobs[d]) = << >>
    BY EmptySeq DEF Addressed
  <2> QED BY <2>1 DEF Submitted, WorkersTypeOK
<1>2. \A d \in Devices : queue'[d] = queue[d]
  BY <1>1, ConcatEmptySeq
<1> QED BY <1>2 DEF Pending, Executing

LEMMA PendingAppended ==
    ASSUME WorkersTypeOK, NEW jobs \in JobLists, Submitted(jobs), UNCHANGED active,
           NEW d \in Devices
    PROVE  /\ Pending[d] \in Seq(Items)
           /\ Addressed(d, jobs[d]) \in Seq(Items)
           /\ Pending'[d] = Pending[d] \o Addressed(d, jobs[d])
<1> DEFINE e == Executing(d)
           q == queue[d]
           t == Addressed(d, jobs[d])
<1>1. /\ e \in Seq(Items) /\ q \in Seq(Items) /\ Pending[d] = e \o q
      /\ Pending[d] \in Seq(Items)
  BY PendingIsSeq
<1>2. t \in Seq(Items)
  BY AddressedIsItems
<1>3. Pending'[d] = e \o (q \o t)
  BY DEF Pending, Executing, Submitted
<1> HIDE DEF e, q, t
<1>4. e \o (q \o t) = (e \o q) \o t
  BY <1>1, <1>2, ConcatAssociative
<1> QED BY <1>1, <1>2, <1>3, <1>4 DEF t

\* The same by places: what was there stays where it is, the new items follow.
LEMMA PendingLengthens ==
    ASSUME WorkersTypeOK, NEW jobs \in JobLists, Submitted(jobs), UNCHANGED active,
           NEW d \in Devices
    PROVE  /\ Len(Pending[d]) \in Nat /\ Len(jobs[d]) \in Nat
           /\ Pending'[d] \in Seq(Items)
           /\ Len(Pending'[d]) = Len(Pending[d]) + Len(jobs[d])
           /\ \A i \in 1 .. Len(Pending[d]) : Pending'[d][i] = Pending[d][i]
           /\ \A i \in 1 .. Len(jobs[d]) :
                 Pending'[d][Len(Pending[d]) + i] = [job |-> jobs[d][i], target |-> target[d]]
<1> DEFINE p == Pending[d]
           t == Addressed(d, jobs[d])
           n == Len(jobs[d])
<1>1. p \in Seq(Items) /\ t \in Seq(Items) /\ Pending'[d] = p \o t
  BY PendingAppended
<1>2. Len(t) = n /\ \A i \in 1 .. n : t[i] = [job |-> jobs[d][i], target |-> target[d]]
  <2>1. jobs[d] \in Seq(Jobs)
    BY DEF JobLists
  <2>2. Len(t) = n /\ DOMAIN jobs[d] = 1 .. n
    BY <2>1, AddressedIsItems, LenProperties
  <2> QED BY <2>2 DEF Addressed
<1> HIDE DEF p, t, n
<1>3. /\ Len(p) \in Nat /\ Len(t) \in Nat
      /\ p \o t \in Seq(Items) /\ Len(p \o t) = Len(p) + Len(t)
      /\ \A i \in 1 .. Len(p) + Len(t) :
            (p \o t)[i] = IF i <= Len(p) THEN p[i] ELSE t[i - Len(p)]
  BY <1>1, ConcatProperties, LenProperties
<1>4. \A i \in 1 .. Len(p) : (p \o t)[i] = p[i]
  BY <1>3
<1>5. \A i \in 1 .. Len(t) : (p \o t)[Len(p) + i] = t[i]
  <2> SUFFICES ASSUME NEW i \in 1 .. Len(t) PROVE (p \o t)[Len(p) + i] = t[i]
    OBVIOUS
  <2>1. /\ Len(p) + i \in 1 .. Len(p) + Len(t) /\ ~(Len(p) + i <= Len(p))
        /\ (Len(p) + i) - Len(p) = i
    BY <1>3
  <2> QED BY <1>3, <2>1
<1> QED BY <1>1, <1>2, <1>3, <1>4, <1>5 DEF p, n

LEMMA PendingBegins ==
    ASSUME WorkersTypeOK, NEW d \in Devices, BeginJob(d)
    PROVE  Pending' = Pending
  BY BeginAnswersNothing DEF Service!vars, Pending, Executing, Leaving

LEMMA PendingThrows ==
    ASSUME WorkersTypeOK, NEW d \in Devices, ConnectThrows(d)
    PROVE  /\ Pending[d] # << >> /\ Head(Pending[d]) = Head(queue[d])
           /\ Pending' = [Pending EXCEPT ![d] = Tail(Pending[d])]
<1>1. active[d] = None /\ queue[d] # << >> /\ queue[d] \in Seq(Items)
  BY DEF ConnectThrows, CanRun, WorkersTypeOK
<1>2. Pending[d] = queue[d]
  BY <1>1, PendingIsSeq, ConcatEmptySeq DEF Executing
<1>3. Pending' = [Pending EXCEPT ![d] = Tail(Pending[d])]
  BY ThrowAnswers DEF Service!Answer, Pending, Executing, Leaving
<1> QED BY <1>1, <1>2, <1>3

LEMMA PendingEnds ==
    ASSUME WorkersTypeOK, NEW d \in Devices, NEW ok \in BOOLEAN, EndJob(d, ok)
    PROVE  /\ Pending[d] # << >> /\ Head(Pending[d]) = active[d]
           /\ Pending' = [Pending EXCEPT ![d] = Tail(Pending[d])]
<1>1. active[d] # None /\ active[d] \in Items /\ queue[d] \in Seq(Items)
  BY ActiveIsItem DEF EndJob, WorkersTypeOK
<1>2. Pending[d] = <<active[d]>> \o queue[d]
  BY <1>1 DEF Pending, Executing
<1>3. Pending[d] # << >> /\ Head(Pending[d]) = active[d]
  BY <1>1, <1>2, FirstAnswered
<1>4. Pending' = [Pending EXCEPT ![d] = Tail(Pending[d])]
  BY EndAnswers DEF Service!Answer, Pending, Executing, Leaving
<1> QED BY <1>3, <1>4

LEMMA PendingDropped ==
    ASSUME WorkersTypeOK, NEW d \in Devices, ThreadEnds(d)
    PROVE  /\ Pending[d] = queue[d] /\ Pending' = [Pending EXCEPT ![d] = << >>]
<1>1. /\ active[d] = None /\ queue[d] \in Seq(Items)
      /\ queue' = [queue EXCEPT ![d] = << >>] /\ UNCHANGED active
  BY DEF ThreadEnds, guiVars, WorkersTypeOK
<1>2. Pending[d] = queue[d]
  BY <1>1, PendingIsSeq, ConcatEmptySeq DEF Executing
<1>3. (Executing(d) \o queue[d])' = << >>
  BY <1>1, EmptySeq, ConcatEmptySeq DEF Executing, WorkersTypeOK
<1>4. \A e \in Devices \ {d} : (Executing(e) \o queue[e])' = Pending[e]
  BY <1>1 DEF Executing, Pending, WorkersTypeOK
<1>5. Pending' = [Pending EXCEPT ![d] = << >>]
  BY <1>3, <1>4 DEF Pending
<1> QED BY <1>2, <1>5

\* A worker that has something to do can begin or end a job.
LEMMA PendingCanGoOn ==
    ASSUME WorkersTypeOK, WorkersInv, NEW d \in Devices, Pending[d] # << >>
    PROVE  active[d] # None \/ CanRun(d)
<1> SUFFICES ASSUME active[d] = None PROVE CanRun(d)
  OBVIOUS
<1>1. queue[d] \in Seq(Items) /\ Pending[d] = queue[d]
  BY PendingIsSeq, ConcatEmptySeq DEF WorkersTypeOK, Executing
<1>2. d \in threads
  BY <1>1 DEF WorkersInv, NothingWithoutThread
<1> QED BY <1>1, <1>2 DEF CanRun
-----------------------------------------------------------------------------
(* The GUI thread waits for threads in remove() and shutdown(): the part   *)
(* of GuiIsNotStuck that needs no fairness.                                *)

\* shutdown() without drain tells every thread to quit at once.
DropQuitsAll == closing = "drop" => threads \subseteq quitting

LEMMA DropStep ==
    ASSUME WorkersTypeOK, WorkersInv, DropQuitsAll, [WorkersNext]_workerVars
    PROVE  DropQuitsAll'
<1> USE DEF DropQuitsAll, guiVars
<1>1. ASSUME NEW jobs \in JobLists, Submit(jobs) PROVE DropQuitsAll'
  BY <1>1 DEF Submit, GuiIsFree
<1>2. ASSUME NEW jobs \in JobLists, NEW ds \in SUBSET Devices, SubmitAndRemove(jobs, ds)
      PROVE  DropQuitsAll'
  BY <1>2 DEF SubmitAndRemove, GuiIsFree
<1>3. ASSUME NEW jobs \in JobLists, NEW drain \in BOOLEAN, SubmitAndShutdown(jobs, drain)
      PROVE  DropQuitsAll'
  BY <1>3 DEF SubmitAndShutdown
<1>4. CASE WaitReturns
  BY <1>4 DEF WaitReturns
<1>5. CASE Deliver
  BY <1>5 DEF Deliver
<1>6. ASSUME NEW d \in Devices, NEW t \in Targets, EditTarget(d, t) PROVE DropQuitsAll'
  BY <1>6 DEF EditTarget
<1>7. ASSUME NEW d \in Devices, RemoveNext(d) PROVE DropQuitsAll'
  BY <1>7 DEF RemoveNext
<1>8. ASSUME NEW d \in Devices, BeginJob(d) PROVE DropQuitsAll'
  BY <1>8 DEF BeginJob
<1>9. ASSUME NEW d \in Devices, ConnectThrows(d) PROVE DropQuitsAll'
  BY <1>9 DEF ConnectThrows
<1>10. ASSUME NEW d \in Devices, NEW ok \in BOOLEAN, EndJob(d, ok) PROVE DropQuitsAll'
  BY <1>10 DEF EndJob
<1>11. ASSUME NEW d \in Devices, OnQuit(d) PROVE DropQuitsAll'
  BY <1>11 DEF OnQuit
<1>12. ASSUME NEW d \in Devices, ThreadEnds(d) PROVE DropQuitsAll'
  BY <1>12 DEF ThreadEnds
<1>13. CASE UNCHANGED workerVars
  BY <1>13 DEF workerVars
<1> QED BY <1>1, <1>2, <1>3, <1>4, <1>5, <1>6, <1>7, <1>8, <1>9, <1>10, <1>11, <1>12, <1>13
        DEF WorkersNext, JobLists

\* The steps that the thread of d can take, or the GUI thread for it: the guards of
\* EndJob, BeginJob, ThreadEnds, OnQuit and RemoveNext.
CanGoOn(d) ==
    \/ active[d] # None
    \/ CanRun(d)
    \/ d \in quitting /\ active[d] = None
    \/ closing = "drain" /\ d \in threads \ quitting /\ active[d] = None /\ queue[d] = << >>
    \/ closing = "no" /\ d \in waiting \cap threads /\ quitting = {}

\* The GUI thread, when it waits, is done or waits for a thread that can take a step.
WaitIsNotStuck ==
    waiting # {} => waiting \cap threads = {} \/ \E d \in waiting \cap threads : CanGoOn(d)

\* For any devices and any jobs, remove() and shutdown() never wait for a thread that
\* waits as well or was not told to quit.
THEOREM WorkersNeverBlockTheGui == WorkersSpec => []WaitIsNotStuck
<1>1. ASSUME WorkersTypeOK, WorkersInv, DropQuitsAll PROVE WaitIsNotStuck
  <2> SUFFICES ASSUME NEW d \in waiting \cap threads
               PROVE  \E e \in waiting \cap threads : CanGoOn(e)
    BY DEF WaitIsNotStuck
  <2>1. CASE closing = "no"
    <3>1. CASE quitting = {}
      BY <2>1, <3>1 DEF CanGoOn
    <3>2. ASSUME NEW e \in quitting PROVE \E f \in waiting \cap threads : CanGoOn(f)
      <4>1. e \in waiting \cap threads
        BY <1>1, <2>1, <3>2 DEF WorkersInv, QuitIsAsked, WorkersTypeOK
      <4> QED BY <4>1, <3>2 DEF CanGoOn
    <3> QED BY <3>1, <3>2
  <2>2. CASE closing = "drain"
    <3>1. CASE d \in quitting
      BY <3>1 DEF CanGoOn
    <3>2. CASE d \notin quitting
      BY <2>2, <3>2 DEF CanGoOn, CanRun
    <3> QED BY <3>1, <3>2
  <2>3. CASE closing = "drop"
    <3>1. d \in quitting
      BY <1>1, <2>3 DEF DropQuitsAll
    <3> QED BY <3>1 DEF CanGoOn
  <2> QED BY <1>1, <2>1, <2>2, <2>3 DEF WorkersTypeOK
<1>2. WorkersInit => DropQuitsAll
  BY DEF WorkersInit, DropQuitsAll
<1> QED BY <1>1, <1>2, DropStep, WorkersInvariant, PTL DEF WorkersSpec

Executed(d) == IF active[d] = None THEN 0 ELSE 1

Untold(d) == IF d \in quitting THEN 0 ELSE 1

\* The steps that the thread of d can still take while nothing is submitted.
Work(d) == IF d \in threads THEN 2 * Len(queue[d]) + Executed(d) + Untold(d) + 1 ELSE 0

\* There is less to do for d, and as much as before for the others.
LessWork(d) == Work(d)' < Work(d) /\ \A e \in Devices \ {d} : Work(e)' = Work(e)

\* As long as the GUI thread waits, every step is one for a single thread that has
\* less to do after it: new jobs cannot keep a thread that is waited for alive.
WaitMakesProgress ==
    [][waiting # {} /\ waiting' # {} => \E d \in Devices : LessWork(d)]_workerVars

LEMMA OthersWork ==
    ASSUME NEW d \in Devices,
           \A e \in Devices \ {d} :
              /\ queue'[e] = queue[e] /\ active'[e] = active[e]
              /\ e \in threads' <=> e \in threads
              /\ e \in quitting' <=> e \in quitting
    PROVE  \A e \in Devices \ {d} : Work(e)' = Work(e)
  BY DEF Work, Executed, Untold

LEMMA WaitStep ==
    ASSUME WorkersTypeOK, WorkersInv, [WorkersNext]_workerVars,
           waiting # {}, waiting' # {}, ~UNCHANGED workerVars
    PROVE  \E d \in Devices : LessWork(d)
<1>1. ~GuiIsFree
  BY DEF GuiIsFree
<1>2. /\ \A d \in Devices : Len(queue[d]) \in Nat /\ Executed(d) \in {0, 1} /\ Untold(d) \in {0, 1}
      /\ \A d \in Devices : Executed(d)' \in {0, 1} /\ Untold(d)' \in {0, 1}
  BY LenProperties DEF WorkersTypeOK, Executed, Untold
<1>3. ASSUME NEW d \in Devices, RemoveNext(d) PROVE LessWork(d)
  <2>1. \A e \in Devices \ {d} : Work(e)' = Work(e)
    BY <1>3, OthersWork DEF RemoveNext
  <2>2. /\ d \in threads /\ d \notin quitting /\ d \in quitting'
        /\ UNCHANGED <<threads, queue, active>>
    BY <1>3 DEF RemoveNext
  <2>3. Executed(d)' = Executed(d) /\ Untold(d)' < Untold(d)
    BY <2>2 DEF Executed, Untold
  <2>4. Work(d)' < Work(d)
    BY <1>2, <2>2, <2>3 DEF Work
  <2> QED BY <2>1, <2>4 DEF LessWork
<1>4. ASSUME NEW d \in Devices, d \in threads, queue[d] # << >>, queue' = [queue EXCEPT ![d] = Tail(@)]
      PROVE  Len(queue'[d]) = Len(queue[d]) - 1
  BY <1>4, EmptySeq, HeadTailProperties DEF WorkersTypeOK
<1>5. ASSUME NEW d \in Devices, BeginJob(d) PROVE LessWork(d)
  <2>1. \A e \in Devices \ {d} : Work(e)' = Work(e)
    BY <1>5, OthersWork DEF BeginJob, WorkersTypeOK
  <2>2. Len(queue'[d]) = Len(queue[d]) - 1
    BY <1>4, <1>5 DEF BeginJob, CanRun
  <2>3. /\ d \in threads /\ active[d] = None
        /\ UNCHANGED <<threads, quitting>>
    BY <1>5 DEF BeginJob, CanRun
  <2>4. Executed(d) = 0 /\ Untold(d)' = Untold(d)
    BY <2>2, <2>3 DEF Executed, Untold
  <2>5. Work(d)' < Work(d)
    BY <1>2, <2>2, <2>3, <2>4 DEF Work
  <2> QED BY <2>1, <2>5 DEF LessWork
<1>6. ASSUME NEW d \in Devices, ConnectThrows(d) PROVE LessWork(d)
  <2>1. \A e \in Devices \ {d} : Work(e)' = Work(e)
    BY <1>6, OthersWork DEF ConnectThrows, WorkersTypeOK
  <2>2. Len(queue'[d]) = Len(queue[d]) - 1
    BY <1>4, <1>6 DEF ConnectThrows, CanRun
  <2>3. d \in threads /\ UNCHANGED <<threads, quitting, active>>
    BY <1>6 DEF ConnectThrows, CanRun
  <2>4. Executed(d)' = Executed(d) /\ Untold(d)' = Untold(d)
    BY <2>2, <2>3 DEF Executed, Untold
  <2>5. Work(d)' < Work(d)
    BY <1>2, <2>2, <2>3, <2>4 DEF Work
  <2> QED BY <2>1, <2>5 DEF LessWork
<1>7. ASSUME NEW d \in Devices, NEW ok \in BOOLEAN, EndJob(d, ok) PROVE LessWork(d)
  <2>1. \A e \in Devices \ {d} : Work(e)' = Work(e)
    BY <1>7, OthersWork DEF EndJob, WorkersTypeOK
  <2>2. /\ d \in threads /\ active[d] # None /\ active'[d] = None
        /\ UNCHANGED <<threads, quitting, queue>>
    BY <1>7 DEF EndJob, WorkersTypeOK, WorkersInv, NothingWithoutThread
  <2>3. Executed(d)' < Executed(d) /\ Untold(d)' = Untold(d)
    BY <2>2 DEF Executed, Untold
  <2>4. Work(d)' < Work(d)
    BY <1>2, <2>2, <2>3 DEF Work
  <2> QED BY <2>1, <2>4 DEF LessWork
<1>8. ASSUME NEW d \in Devices, OnQuit(d) PROVE LessWork(d)
  <2>1. \A e \in Devices \ {d} : Work(e)' = Work(e)
    BY <1>8, OthersWork DEF OnQuit
  <2>2. /\ d \in threads /\ d \notin quitting /\ d \in quitting'
        /\ UNCHANGED <<threads, queue, active>>
    BY <1>8 DEF OnQuit
  <2>3. Executed(d)' = Executed(d) /\ Untold(d)' < Untold(d)
    BY <2>2 DEF Executed, Untold
  <2>4. Work(d)' < Work(d)
    BY <1>2, <2>2, <2>3 DEF Work
  <2> QED BY <2>1, <2>4 DEF LessWork
<1>9. ASSUME NEW d \in Devices, ThreadEnds(d) PROVE LessWork(d)
  <2>1. \A e \in Devices \ {d} : Work(e)' = Work(e)
    BY <1>9, OthersWork DEF ThreadEnds, WorkersTypeOK
  <2>2. d \in threads /\ d \notin threads'
    BY <1>9 DEF ThreadEnds, WorkersTypeOK
  <2>3. Work(d)' < Work(d)
    BY <1>2, <2>2 DEF Work
  <2> QED BY <2>1, <2>3 DEF LessWork
<1>10. ~WaitReturns
  BY DEF WaitReturns
<1>11. ~Deliver /\ \A d \in Devices, t \in Targets : ~EditTarget(d, t)
  BY <1>1 DEF Deliver, EditTarget
<1>12. \A jobs \in JobLists : /\ ~Submit(jobs)
                              /\ \A ds \in SUBSET Devices : ~SubmitAndRemove(jobs, ds)
                              /\ \A drain \in BOOLEAN : ~SubmitAndShutdown(jobs, drain)
  BY <1>1 DEF Submit, SubmitAndRemove, SubmitAndShutdown
<1> QED BY <1>3, <1>5, <1>6, <1>7, <1>8, <1>9, <1>10, <1>11, <1>12 DEF WorkersNext, JobLists

\* remove() and shutdown() return after a bounded number of steps: with the theorem
\* before, the threads only need to be scheduled and their transactions to return.
THEOREM WorkersFinishTheirWork == WorkersSpec => WaitMakesProgress
<1>1. WorkersTypeOK /\ WorkersInv /\ [WorkersNext]_workerVars
        => [waiting # {} /\ waiting' # {} => \E d \in Devices : LessWork(d)]_workerVars
  BY WaitStep
<1> QED BY <1>1, WorkersInvariant, PTL DEF WorkersSpec, WaitMakesProgress
=============================================================================
