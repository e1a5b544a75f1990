-------------------------- MODULE PulserTestProofs --------------------------
(***************************************************************************)
(* Proofs about PulserTest, for any devices, targets and busses, on top of *)
(* the theorems about the command threads.                                 *)
(*                                                                         *)
(* Three parts: types, and with them what the command threads promise;     *)
(* that _pending counts what is outstanding; and where every pulser and    *)
(* every job that will switch one on is accounted for.                     *)
(***************************************************************************)
EXTENDS PulserTest, DeviceWorkersProofs, FiniteSetTheorems

(* The jobs of a set of pulsers.                                           *)

Below(S, b) == {c \in S : c < b}

\* A finite set of numbers has its elements in order.
LEMMA OrderExists ==
    ASSUME NEW S \in SUBSET Nat, IsFiniteSet(S)
    PROVE  \E s \in [1 .. Cardinality(S) -> S] : \A i, j \in DOMAIN s : i < j => s[i] < s[j]
<1> DEFINE n == Cardinality(S)
           rank == [b \in S |-> Cardinality(Below(S, b)) + 1]
<1>1. n \in Nat
  BY FS_CardinalityType
<1>2. \A b \in S : IsFiniteSet(Below(S, b)) /\ Cardinality(Below(S, b)) \in Nat
  <2> SUFFICES ASSUME NEW b \in S
               PROVE  IsFiniteSet(Below(S, b)) /\ Cardinality(Below(S, b)) \in Nat
    OBVIOUS
  <2>1. Below(S, b) \in SUBSET S
    BY DEF Below
  <2> QED BY <2>1, FS_Subset, FS_CardinalityType
<1>3. \A b \in S : Cardinality(Below(S, b)) < n
  <2> SUFFICES ASSUME NEW b \in S PROVE Cardinality(Below(S, b)) < n
    OBVIOUS
  <2>1. Below(S, b) \in SUBSET S /\ b \notin Below(S, b)
    BY DEF Below
  <2>2. Cardinality(Below(S, b)) <= n /\ Cardinality(Below(S, b)) # n
    BY <2>1, FS_Subset
  <2> QED BY <1>1, <1>2, <2>2
<1>4. \A a, b \in S : a < b => Cardinality(Below(S, a)) < Cardinality(Below(S, b))
  <2> SUFFICES ASSUME NEW a \in S, NEW b \in S, a < b
               PROVE  Cardinality(Below(S, a)) < Cardinality(Below(S, b))
    OBVIOUS
  <2>1. a \in Nat /\ b \in Nat /\ \A c \in S : c \in Nat
    OBVIOUS
  <2>2. (\A c \in S : c < a => c < b) /\ ~(a < a)
    BY <2>1
  <2>3. Below(S, a) \in SUBSET Below(S, b)
    BY <2>2 DEF Below
  <2>4. a \in Below(S, b) /\ a \notin Below(S, a)
    BY <2>2 DEF Below
  <2>5. /\ Cardinality(Below(S, a)) <= Cardinality(Below(S, b))
        /\ Cardinality(Below(S, a)) # Cardinality(Below(S, b))
    BY <1>2, <2>3, <2>4, FS_Subset
  <2> QED BY <1>2, <2>5
<1>5. rank \in [S -> 1 .. n] /\ \A a, b \in S : a < b => rank[a] < rank[b]
  BY <1>1, <1>2, <1>3, <1>4
<1> HIDE DEF rank
<1>6. rank \in Injection(S, 1 .. n)
  <2>1. \A a, b \in S : rank[a] = rank[b] => a = b
    <3> SUFFICES ASSUME NEW a \in S, NEW b \in S, rank[a] = rank[b] PROVE a = b
      OBVIOUS
    <3>1. a \in Nat /\ b \in Nat /\ rank[a] \in Nat /\ rank[b] \in Nat
      BY <1>1, <1>5
    <3>2. ~(a < b) /\ ~(b < a)
      BY <1>5, <3>1
    <3> QED BY <3>1, <3>2
  <2> QED BY <1>5, <2>1 DEF Injection, IsInjective
<1>7. IsFiniteSet(1 .. n) /\ Cardinality(1 .. n) = n
  BY <1>1, FS_Interval
<1>8. \A i \in 1 .. n : \E b \in S : rank[b] = i
  <2>1. rank \in Surjection(S, 1 .. n)
    BY <1>6, <1>7, FS_Injection
  <2> QED BY <2>1 DEF Surjection
<1> DEFINE s == [i \in 1 .. n |-> CHOOSE b \in S : rank[b] = i]
<1>9. \A i \in 1 .. n : s[i] \in S /\ rank[s[i]] = i
  BY <1>8
<1>10. s \in [1 .. n -> S]
  BY <1>9
<1> HIDE DEF s
<1>11. ASSUME NEW i \in 1 .. n, NEW j \in 1 .. n, i < j PROVE s[i] < s[j]
  <2>1. s[i] \in Nat /\ s[j] \in Nat
    BY <1>9
  <2>2. s[i] \in S /\ s[j] \in S /\ rank[s[i]] = i /\ rank[s[j]] = j
    BY <1>9
  <2>3. s[j] < s[i] => j < i
    BY <1>5, <2>2
  <2>4. s[i] # s[j]
    BY <1>1, <1>11, <2>2
  <2> QED BY <1>1, <1>11, <2>1, <2>3, <2>4
<1>12. DOMAIN s = 1 .. n
  BY <1>10
<1> QED BY <1>10, <1>11, <1>12

LEMMA InOrderIsBijection ==
    ASSUME NEW S \in SUBSET Nat, IsFiniteSet(S)
    PROVE  /\ Cardinality(S) \in Nat
           /\ InOrder(S) \in [1 .. Cardinality(S) -> S]
           /\ \A i, j \in 1 .. Cardinality(S) : InOrder(S)[i] = InOrder(S)[j] => i = j
           /\ \A b \in S : \E i \in 1 .. Cardinality(S) : InOrder(S)[i] = b
<1> DEFINE n == Cardinality(S)
           s == InOrder(S)
<1>1. n \in Nat
  BY FS_CardinalityType
<1>2. s \in [1 .. n -> S] /\ \A i, j \in DOMAIN s : i < j => s[i] < s[j]
  BY OrderExists DEF InOrder
<1> HIDE DEF s
<1>3. \A i, j \in 1 .. n : s[i] = s[j] => i = j
  <2> SUFFICES ASSUME NEW i \in 1 .. n, NEW j \in 1 .. n, s[i] = s[j] PROVE i = j
    OBVIOUS
  <2>1. s[i] \in Nat /\ i \in DOMAIN s /\ j \in DOMAIN s
    BY <1>2
  <2>2. ~(i < j) /\ ~(j < i)
    BY <1>2, <2>1
  <2> QED BY <1>1, <2>2
<1>4. s \in Injection(1 .. n, S)
  BY <1>2, <1>3 DEF Injection, IsInjective
<1>5. IsFiniteSet(1 .. n) /\ Cardinality(1 .. n) = n
  BY <1>1, FS_Interval
<1>6. s \in Surjection(1 .. n, S)
  BY <1>4, <1>5, FS_Injection
<1>7. \A b \in S : \E i \in 1 .. n : s[i] = b
  BY <1>6 DEF Surjection
<1> QED BY <1>1, <1>2, <1>3, <1>7 DEF s

\* js are the jobs of d for pulsers: one for each of its busses.
JobsOfDevice(js, label, d, pulsers) ==
    /\ js \in Seq(Jobs)
    /\ \A i \in 1 .. Len(js) : js[i].label = label /\ <<d, js[i].bus>> \in pulsers
    /\ \A i, j \in 1 .. Len(js) : js[i].bus = js[j].bus => i = j
    /\ \A b \in BussesOf(d, pulsers) : \E i \in 1 .. Len(js) : js[i].bus = b

LEMMA JobsForPulsers ==
    ASSUME NEW label \in 0 .. MaxTests, NEW pulsers \in SUBSET (Devices \X Busses)
    PROVE  /\ JobsFor(label, pulsers) \in JobLists
           /\ \A d \in Devices : JobsOfDevice(JobsFor(label, pulsers)[d], label, d, pulsers)
<1>1. ASSUME NEW d \in Devices PROVE JobsOfDevice(JobsFor(label, pulsers)[d], label, d, pulsers)
  <2> DEFINE S == BussesOf(d, pulsers)
             n == Cardinality(S)
             s == InOrder(S)
             js == JobsFor(label, pulsers)[d]
  <2>1. S \in SUBSET Busses
    BY DEF BussesOf
  <2>2. S \in SUBSET Nat /\ IsFiniteSet(S)
    BY <2>1, FS_Subset, PulserAssumption
  <2>3. /\ n \in Nat /\ s \in [1 .. n -> S]
        /\ \A i, j \in 1 .. n : s[i] = s[j] => i = j
        /\ \A b \in S : \E i \in 1 .. n : s[i] = b
    BY <2>2, InOrderIsBijection
  <2>4. js = [i \in DOMAIN s |-> [label |-> label, bus |-> s[i]]]
    BY DEF JobsFor
  <2>5. \A b \in S : b \in Busses /\ <<d, b>> \in pulsers
    BY DEF BussesOf
  <2> HIDE DEF s, js, S
  <2>6. js = [i \in 1 .. n |-> [label |-> label, bus |-> s[i]]]
    BY <2>3, <2>4
  <2>7. \A i \in 1 .. n : [label |-> label, bus |-> s[i]] \in Jobs
    BY <2>3, <2>5, PulserAssumption DEF PulserJobs
  <2>8. js \in Seq(Jobs) /\ Len(js) = n
    BY <2>3, <2>6, <2>7
  <2>9. \A i \in 1 .. n : js[i].label = label /\ js[i].bus = s[i]
    BY <2>6
  <2> HIDE DEF n
  <2>10. \A i \in 1 .. n : <<d, js[i].bus>> \in pulsers
    BY <2>3, <2>5, <2>9
  <2>11. \A b \in S : \E i \in 1 .. n : js[i].bus = b
    BY <2>3, <2>9
  <2>12. \A i, j \in 1 .. n : js[i].bus = js[j].bus => i = j
    BY <2>3, <2>9
  <2>13. S = BussesOf(d, pulsers)
    BY DEF S
  <2>14. JobsOfDevice(js, label, d, pulsers)
    BY <2>8, <2>9, <2>10, <2>11, <2>12, <2>13 DEF JobsOfDevice
  <2> QED BY <2>14 DEF js
<1>2. JobsFor(label, pulsers) \in JobLists
  BY <1>1 DEF JobsOfDevice, JobLists, JobsFor
<1> QED BY <1>1, <1>2

LEMMA NoJobsIsEmpty ==
    /\ NoJobs \in JobLists
    /\ \A d \in Devices : NoJobs[d] = << >>
<1>1. Off \in 0 .. MaxTests /\ {} \in SUBSET (Devices \X Busses)
  BY PulserAssumption DEF Off
<1>2. NoJobs \in JobLists /\ \A d \in Devices : JobsOfDevice(NoJobs[d], Off, d, {})
  BY <1>1, JobsForPulsers DEF NoJobs
<1>3. \A d \in Devices : NoJobs[d] = << >>
  <2> SUFFICES ASSUME NEW d \in Devices PROVE NoJobs[d] = << >>
    OBVIOUS
  <2>1. NoJobs[d] \in Seq(Jobs) /\ \A i \in 1 .. Len(NoJobs[d]) : FALSE
    BY <1>2 DEF JobsOfDevice
  <2> QED BY <2>1, EmptySeq
<1> QED BY <1>2, <1>3

-----------------------------------------------------------------------------
(* Types.                                                                  *)

\* What the history and the sequencer's flags are, in every test.
TestInv ==
    /\ running => generation > 0
    /\ touched # {} => running
    /\ timer => running

LEMMA TargetsArePulsers ==
    /\ TestTargets \in SUBSET (Devices \X Busses)
    /\ IsFiniteSet(TestTargets)
    /\ Cardinality(TestTargets) \in 0 .. Cardinality(Devices \X Busses)
    /\ Cardinality(Devices \X Busses) \in Nat
<1>1. TestTargets \in SUBSET (Devices \X Busses)
  BY DEF TestTargets
<1>2. IsFiniteSet(Devices \X Busses)
  BY PulserAssumption, FS_Product
<1> QED BY <1>1, <1>2, FS_Subset, FS_CardinalityType

\* What stop() submits, and what else is submitted, are lists of jobs.
LEMMA OffJobsAreLists ==
    ASSUME TypeOK
    PROVE  /\ OffJobs \in JobLists
           /\ ~running => OffJobs = NoJobs
           /\ running => OffJobs = JobsFor(Off, touched)
<1>1. Off \in 0 .. MaxTests /\ touched \in SUBSET (Devices \X Busses)
  BY PulserAssumption DEF Off, TypeOK
<1> QED BY <1>1, JobsForPulsers, NoJobsIsEmpty DEF OffJobs

LEMMA StepIsWorkersStep ==
    ASSUME TypeOK, [Next]_vars
    PROVE  [WorkersNext]_workerVars
<1> USE DEF WorkersNext, JobLists
<1>1. CASE Start \/ NextStep
  <2>1. PICK g \in 0 .. MaxTests : SendStep(g)
    BY <1>1, PulserAssumption DEF Start, NextStep, TypeOK
  <2>2. JobsFor(g, TestTargets) \in JobLists
    BY TargetsArePulsers, JobsForPulsers
  <2>3. Submit(JobsFor(g, TestTargets))
    BY <2>1 DEF SendStep, StepLabel
  <2> QED BY <2>2, <2>3
<1>2. CASE Stop \/ NoTargetsLeft
  BY <1>2, OffJobsAreLists DEF Stop, NoTargetsLeft
<1>3. CASE AllOff
  <2>1. JobsFor(Off, TestTargets) \in JobLists
    BY TargetsArePulsers, JobsForPulsers, PulserAssumption DEF Off
  <2> QED BY <1>3, <2>1 DEF AllOff
<1>4. CASE Close
  <2>1. SubmitAndShutdown(OffJobs, running) /\ running \in BOOLEAN
    BY <1>4 DEF Close, TypeOK
  <2> QED BY <2>1, OffJobsAreLists
<1>5. ASSUME NEW d \in Devices, ToggleEnabled(d) PROVE UNCHANGED workerVars
  BY <1>5 DEF ToggleEnabled
<1>6. ASSUME NEW d \in Devices, NEW b \in Busses, TogglePresent(d, b) PROVE UNCHANGED workerVars
  BY <1>6 DEF TogglePresent
<1>7. ASSUME NEW d \in Devices, RemoveDevice(d) PROVE WorkersNext
  <2>1. SubmitAndRemove(NoJobs, {d}) /\ {d} \in SUBSET Devices
    BY <1>7 DEF RemoveDevice
  <2> QED BY <2>1, NoJobsIsEmpty
<1>8. ASSUME NEW d \in Devices, NEW t \in Targets, Redirect(d, t) PROVE WorkersNext
  BY <1>8 DEF Redirect
<1>9. ASSUME NEW devices \in {setup, {}}, LoadSetup(devices) PROVE WorkersNext
  <2>1. SubmitAndRemove(OffJobs, setup) /\ setup \in SUBSET Devices
    BY <1>9 DEF LoadSetup, TypeOK
  <2> QED BY <2>1, OffJobsAreLists
<1>10. CASE OnFinished \/ GuiGoesOn
  BY <1>10 DEF OnFinished, GuiGoesOn
<1>11. ASSUME NEW d \in Devices, Worker(d) PROVE WorkersNext
  BY <1>11 DEF Worker, JobBegins, JobCannotBegin, JobEnds, WorkerQuits, WorkerEnds
<1>12. CASE UNCHANGED vars
  BY <1>12 DEF vars
<1> QED BY <1>1, <1>2, <1>3, <1>4, <1>5, <1>6, <1>7, <1>8, <1>9, <1>10, <1>11, <1>12
        DEF Next, User

LEMMA StepsWrap ==
    ASSUME NEW s \in 0 .. NumSteps - 1
    PROVE  StepAfter(s) \in 0 .. NumSteps - 1 /\ StepAfter(0) \in 0 .. NumSteps - 1
  BY PulserAssumption DEF StepAfter

LEMMA PulsersOfItems ==
    ASSUME NEW item \in Items
    PROVE  Pulser(item) \in Targets \X Busses /\ item.job.label \in 0 .. MaxTests
  BY PulserAssumption DEF Items, PulserJobs, Pulser

LEMMA OffsArePending ==
    ASSUME WorkersTypeOK, NEW d \in Devices
    PROVE  /\ OffsOf(d) \subseteq Items
           /\ OffsOf(d) = {Pending[d][i] :
                             i \in {j \in 1 .. Len(Pending[d]) : Pending[d][j].job.label = Off}}
<1>1. /\ Pending[d] \in Seq(Items) /\ DOMAIN Pending[d] = 1 .. Len(Pending[d])
      /\ \A i \in 1 .. Len(Pending[d]) : Pending[d][i] \in Items
  BY PendingIsSeq, LenProperties
<1>2. Range(Pending[d]) = {Pending[d][i] : i \in 1 .. Len(Pending[d])}
  BY <1>1 DEF Range
<1> QED BY <1>1, <1>2 DEF OffsOf

LEMMA StepsAreFinite ==
    ASSUME NEW s \in Seq(Items)
    PROVE  IsFiniteSet(StepsIn(s)) /\ Cardinality(StepsIn(s)) \in Nat
<1>1. Len(s) \in Nat /\ DOMAIN s = 1 .. Len(s)
  BY LenProperties
<1>2. IsFiniteSet(1 .. Len(s)) /\ StepsIn(s) \in SUBSET (1 .. Len(s))
  BY <1>1, FS_Interval DEF StepsIn
<1> QED BY <1>2, FS_Subset, FS_CardinalityType

\* The configuration and the sequencer.
SequencerTypeOK ==
    /\ setup \subseteq Devices
    /\ enabled \subseteq Devices
    /\ present \in [Devices -> SUBSET Busses]
    /\ generation \in 0 .. MaxTests
    /\ step \in 0 .. NumSteps - 1
    /\ pending \in 0 .. Cardinality(Devices \X Busses)
    /\ running \in BOOLEAN
    /\ touched \subseteq Devices \X Busses
    /\ timer \in BOOLEAN
    /\ edits \in 0 .. MaxEdits

\* The hardware and its history.
HardwareTypeOK ==
    /\ pulsing \subseteq Targets \X Busses
    /\ excused \subseteq Targets \X Busses
    /\ redirected \subseteq Devices \X (1 .. MaxTests)
    /\ lost \in Nat

LEMMA TypeParts == TypeOK <=> WorkersTypeOK /\ SequencerTypeOK /\ HardwareTypeOK
  BY DEF TypeOK, SequencerTypeOK, HardwareTypeOK

LEMMA SequencerTypeStep ==
    ASSUME TypeOK, TestInv, [Next]_vars
    PROVE  SequencerTypeOK' /\ TestInv'
<1> USE DEF SequencerTypeOK, TestInv
<1>0. SequencerTypeOK
  BY TypeParts
<1>1. CASE Start
  <2>1. generation' \in 0 .. MaxTests /\ generation' > 0
    BY <1>0, <1>1, PulserAssumption DEF Start
  <2>2. step' \in 0 .. NumSteps - 1
    BY <1>0, <1>1, StepsWrap DEF Start
  <2>3. pending' = Cardinality(TestTargets) /\ touched' = TestTargets /\ running' = TRUE
    BY <1>1 DEF Start, SendStep
  <2> QED BY <1>0, <1>1, <2>1, <2>2, <2>3, TargetsArePulsers DEF Start, configVars
<1>2. CASE NextStep
  <2>1. step' \in 0 .. NumSteps - 1
    BY <1>0, <1>2, StepsWrap DEF NextStep
  <2>2. pending' = Cardinality(TestTargets) /\ touched' = touched \cup TestTargets
    BY <1>2 DEF NextStep, SendStep
  <2> QED BY <1>0, <1>2, <2>1, <2>2, TargetsArePulsers DEF NextStep, configVars
<1>3. CASE Stop \/ NoTargetsLeft \/ Close
  BY <1>0, <1>3 DEF Stop, NoTargetsLeft, Close, Stopped, configVars
<1>4. CASE AllOff
  BY <1>0, <1>4, PulserAssumption DEF AllOff, Edit, testVars
<1>5. ASSUME NEW d \in Devices, ToggleEnabled(d) PROVE SequencerTypeOK' /\ TestInv'
  BY <1>0, <1>5, PulserAssumption DEF ToggleEnabled, Edit, testVars
<1>6. ASSUME NEW d \in Devices, NEW b \in Busses, TogglePresent(d, b)
      PROVE  SequencerTypeOK' /\ TestInv'
  BY <1>0, <1>6, PulserAssumption DEF TogglePresent, Edit, testVars
<1>7. ASSUME NEW d \in Devices, RemoveDevice(d) PROVE SequencerTypeOK' /\ TestInv'
  BY <1>0, <1>7, PulserAssumption DEF RemoveDevice, Edit, testVars
<1>8. ASSUME NEW d \in Devices, NEW t \in Targets, Redirect(d, t)
      PROVE  SequencerTypeOK' /\ TestInv'
  BY <1>0, <1>8, PulserAssumption DEF Redirect, Edit, testVars
<1>9. ASSUME NEW devices \in {setup, {}}, LoadSetup(devices) PROVE SequencerTypeOK' /\ TestInv'
  <2>1. edits' \in 0 .. MaxEdits
    BY <1>0, <1>9, PulserAssumption DEF LoadSetup, Edit
  <2>2. setup' \subseteq Devices /\ UNCHANGED <<enabled, present, generation, step, pending>>
    BY <1>0, <1>9 DEF LoadSetup, Stopped
  <2>3. running' = FALSE /\ timer' = FALSE /\ touched' = {}
    BY <1>9 DEF LoadSetup, Stopped
  <2> QED BY <1>0, <2>1, <2>2, <2>3
<1>10. CASE OnFinished
  <2>1. UNCHANGED <<configVars, generation, step, running, touched>>
    BY <1>10 DEF OnFinished
  <2>2. timer' \in BOOLEAN /\ (timer' => timer \/ running)
    BY <1>0, <1>10 DEF OnFinished
  <2>3. pending' = pending \/ (pending > 0 /\ pending' = pending - 1)
    BY <1>10 DEF OnFinished
  <2>4. pending' \in 0 .. Cardinality(Devices \X Busses)
    BY <1>0, <2>3, TargetsArePulsers
  <2> QED BY <1>0, <2>1, <2>2, <2>4 DEF configVars
<1>11. CASE GuiGoesOn \/ \E d \in Devices : Worker(d)
  BY <1>0, <1>11 DEF GuiGoesOn, Worker, JobBegins, JobCannotBegin, JobEnds, WorkerQuits, WorkerEnds,
                     configVars, testVars
<1>12. CASE UNCHANGED vars
  BY <1>0, <1>12 DEF vars, configVars, testVars
<1> QED BY <1>1, <1>2, <1>3, <1>4, <1>5, <1>6, <1>7, <1>8, <1>9, <1>10, <1>11, <1>12
        DEF Next, User

\* The parts of the hardware's history that come from a set of items.
LEMMA HardwareTypeStep ==
    ASSUME TypeOK, TestInv, [Next]_vars
    PROVE  HardwareTypeOK'
<1> USE DEF HardwareTypeOK
<1>0. HardwareTypeOK /\ WorkersTypeOK /\ SequencerTypeOK
  BY TypeParts
<1>1. CASE Start
  BY <1>0, <1>1 DEF Start
<1>2. CASE NextStep \/ Stop \/ NoTargetsLeft \/ AllOff \/ OnFinished \/ GuiGoesOn \/ UNCHANGED vars
  BY <1>0, <1>2 DEF NextStep, Stop, NoTargetsLeft, AllOff, OnFinished, GuiGoesOn, hardwareVars, vars
<1>3. CASE Close
  <2>1. \A d \in Devices : {Pulser(i) : i \in OffsOf(d)} \subseteq Targets \X Busses
    BY <1>0, OffsArePending, PulsersOfItems
  <2>2. excused' \subseteq Targets \X Busses
    BY <1>0, <1>3, <2>1 DEF Close, Undrained
  <2> QED BY <1>0, <1>3, <2>2 DEF Close
<1>4. CASE \E d \in Devices : \/ ToggleEnabled(d)
                              \/ RemoveDevice(d)
                              \/ \E b \in Busses : TogglePresent(d, b)
  BY <1>0, <1>4 DEF ToggleEnabled, TogglePresent, RemoveDevice, hardwareVars
<1>5. ASSUME NEW d \in Devices, NEW t \in Targets, Redirect(d, t) PROVE HardwareTypeOK'
  <2> DEFINE known == BussesOf(d, touched)
  <2>1. target[d] \in Targets /\ known \subseteq Busses
    BY <1>0 DEF WorkersTypeOK, BussesOf
  <2>2. known # {} => generation \in 1 .. MaxTests
    <3>1. known # {} => touched # {}
      BY DEF BussesOf
    <3>2. generation \in 0 .. MaxTests /\ (touched # {} => generation > 0)
      BY <1>0 DEF TestInv, SequencerTypeOK
    <3> QED BY <3>1, <3>2, PulserAssumption
  <2>3. /\ excused' = excused \cup {<<target[d], b>> : b \in known}
        /\ redirected' = redirected \cup {<<d, generation>> : b \in known}
        /\ UNCHANGED <<pulsing, lost>>
    BY <1>5 DEF Redirect
  <2> QED BY <1>0, <2>1, <2>2, <2>3
<1>6. ASSUME NEW devices \in {setup, {}}, LoadSetup(devices) PROVE HardwareTypeOK'
  BY <1>0, <1>6 DEF LoadSetup, hardwareVars
<1>7. ASSUME NEW d \in Devices, JobBegins(d) \/ WorkerQuits(d) PROVE HardwareTypeOK'
  BY <1>0, <1>7 DEF JobBegins, WorkerQuits, hardwareVars
<1>8. ASSUME NEW d \in Devices, JobCannotBegin(d) PROVE HardwareTypeOK'
  <2>1. Pulser(Head(queue[d])) \in Targets \X Busses
    BY <1>0, <1>8, HeadIsItem, PulsersOfItems DEF JobCannotBegin, ConnectThrows, CanRun
  <2> QED BY <1>0, <1>8, <2>1 DEF JobCannotBegin, NotCarried
<1>9. ASSUME NEW d \in Devices, NEW ok \in BOOLEAN, JobEnds(d, ok) PROVE HardwareTypeOK'
  <2>1. Pulser(active[d]) \in Targets \X Busses
    BY <1>0, <1>9, ActiveIsItem, PulsersOfItems DEF JobEnds, EndJob
  <2>2. /\ pulsing' \subseteq pulsing \cup {Pulser(active[d])}
        /\ excused' \subseteq excused \cup {Pulser(active[d])}
        /\ UNCHANGED <<redirected, lost>>
    BY <1>9 DEF JobEnds, Carried, NotCarried
  <2> QED BY <1>0, <2>1, <2>2
<1>10. ASSUME NEW d \in Devices, WorkerEnds(d) PROVE HardwareTypeOK'
  <2>1. {Pulser(i) : i \in OffsOf(d)} \subseteq Targets \X Busses
    BY <1>0, OffsArePending, PulsersOfItems
  <2>2. Cardinality(StepsIn(queue[d])) \in Nat
    BY <1>0, PendingIsSeq, StepsAreFinite
  <2>3. /\ excused' \in {excused, excused \cup {Pulser(i) : i \in OffsOf(d)}}
        /\ lost' = lost + Cardinality(StepsIn(queue[d]))
        /\ UNCHANGED <<redirected, pulsing>>
    BY <1>10 DEF WorkerEnds
  <2> QED BY <1>0, <2>1, <2>2, <2>3
<1>11. ASSUME NEW d \in Devices, Worker(d) PROVE HardwareTypeOK'
  BY <1>7, <1>8, <1>9, <1>10, <1>11 DEF Worker
<1> QED BY <1>1, <1>2, <1>3, <1>4, <1>5, <1>6, <1>11 DEF Next, User

LEMMA PulserTypeStep ==
    ASSUME TypeOK, TestInv, [Next]_vars
    PROVE  TypeOK' /\ TestInv'
<1>1. WorkersTypeOK'
  BY TypeParts, StepIsWorkersStep, TypeStep
<1>2. TypeOK' <=> WorkersTypeOK' /\ SequencerTypeOK' /\ HardwareTypeOK'
  BY DEF TypeOK, SequencerTypeOK, HardwareTypeOK
<1> QED BY <1>1, <1>2, SequencerTypeStep, HardwareTypeStep

LEMMA PulserTypeInvariant == Spec => [](TypeOK /\ TestInv)
<1>1. Init => TypeOK /\ TestInv
  <2> SUFFICES ASSUME Init PROVE TypeOK /\ TestInv
    OBVIOUS
  <2>1. WorkersTypeOK
    BY DEF Init, WorkersInit, WorkersTypeOK
  <2>2. SequencerTypeOK
    <3>1. 0 \in 0 .. NumSteps - 1 /\ 0 \in 0 .. Cardinality(Devices \X Busses)
      BY PulserAssumption, TargetsArePulsers
    <3>2. setup \subseteq Devices /\ enabled = setup /\ present \in [Devices -> SUBSET Busses]
      BY DEF Init
    <3> QED BY <3>1, <3>2 DEF Init, SequencerTypeOK
  <2>3. HardwareTypeOK /\ TestInv
    BY DEF Init, HardwareTypeOK, TestInv
  <2> QED BY <2>1, <2>2, <2>3, TypeParts
<1> QED BY <1>1, PulserTypeStep, PTL DEF Spec

\* Types of all variables of the pulser test and of the workers below it, for any
\* number of devices, busses, steps of a cycle, tests and edits.
THEOREM PulserTypeCorrect == Spec => []TypeOK
  BY PulserTypeInvariant, PTL

-----------------------------------------------------------------------------
(* What the command threads promise, they promise the pulser test.         *)

\* However the user edits, removes, loads and closes, the pulser test is a use of
\* the command threads as DeviceWorkers has it.
LEMMA PulserTestUsesWorkers == Spec => WorkersSpec
<1>1. Init => WorkersInit
  BY DEF Init
<1>2. TypeOK /\ [Next]_vars => [WorkersNext]_workerVars
  BY StepIsWorkersStep
<1> QED BY <1>1, <1>2, PulserTypeCorrect, PTL DEF Spec, WorkersSpec

\* Every command of the pulser test, the offs of stop() included, is executed on
\* a connection to the target its device had when it was submitted.
THEOREM PulserJobsReachTheirTarget == Spec => []JobReachesItsTarget
  BY PulserTestUsesWorkers, WorkersUseTheirTarget, PTL

\* The answers that the pulser test counts come in the order of its commands, and
\* only with a removed device or a shutdown without drain are commands lost.
THEOREM PulserTestImplementsJobService == Spec => ImplementsJobService
  BY PulserTestUsesWorkers, WorkersImplementJobService, PTL

-----------------------------------------------------------------------------
(* The places of the steps of test g: P is what the workers have to do, s  *)
(* what is posted to the GUI thread.                                       *)

Lists == [Devices -> Seq(Items)]

StepPlaces(P, g) == UNION {{d} \X {i \in DOMAIN P[d] : P[d][i].job.label = g} : d \in Devices}

PostedPlaces(s, g) == {i \in DOMAIN s : s[i].item.job.label = g}

LEMMA PlacesAreOutstanding ==
    /\ InWorkers = StepPlaces(Pending, generation)
    /\ InPosted = PostedPlaces(posted, generation)
    /\ InWorkers' = StepPlaces(Pending', generation')
    /\ InPosted' = PostedPlaces(posted', generation')
  BY DEF InWorkers, InPosted, StepPlaces, PostedPlaces, StepsIn, IsStep, StepLabel

LEMMA PlacesAre ==
    ASSUME NEW P \in Lists, NEW g \in Nat
    PROVE  /\ \A d \in Devices : DOMAIN P[d] = 1 .. Len(P[d]) /\ Len(P[d]) \in Nat
           /\ \A d, i : <<d, i>> \in StepPlaces(P, g)
                  <=> d \in Devices /\ i \in 1 .. Len(P[d]) /\ P[d][i].job.label = g
           /\ \A p \in StepPlaces(P, g) : p = <<p[1], p[2]>>
<1>1. \A d \in Devices : DOMAIN P[d] = 1 .. Len(P[d]) /\ Len(P[d]) \in Nat
  BY LenProperties DEF Lists
<1>2. \A p : p \in StepPlaces(P, g)
        <=> \E d \in Devices : p \in {d} \X {i \in DOMAIN P[d] : P[d][i].job.label = g}
  BY DEF StepPlaces
<1> QED BY <1>1, <1>2

LEMMA PlacesAreFinite ==
    ASSUME NEW P \in Lists, NEW g \in Nat
    PROVE  /\ IsFiniteSet(StepPlaces(P, g))
           /\ Cardinality(StepPlaces(P, g)) \in Nat
<1> DEFINE Of(d) == {d} \X {i \in DOMAIN P[d] : P[d][i].job.label = g}
           f == [d \in Devices |-> Of(d)]
           T == {Of(d) : d \in Devices}
<1>1. f \in Surjection(Devices, T)
  BY DEF Surjection
<1>2. IsFiniteSet(T)
  BY <1>1, FS_Surjection, PulserAssumption
<1>3. \A d \in Devices : IsFiniteSet(Of(d))
  <2> SUFFICES ASSUME NEW d \in Devices PROVE IsFiniteSet(Of(d))
    OBVIOUS
  <2> DEFINE S == {i \in DOMAIN P[d] : P[d][i].job.label = g}
  <2>1. IsFiniteSet(1 .. Len(P[d])) /\ S \in SUBSET (1 .. Len(P[d]))
    BY PlacesAre, FS_Interval
  <2>2. IsFiniteSet(S)
    BY <2>1, FS_Subset
  <2> HIDE DEF S
  <2>3. IsFiniteSet({d} \X S)
    BY <2>2, FS_Singleton, FS_Product
  <2> QED BY <2>3 DEF S
<1>4. IsFiniteSet(UNION T)
  BY <1>2, <1>3, FS_UNION
<1> QED BY <1>4, FS_CardinalityType DEF StepPlaces

LEMMA PostedAreFinite ==
    ASSUME NEW s \in Seq(Results), NEW g \in Nat
    PROVE  /\ PostedPlaces(s, g) \subseteq 1 .. Len(s)
           /\ IsFiniteSet(PostedPlaces(s, g))
           /\ Cardinality(PostedPlaces(s, g)) \in Nat
<1>1. DOMAIN s = 1 .. Len(s) /\ Len(s) \in Nat
  BY LenProperties
<1>2. IsFiniteSet(1 .. Len(s)) /\ PostedPlaces(s, g) \in SUBSET (1 .. Len(s))
  BY <1>1, FS_Interval DEF PostedPlaces
<1> QED BY <1>2, FS_Subset, FS_CardinalityType

\* The places of d move up by one when its first item is done.
LEMMA PlacesAfterFirst ==
    ASSUME NEW P \in Lists, NEW g \in Nat, NEW d \in Devices, P[d] # << >>
    PROVE  LET Q == [P EXCEPT ![d] = Tail(P[d])]
           IN  Cardinality(StepPlaces(P, g))
                 = Cardinality(StepPlaces(Q, g)) + (IF Head(P[d]).job.label = g THEN 1 ELSE 0)
<1> DEFINE Q == [P EXCEPT ![d] = Tail(P[d])]
           old == StepPlaces(P, g)
           rest == old \ {<<d, 1>>}
           new == StepPlaces(Q, g)
           up == [p \in new |-> IF p[1] = d THEN <<d, p[2] + 1>> ELSE p]
<1>1. /\ P[d] \in Seq(Items) /\ Head(P[d]) = P[d][1] /\ Tail(P[d]) \in Seq(Items)
      /\ Len(P[d]) \in Nat \ {0} /\ Len(Tail(P[d])) = Len(P[d]) - 1
      /\ \A i \in 1 .. Len(Tail(P[d])) : Tail(P[d])[i] = P[d][i + 1]
  BY HeadTailProperties, LenProperties, EmptySeq DEF Lists
<1>2. Q \in Lists /\ Q[d] = Tail(P[d]) /\ \A e \in Devices \ {d} : Q[e] = P[e]
  BY <1>1 DEF Lists
<1> HIDE DEF Q
<1>3. /\ \A e, i : <<e, i>> \in old <=> e \in Devices /\ i \in 1 .. Len(P[e]) /\ P[e][i].job.label = g
      /\ \A p \in old : p = <<p[1], p[2]>>
      /\ \A e \in Devices : Len(P[e]) \in Nat
  BY PlacesAre
<1>4. /\ \A e, i : <<e, i>> \in new <=> e \in Devices /\ i \in 1 .. Len(Q[e]) /\ Q[e][i].job.label = g
      /\ \A p \in new : p = <<p[1], p[2]>>
  BY <1>2, PlacesAre
<1>5. IsFiniteSet(old) /\ Cardinality(old) \in Nat
  BY PlacesAreFinite
<1> HIDE DEF old, new
<1>6. \A i : <<d, i>> \in new <=> i \in 1 .. Len(P[d]) - 1 /\ P[d][i + 1].job.label = g
  <2>1. /\ Len(Q[d]) = Len(P[d]) - 1
        /\ \A i \in 1 .. Len(P[d]) - 1 : Q[d][i] = P[d][i + 1]
    BY <1>1, <1>2
  <2>2. \A i : <<d, i>> \in new <=> i \in 1 .. Len(P[d]) - 1 /\ Q[d][i].job.label = g
    BY <1>4, <2>1
  <2> QED BY <2>1, <2>2
<1>7. \A e, i : e # d => (<<e, i>> \in new <=> <<e, i>> \in old)
  BY <1>2, <1>3, <1>4
<1>8. \A i : <<d, i>> \in new => i \in Nat /\ i >= 1 /\ <<d, i + 1>> \in rest
  <2> SUFFICES ASSUME NEW i, <<d, i>> \in new
               PROVE  i \in Nat /\ i >= 1 /\ <<d, i + 1>> \in rest
    OBVIOUS
  <2>1. i \in 1 .. Len(P[d]) - 1 /\ P[d][i + 1].job.label = g
    BY <1>6
  <2>2. i \in Nat /\ i >= 1 /\ i + 1 \in 1 .. Len(P[d]) /\ i + 1 # 1
    BY <1>1, <2>1
  <2>3. <<d, i + 1>> \in old /\ <<d, i + 1>> # <<d, 1>>
    BY <1>3, <2>1, <2>2
  <2> QED BY <2>2, <2>3
<1>9. \A p \in new : up[p] \in rest
  <2> SUFFICES ASSUME NEW p \in new PROVE up[p] \in rest
    OBVIOUS
  <2>1. p = <<p[1], p[2]>>
    BY <1>4
  <2>2. CASE p[1] = d
    BY <1>8, <2>1, <2>2
  <2>3. CASE p[1] # d
    <3>1. p \in old /\ p # <<d, 1>>
      BY <1>7, <2>1, <2>3
    <3> QED BY <2>3, <3>1
  <2> QED BY <2>2, <2>3
<1>10. ASSUME NEW p \in new, NEW q \in new, up[p] = up[q] PROVE p = q
  <2>1. p = <<p[1], p[2]>> /\ q = <<q[1], q[2]>>
    BY <1>4
  <2>2. CASE p[1] = d /\ q[1] = d
    <3>1. p[2] + 1 = q[2] + 1 /\ p[2] \in Nat /\ q[2] \in Nat
      BY <1>8, <1>10, <2>1, <2>2
    <3> QED BY <2>1, <2>2, <3>1
  <2>3. CASE p[1] # d \/ q[1] # d
    BY <1>10, <2>1, <2>3
  <2> QED BY <2>2, <2>3
<1>11. ASSUME NEW p \in rest PROVE \E q \in new : up[q] = p
  <2>1. p \in old /\ p = <<p[1], p[2]>> /\ p # <<d, 1>>
    BY <1>3
  <2>2. CASE p[1] = d
    <3> DEFINE i == p[2] - 1
    <3>1. p[2] \in 1 .. Len(P[d]) /\ P[d][p[2]].job.label = g /\ p[2] # 1
      BY <1>3, <2>1, <2>2
    <3>2. i \in 1 .. Len(P[d]) - 1 /\ i + 1 = p[2]
      BY <1>1, <3>1
    <3>3. <<d, i>> \in new
      BY <1>6, <3>1, <3>2
    <3>4. up[<<d, i>>] = <<d, i + 1>>
      BY <3>3
    <3>5. up[<<d, i>>] = p
      BY <2>1, <2>2, <3>2, <3>4
    <3> QED BY <3>3, <3>5
  <2>3. CASE p[1] # d
    <3>1. p \in new
      BY <1>7, <2>1, <2>3
    <3> QED BY <2>3, <3>1
  <2> QED BY <2>2, <2>3
<1>12. up \in Injection(new, rest) /\ up \in Surjection(new, rest)
  <2>1. up \in [new -> rest]
    BY <1>9
  <2> HIDE DEF up
  <2> QED BY <2>1, <1>10, <1>11 DEF Injection, IsInjective, Surjection
<1>13. /\ IsFiniteSet(rest)
       /\ Cardinality(rest) = IF <<d, 1>> \in old THEN Cardinality(old) - 1 ELSE Cardinality(old)
  BY <1>5, FS_RemoveElement
<1>14. Cardinality(new) = Cardinality(rest)
  <2> HIDE DEF up, rest
  <2> QED BY <1>12, <1>13, FS_Injection
<1>15. <<d, 1>> \in old <=> Head(P[d]).job.label = g
  BY <1>1, <1>3
<1>16. Cardinality(old) = Cardinality(new) + (IF Head(P[d]).job.label = g THEN 1 ELSE 0)
  <2> HIDE DEF rest
  <2> QED BY <1>5, <1>13, <1>14, <1>15
<1> QED BY <1>16 DEF old, new, Q

\* The places of d are gone when its items are dropped.
LEMMA PlacesAfterDrop ==
    ASSUME NEW P \in Lists, NEW g \in Nat, NEW d \in Devices
    PROVE  LET Q == [P EXCEPT ![d] = << >>]
           IN  Cardinality(StepPlaces(P, g))
                 = Cardinality(StepPlaces(Q, g))
                     + Cardinality({i \in DOMAIN P[d] : P[d][i].job.label = g})
<1> DEFINE Q == [P EXCEPT ![d] = << >>]
           S == {i \in DOMAIN P[d] : P[d][i].job.label = g}
           old == StepPlaces(P, g)
           new == StepPlaces(Q, g)
           gone == {d} \X S
<1>1. Q \in Lists /\ Q[d] = << >> /\ \A e \in Devices \ {d} : Q[e] = P[e]
  BY EmptySeq DEF Lists
<1>2. Len(Q[d]) = 0
  BY <1>1, EmptySeq
<1> HIDE DEF Q
<1>3. /\ \A e, i : <<e, i>> \in old <=> e \in Devices /\ i \in 1 .. Len(P[e]) /\ P[e][i].job.label = g
      /\ \A p \in old : p = <<p[1], p[2]>>
      /\ DOMAIN P[d] = 1 .. Len(P[d]) /\ Len(P[d]) \in Nat
  BY PlacesAre
<1>4. /\ \A e, i : <<e, i>> \in new <=> e \in Devices /\ i \in 1 .. Len(Q[e]) /\ Q[e][i].job.label = g
      /\ \A p \in new : p = <<p[1], p[2]>>
  BY <1>1, PlacesAre
<1>5. /\ IsFiniteSet(old) /\ Cardinality(old) \in Nat
      /\ IsFiniteSet(new) /\ Cardinality(new) \in Nat
  BY <1>1, PlacesAreFinite
<1> HIDE DEF old, new
<1>6. \A i : <<d, i>> \notin new
  BY <1>2, <1>4
<1>7. \A e, i : e # d => (<<e, i>> \in new <=> <<e, i>> \in old)
  BY <1>1, <1>3, <1>4
<1>8. \A i : <<d, i>> \in old <=> i \in S
  BY <1>3
<1>9. new = old \ gone /\ gone \subseteq old
  <2> HIDE DEF S
  <2>1. ASSUME NEW p \in new PROVE p \in old \ gone
    BY <1>4, <1>6, <1>7
  <2>2. ASSUME NEW p \in old \ gone PROVE p \in new
    <3>1. p = <<p[1], p[2]>>
      BY <1>3
    <3>2. CASE p[1] = d
      BY <1>8, <3>1, <3>2
    <3>3. CASE p[1] # d
      BY <1>7, <3>1, <3>3
    <3> QED BY <3>2, <3>3
  <2>3. gone \subseteq old
    BY <1>8
  <2> QED BY <2>1, <2>2, <2>3
<1>10. IsFiniteSet(S) /\ Cardinality(S) \in Nat
  <2>1. S \in SUBSET (1 .. Len(P[d]))
    BY <1>3
  <2>2. IsFiniteSet(1 .. Len(P[d]))
    BY <1>3, FS_Interval
  <2> QED BY <2>1, <2>2, FS_Subset, FS_CardinalityType
<1> HIDE DEF S
<1>11. Cardinality(gone) = Cardinality(S)
  <2>1. IsFiniteSet({d}) /\ Cardinality({d}) = 1
    BY FS_Singleton
  <2>2. Cardinality({d} \X S) = 1 * Cardinality(S)
    BY <1>10, <2>1, FS_Product
  <2> QED BY <1>10, <2>2
<1>12. Cardinality(new) = Cardinality(old) - Cardinality(gone)
  <2> HIDE DEF gone
  <2>1. Cardinality(old \ gone) = Cardinality(old) - Cardinality(old \cap gone)
    BY <1>5, FS_Difference
  <2>2. old \cap gone = gone /\ new = old \ gone
    BY <1>9
  <2> QED BY <2>1, <2>2
<1>13. Cardinality(old) = Cardinality(new) + Cardinality(S)
  BY <1>5, <1>10, <1>11, <1>12
<1> QED BY <1>13 DEF old, new, Q, S

\* Q has one job of test g more than P for each of the pulsers; P has none.
StepAppended(P, Q, g, pulsers) ==
    /\ P \in Lists /\ Q \in Lists
    /\ \A d \in Devices : \A i \in 1 .. Len(P[d]) : P[d][i].job.label # g
    /\ \A d \in Devices :
          LET js == JobsFor(g, pulsers)[d]
          IN  /\ Len(Q[d]) = Len(P[d]) + Len(js)
              /\ \A i \in 1 .. Len(P[d]) : Q[d][i] = P[d][i]
              /\ \A i \in 1 .. Len(js) : Q[d][Len(P[d]) + i].job = js[i]

LEMMA PlacesAfterStep ==
    ASSUME NEW P, NEW Q, NEW g \in 0 .. MaxTests, NEW pulsers \in SUBSET (Devices \X Busses),
           StepAppended(P, Q, g, pulsers)
    PROVE  Cardinality(StepPlaces(Q, g)) = Cardinality(pulsers)
<1> DEFINE js(d) == JobsFor(g, pulsers)[d]
           new == StepPlaces(Q, g)
           bus == [p \in new |-> <<p[1], Q[p[1]][p[2]].job.bus>>]
<1>1. g \in Nat /\ P \in Lists /\ Q \in Lists
  BY DEF StepAppended
<1>2. \A d \in Devices : Len(P[d]) \in Nat /\ Len(js(d)) \in Nat
  BY <1>1, PlacesAre, JobsForPulsers, LenProperties DEF JobsOfDevice
<1>3. \A d \in Devices :
        /\ \A i \in 1 .. Len(js(d)) : js(d)[i].label = g /\ <<d, js(d)[i].bus>> \in pulsers
        /\ \A i, j \in 1 .. Len(js(d)) : js(d)[i].bus = js(d)[j].bus => i = j
        /\ \A b \in BussesOf(d, pulsers) : \E i \in 1 .. Len(js(d)) : js(d)[i].bus = b
  BY JobsForPulsers DEF JobsOfDevice
<1>4. \A d \in Devices :
        /\ Len(Q[d]) = Len(P[d]) + Len(js(d))
        /\ \A i \in 1 .. Len(P[d]) : Q[d][i] = P[d][i] /\ P[d][i].job.label # g
        /\ \A i \in 1 .. Len(js(d)) : Q[d][Len(P[d]) + i].job = js(d)[i]
  BY DEF StepAppended
<1> HIDE DEF js
<1>5. /\ \A d, i : <<d, i>> \in new <=> d \in Devices /\ i \in 1 .. Len(Q[d]) /\ Q[d][i].job.label = g
      /\ \A p \in new : p = <<p[1], p[2]>>
  BY <1>1, PlacesAre
<1>6. IsFiniteSet(new)
  BY <1>1, PlacesAreFinite
<1> HIDE DEF new
<1>7. ASSUME NEW p \in new
      PROVE  /\ p = <<p[1], p[2]>> /\ p[1] \in Devices
             /\ p[2] - Len(P[p[1]]) \in 1 .. Len(js(p[1])) /\ p[2] \in Nat
             /\ Q[p[1]][p[2]].job = js(p[1])[p[2] - Len(P[p[1]])]
  <2> DEFINE d == p[1]
             i == p[2]
             k == i - Len(P[d])
  <2>1. p = <<d, i>>
    BY <1>5
  <2> HIDE DEF d, i
  <2>2. d \in Devices /\ i \in 1 .. Len(Q[d]) /\ Q[d][i].job.label = g
    BY <1>5, <2>1
  <2>3. i \notin 1 .. Len(P[d])
    BY <1>4, <2>2
  <2>4. k \in 1 .. Len(js(d)) /\ i = Len(P[d]) + k /\ i \in Nat
    BY <1>2, <1>4, <2>2, <2>3
  <2>5. Q[d][i].job = js(d)[k]
    BY <1>4, <2>2, <2>4
  <2> QED BY <2>1, <2>2, <2>4, <2>5 DEF d, i
<1>8. \A p \in new : bus[p] \in pulsers
  BY <1>3, <1>7
<1>9. ASSUME NEW p \in new, NEW q \in new, bus[p] = bus[q] PROVE p = q
  <2> DEFINE d == p[1]
  <2>1. q[1] = d /\ Q[d][p[2]].job.bus = Q[d][q[2]].job.bus
    BY <1>9
  <2>2. p[2] - Len(P[d]) = q[2] - Len(P[d])
    BY <1>3, <1>7, <2>1
  <2>3. p[2] = q[2]
    BY <1>2, <1>7, <2>1, <2>2
  <2> QED BY <1>7, <2>1, <2>3
<1>10. ASSUME NEW t \in pulsers PROVE \E p \in new : bus[p] = t
  <2> DEFINE d == t[1]
             b == t[2]
  <2>1. t = <<d, b>> /\ d \in Devices /\ b \in Busses
    OBVIOUS
  <2> HIDE DEF d, b
  <2>2. PICK i \in 1 .. Len(js(d)) : js(d)[i].bus = b
    BY <1>3, <2>1 DEF BussesOf
  <2> DEFINE k == Len(P[d]) + i
  <2>3. k \in 1 .. Len(Q[d]) /\ Q[d][k].job = js(d)[i]
    BY <1>2, <1>4, <2>1
  <2> HIDE DEF k
  <2>4. js(d)[i].label = g
    BY <1>3, <2>1
  <2>5. Q[d][k].job.label = g
    BY <2>3, <2>4
  <2>6. <<d, k>> \in new
    BY <1>5, <2>1, <2>3, <2>5
  <2>7. bus[<<d, k>>] = <<d, Q[d][k].job.bus>>
    BY <2>6
  <2> QED BY <2>1, <2>2, <2>3, <2>6, <2>7
<1>11. bus \in Injection(new, pulsers) /\ bus \in Surjection(new, pulsers)
  <2>1. bus \in [new -> pulsers]
    BY <1>8
  <2> HIDE DEF bus
  <2> QED BY <2>1, <1>9, <1>10 DEF Injection, IsInjective, Surjection
<1>12. Cardinality(pulsers) = Cardinality(new)
  <2> HIDE DEF bus
  <2> QED BY <1>6, <1>11, FS_Surjection
<1> QED BY <1>12 DEF new

LEMMA PostedAfterFirst ==
    ASSUME NEW s \in Seq(Results), NEW g \in Nat, s # << >>
    PROVE  Cardinality(PostedPlaces(s, g))
             = Cardinality(PostedPlaces(Tail(s), g))
                 + (IF Head(s).item.job.label = g THEN 1 ELSE 0)
<1> DEFINE old == PostedPlaces(s, g)
           rest == old \ {1}
           new == PostedPlaces(Tail(s), g)
           up == [i \in new |-> i + 1]
<1>1. /\ Head(s) = s[1] /\ Tail(s) \in Seq(Results)
      /\ Len(s) \in Nat \ {0} /\ Len(Tail(s)) = Len(s) - 1
      /\ \A i \in 1 .. Len(Tail(s)) : Tail(s)[i] = s[i + 1]
      /\ DOMAIN s = 1 .. Len(s) /\ DOMAIN Tail(s) = 1 .. Len(Tail(s))
  BY HeadTailProperties, LenProperties, EmptySeq
<1>2. \A i : i \in old <=> i \in 1 .. Len(s) /\ s[i].item.job.label = g
  BY <1>1 DEF PostedPlaces
<1>3. \A i : i \in new <=> i \in 1 .. Len(s) - 1 /\ s[i + 1].item.job.label = g
  <2>1. \A i : i \in new <=> i \in 1 .. Len(s) - 1 /\ Tail(s)[i].item.job.label = g
    BY <1>1 DEF PostedPlaces
  <2> QED BY <1>1, <2>1
<1>4. IsFiniteSet(old) /\ Cardinality(old) \in Nat
  BY PostedAreFinite
<1> HIDE DEF old, new
<1>5. \A i \in new : i \in Nat /\ up[i] \in rest
  <2> SUFFICES ASSUME NEW i \in new PROVE i \in Nat /\ i + 1 \in rest
    OBVIOUS
  <2>1. i \in Nat /\ i + 1 \in 1 .. Len(s) /\ i + 1 # 1
    BY <1>1, <1>3
  <2> QED BY <1>2, <1>3, <2>1
<1>6. ASSUME NEW i \in new, NEW j \in new, up[i] = up[j] PROVE i = j
  BY <1>5, <1>6
<1>7. ASSUME NEW k \in rest PROVE \E i \in new : up[i] = k
  <2>1. k \in 1 .. Len(s) /\ k # 1 /\ s[k].item.job.label = g
    BY <1>2
  <2>2. k - 1 \in 1 .. Len(s) - 1 /\ (k - 1) + 1 = k
    BY <1>1, <2>1
  <2>3. k - 1 \in new
    BY <1>3, <2>1, <2>2
  <2> QED BY <2>2, <2>3
<1>8. up \in Injection(new, rest) /\ up \in Surjection(new, rest)
  <2>1. up \in [new -> rest]
    BY <1>5
  <2> HIDE DEF up
  <2> QED BY <2>1, <1>6, <1>7 DEF Injection, IsInjective, Surjection
<1>9. /\ IsFiniteSet(rest)
      /\ Cardinality(rest) = IF 1 \in old THEN Cardinality(old) - 1 ELSE Cardinality(old)
  BY <1>4, FS_RemoveElement
<1>10. Cardinality(new) = Cardinality(rest)
  <2> HIDE DEF up, rest
  <2> QED BY <1>8, <1>9, FS_Injection
<1>11. 1 \in old <=> Head(s).item.job.label = g
  BY <1>1, <1>2
<1>12. Cardinality(old) = Cardinality(new) + (IF Head(s).item.job.label = g THEN 1 ELSE 0)
  <2> HIDE DEF rest
  <2> QED BY <1>4, <1>9, <1>10, <1>11
<1> QED BY <1>12 DEF old, new

LEMMA PostedAfterLast ==
    ASSUME NEW s \in Seq(Results), NEW g \in Nat, NEW r \in Results
    PROVE  Cardinality(PostedPlaces(Append(s, r), g))
             = Cardinality(PostedPlaces(s, g)) + (IF r.item.job.label = g THEN 1 ELSE 0)
<1> DEFINE old == PostedPlaces(s, g)
           new == PostedPlaces(Append(s, r), g)
           n == Len(s) + 1
<1>1. /\ Len(s) \in Nat /\ DOMAIN s = 1 .. Len(s) /\ DOMAIN Append(s, r) = 1 .. n
      /\ \A i \in 1 .. Len(s) : Append(s, r)[i] = s[i]
      /\ Append(s, r)[n] = r
  BY AppendProperties, LenProperties
<1>2. 1 .. n = (1 .. Len(s)) \cup {n} /\ n \notin 1 .. Len(s)
  BY <1>1
<1>3. new = IF r.item.job.label = g THEN old \cup {n} ELSE old
  BY <1>1, <1>2 DEF PostedPlaces
<1>4. n \notin old /\ IsFiniteSet(old) /\ Cardinality(old) \in Nat
  BY <1>2, PostedAreFinite
<1> HIDE DEF old, new, n
<1>5. Cardinality(old \cup {n}) = Cardinality(old) + 1
  BY <1>4, FS_AddElement
<1>6. Cardinality(new) = Cardinality(old) + (IF r.item.job.label = g THEN 1 ELSE 0)
  BY <1>3, <1>4, <1>5
<1> QED BY <1>6 DEF old, new

-----------------------------------------------------------------------------
(* What each step does to the lists and to the count.                      *)

\* Commands that switch pulsers off are submitted, and no test runs afterwards.
TurnsOff(pulsers) ==
    /\ Submitted(JobsFor(Off, pulsers))
    /\ running' = FALSE /\ timer' = FALSE
    /\ UNCHANGED <<active, posted, generation>>

\* The first item of d is done, and its result is posted.
Answers(d) ==
    /\ Pending[d] # << >>
    /\ Pending' = [Pending EXCEPT ![d] = Tail(Pending[d])]
    /\ \E ok \in BOOLEAN : posted' = Append(posted, Result(d, Head(Pending[d]), ok))
    /\ UNCHANGED <<generation, pending, running, timer, lost>>

\* The items of d are dropped with its thread.
Drops(d) ==
    /\ Pending' = [Pending EXCEPT ![d] = << >>]
    /\ lost' = lost + Cardinality(StepsIn(Pending[d]))
    /\ UNCHANGED <<posted, generation, pending, running, timer>>

Quiet ==
    /\ Pending' = Pending
    /\ UNCHANGED <<posted, generation, pending, running, timer, lost>>

LEMMA StopTurnsOff ==
    ASSUME TypeOK, Submitted(OffJobs), Stopped, UNCHANGED <<active, posted>>
    PROVE  \E pulsers \in SUBSET (Devices \X Busses) : TurnsOff(pulsers)
<1>1. running' = FALSE /\ timer' = FALSE /\ UNCHANGED generation
  BY DEF Stopped
<1>2. CASE running
  <2>1. OffJobs = JobsFor(Off, touched) /\ touched \in SUBSET (Devices \X Busses)
    BY <1>2 DEF OffJobs, TypeOK
  <2> QED BY <1>1, <2>1 DEF TurnsOff
<1>3. CASE ~running
  <2>1. OffJobs = JobsFor(Off, {}) /\ {} \in SUBSET (Devices \X Busses)
    BY <1>3 DEF OffJobs, NoJobs
  <2> QED BY <1>1, <2>1 DEF TurnsOff
<1> QED BY <1>2, <1>3

LEMMA WhatStepsDo ==
    ASSUME TypeOK, TestInv, [Next]_vars
    PROVE  \/ Start
           \/ NextStep
           \/ OnFinished
           \/ \E pulsers \in SUBSET (Devices \X Busses) : TurnsOff(pulsers)
           \/ \E d \in Devices : Answers(d) \/ Drops(d)
           \/ Quiet
<1>0. WorkersTypeOK
  BY DEF TypeOK
<1>1. CASE Stop \/ NoTargetsLeft
  <2>1. Submitted(OffJobs) /\ Stopped /\ UNCHANGED <<active, posted>>
    BY <1>1 DEF Stop, NoTargetsLeft, Submit
  <2> QED BY <2>1, StopTurnsOff
<1>2. CASE Close
  <2>1. Submitted(OffJobs) /\ Stopped /\ UNCHANGED <<active, posted>>
    BY <1>2 DEF Close, SubmitAndShutdown
  <2> QED BY <2>1, StopTurnsOff
<1>3. ASSUME NEW devices \in {setup, {}}, LoadSetup(devices)
      PROVE  \E pulsers \in SUBSET (Devices \X Busses) : TurnsOff(pulsers)
  <2>1. Submitted(OffJobs) /\ Stopped /\ UNCHANGED <<active, posted>>
    BY <1>3 DEF LoadSetup, SubmitAndRemove
  <2> QED BY <2>1, StopTurnsOff
<1>4. CASE AllOff
  <2>1. /\ Submitted(JobsFor(Off, TestTargets)) /\ UNCHANGED <<active, posted>>
        /\ running = FALSE /\ UNCHANGED <<running, timer, generation>>
    BY <1>4 DEF AllOff, Submit, testVars, TypeOK
  <2>2. timer = FALSE
    BY <2>1 DEF TestInv, TypeOK
  <2>3. TestTargets \in SUBSET (Devices \X Busses)
    BY TargetsArePulsers
  <2> QED BY <2>1, <2>2, <2>3 DEF TurnsOff
<1>5. ASSUME NEW d \in Devices, ToggleEnabled(d) PROVE Quiet
  BY <1>5, PendingUntouched DEF ToggleEnabled, Quiet, workerVars, testVars, hardwareVars
<1>6. ASSUME NEW d \in Devices, NEW b \in Busses, TogglePresent(d, b) PROVE Quiet
  BY <1>6, PendingUntouched DEF TogglePresent, Quiet, workerVars, testVars, hardwareVars
<1>7. ASSUME NEW d \in Devices, RemoveDevice(d) PROVE Quiet
  <2>1. Submitted(NoJobs) /\ UNCHANGED <<active, posted>>
    BY <1>7 DEF RemoveDevice, SubmitAndRemove
  <2>2. Pending' = Pending
    BY <1>0, <2>1, NoJobsIsEmpty, PendingOfNothing
  <2> QED BY <1>7, <2>1, <2>2 DEF RemoveDevice, Quiet, testVars, hardwareVars
<1>8. ASSUME NEW d \in Devices, NEW t \in Targets, Redirect(d, t) PROVE Quiet
  BY <1>8, PendingUntouched DEF Redirect, EditTarget, Quiet, testVars
<1>9. CASE GuiGoesOn
  BY <1>9, PendingUntouched DEF GuiGoesOn, WaitReturns, Quiet, testVars, hardwareVars
<1>10. ASSUME NEW d \in Devices, JobBegins(d) PROVE Quiet
  <2>1. Pending' = Pending
    BY <1>0, <1>10, PendingBegins DEF JobBegins
  <2> QED BY <1>10, <2>1 DEF JobBegins, BeginJob, Quiet, testVars, hardwareVars
<1>11. ASSUME NEW d \in Devices, WorkerQuits(d) PROVE Quiet
  BY <1>11, PendingUntouched DEF WorkerQuits, OnQuit, RemoveNext, Quiet, testVars, hardwareVars
<1>12. ASSUME NEW d \in Devices, JobCannotBegin(d) PROVE Answers(d)
  <2>1. /\ Pending[d] # << >> /\ Head(Pending[d]) = Head(queue[d])
        /\ Pending' = [Pending EXCEPT ![d] = Tail(Pending[d])]
    BY <1>0, <1>12, PendingThrows DEF JobCannotBegin
  <2>2. posted' = Append(posted, Result(d, Head(Pending[d]), FALSE))
    BY <1>12, <2>1 DEF JobCannotBegin, ConnectThrows
  <2> QED BY <1>12, <2>1, <2>2 DEF JobCannotBegin, Answers, testVars
<1>13. ASSUME NEW d \in Devices, NEW ok \in BOOLEAN, JobEnds(d, ok) PROVE Answers(d)
  <2>1. /\ Pending[d] # << >> /\ Head(Pending[d]) = active[d]
        /\ Pending' = [Pending EXCEPT ![d] = Tail(Pending[d])]
    BY <1>0, <1>13, PendingEnds DEF JobEnds
  <2>2. posted' = Append(posted, Result(d, Head(Pending[d]), ok))
    BY <1>13, <2>1 DEF JobEnds, EndJob
  <2> QED BY <1>13, <2>1, <2>2 DEF JobEnds, Answers, testVars
<1>14. ASSUME NEW d \in Devices, WorkerEnds(d) PROVE Drops(d)
  <2>1. Pending[d] = queue[d] /\ Pending' = [Pending EXCEPT ![d] = << >>]
    BY <1>0, <1>14, PendingDropped DEF WorkerEnds
  <2> QED BY <1>14, <2>1 DEF WorkerEnds, ThreadEnds, Drops, testVars
<1>15. CASE UNCHANGED vars
  BY <1>15, PendingUntouched DEF vars, workerVars, testVars, hardwareVars, Quiet
<1> QED BY <1>1, <1>2, <1>3, <1>4, <1>5, <1>6, <1>7, <1>8, <1>9, <1>10, <1>11, <1>12, <1>13,
           <1>14, <1>15 DEF Next, User, Worker

-----------------------------------------------------------------------------
(* The count.                                                              *)

\* No item and no result is of a test that has not been started.
LabelsKnown ==
    /\ \A d \in Devices : \A i \in 1 .. Len(Pending[d]) : Pending[d][i].job.label <= generation
    /\ \A i \in 1 .. Len(posted) : posted[i].item.job.label <= generation

LEMMA ListsAre ==
    ASSUME WorkersTypeOK
    PROVE  /\ Pending \in Lists /\ posted \in Seq(Results)
           /\ \A d \in Devices : Pending[d] \in Seq(Items) /\ Len(Pending[d]) \in Nat
           /\ \A d \in Devices : \A i \in 1 .. Len(Pending[d]) :
                 Pending[d][i] \in Items /\ Pending[d][i].job.label \in 0 .. MaxTests
           /\ Len(posted) \in Nat
           /\ \A i \in 1 .. Len(posted) :
                 posted[i].item \in Items /\ posted[i].item.job.label \in 0 .. MaxTests
<1>1. /\ \A d \in Devices : Pending[d] \in Seq(Items) /\ Len(Pending[d]) \in Nat
      /\ posted \in Seq(Results) /\ Len(posted) \in Nat
  BY PendingIsSeq, LenProperties DEF WorkersTypeOK
<1>2. Pending \in Lists
  BY <1>1 DEF Lists, Pending
<1>3. \A d \in Devices : \A i \in 1 .. Len(Pending[d]) : Pending[d][i] \in Items
  BY <1>1, ElementOfSeq
<1>4. \A i \in 1 .. Len(posted) : posted[i].item \in Items
  <2>1. \A i \in 1 .. Len(posted) : posted[i] \in Results
    BY <1>1, ElementOfSeq
  <2> QED BY <2>1 DEF Results
<1> QED BY <1>1, <1>2, <1>3, <1>4, PulsersOfItems

LEMMA NextListsAre ==
    ASSUME WorkersTypeOK'
    PROVE  Pending' \in Lists /\ posted' \in Seq(Results)
<1>1. ASSUME NEW d \in Devices PROVE (Executing(d) \o queue[d])' \in Seq(Items)
  <2>1. Executing(d)' \in Seq(Items) /\ queue'[d] \in Seq(Items)
    BY EmptySeq DEF Executing, WorkersTypeOK
  <2> QED BY <2>1, ConcatProperties
<1> QED BY <1>1 DEF Pending, Lists, WorkersTypeOK

\* The commands for a set of pulsers are behind what was there, one for each.
Sent(label, pulsers) ==
    \A d \in Devices :
        /\ Len(Pending[d]) \in Nat /\ Len(Pending'[d]) \in Nat
        /\ Len(Pending[d]) <= Len(Pending'[d])
        /\ \A i \in 1 .. Len(Pending[d]) : Pending'[d][i] = Pending[d][i]
        /\ \A i \in 1 .. Len(Pending'[d]) : i > Len(Pending[d]) =>
              /\ Pending'[d][i].job.label = label
              /\ Pending'[d][i].target = target[d]
              /\ <<d, Pending'[d][i].job.bus>> \in pulsers
        /\ \A b \in BussesOf(d, pulsers) : \E i \in 1 .. Len(Pending'[d]) :
              i > Len(Pending[d]) /\ Pending'[d][i].job.bus = b

LEMMA SubmittedIsSent ==
    ASSUME WorkersTypeOK, NEW label \in 0 .. MaxTests,
           NEW pulsers \in SUBSET (Devices \X Busses),
           Submitted(JobsFor(label, pulsers)), UNCHANGED active
    PROVE  Sent(label, pulsers)
<1> DEFINE js == JobsFor(label, pulsers)
<1>1. Submitted(js) /\ js \in JobLists /\ \A d \in Devices : JobsOfDevice(js[d], label, d, pulsers)
  BY JobsForPulsers
<1> HIDE DEF js
<1> SUFFICES ASSUME NEW d \in Devices
             PROVE  /\ Len(Pending[d]) \in Nat /\ Len(Pending'[d]) \in Nat
                    /\ Len(Pending[d]) <= Len(Pending'[d])
                    /\ \A i \in 1 .. Len(Pending[d]) : Pending'[d][i] = Pending[d][i]
                    /\ \A i \in 1 .. Len(Pending'[d]) : i > Len(Pending[d]) =>
                          /\ Pending'[d][i].job.label = label
                          /\ Pending'[d][i].target = target[d]
                          /\ <<d, Pending'[d][i].job.bus>> \in pulsers
                    /\ \A b \in BussesOf(d, pulsers) : \E i \in 1 .. Len(Pending'[d]) :
                          i > Len(Pending[d]) /\ Pending'[d][i].job.bus = b
  BY DEF Sent
<1> DEFINE n == Len(Pending[d])
           m == Len(js[d])
<1>2. /\ n \in Nat /\ m \in Nat /\ Len(Pending'[d]) = n + m
      /\ \A i \in 1 .. n : Pending'[d][i] = Pending[d][i]
      /\ \A k \in 1 .. m : Pending'[d][n + k] = [job |-> js[d][k], target |-> target[d]]
  BY <1>1, PendingLengthens
<1>3. /\ \A k \in 1 .. m : js[d][k].label = label /\ <<d, js[d][k].bus>> \in pulsers
      /\ \A b \in BussesOf(d, pulsers) : \E k \in 1 .. m : js[d][k].bus = b
  BY <1>1 DEF JobsOfDevice
<1> HIDE DEF n, m
<1>4. \A k \in 1 .. m : Pending'[d][n + k].job = js[d][k] /\ Pending'[d][n + k].target = target[d]
  <2> SUFFICES ASSUME NEW k \in 1 .. m
               PROVE  Pending'[d][n + k].job = js[d][k] /\ Pending'[d][n + k].target = target[d]
    OBVIOUS
  <2>1. Pending'[d][n + k] = [job |-> js[d][k], target |-> target[d]]
    BY <1>2
  <2> QED BY <2>1
<1>5. ASSUME NEW i \in 1 .. Len(Pending'[d]), i > n
      PROVE  /\ Pending'[d][i].job.label = label
             /\ Pending'[d][i].target = target[d]
             /\ <<d, Pending'[d][i].job.bus>> \in pulsers
  <2>1. PICK k \in 1 .. m : i = n + k
    <3>1. i - n \in 1 .. m /\ i = n + (i - n)
      BY <1>2, <1>5
    <3> QED BY <3>1
  <2>2. Pending'[d][i].job = js[d][k] /\ Pending'[d][i].target = target[d]
    BY <1>4, <2>1
  <2>3. js[d][k].label = label /\ <<d, js[d][k].bus>> \in pulsers
    BY <1>3
  <2> QED BY <2>2, <2>3
<1>6. ASSUME NEW b \in BussesOf(d, pulsers)
      PROVE  \E i \in 1 .. Len(Pending'[d]) : i > n /\ Pending'[d][i].job.bus = b
  <2>1. PICK k \in 1 .. m : js[d][k].bus = b
    BY <1>3
  <2>2. n + k \in 1 .. Len(Pending'[d]) /\ n + k > n
    BY <1>2
  <2>3. Pending'[d][n + k].job.bus = b
    BY <1>4, <2>1
  <2> QED BY <2>2, <2>3
<1>7. Len(Pending'[d]) \in Nat /\ n <= Len(Pending'[d])
  BY <1>2
<1> QED BY <1>2, <1>5, <1>6, <1>7 DEF n

\* What is appended for label is at most g.
LEMMA AppendedLabels ==
    ASSUME WorkersTypeOK, NEW label \in 0 .. MaxTests, NEW g \in Nat, label <= g,
           NEW pulsers \in SUBSET (Devices \X Busses),
           Submitted(JobsFor(label, pulsers)), UNCHANGED active,
           \A d \in Devices : \A i \in 1 .. Len(Pending[d]) : Pending[d][i].job.label <= g
    PROVE  \A d \in Devices : \A i \in 1 .. Len(Pending'[d]) : Pending'[d][i].job.label <= g
<1> SUFFICES ASSUME NEW d \in Devices, NEW i \in 1 .. Len(Pending'[d])
             PROVE  Pending'[d][i].job.label <= g
  OBVIOUS
<1>1. Sent(label, pulsers)
  BY SubmittedIsSent
<1>2. /\ Len(Pending[d]) \in Nat /\ Len(Pending'[d]) \in Nat
      /\ \A k \in 1 .. Len(Pending[d]) : Pending'[d][k] = Pending[d][k]
      /\ i > Len(Pending[d]) => Pending'[d][i].job.label = label
  BY <1>1 DEF Sent
<1>3. i \in 1 .. Len(Pending[d]) \/ i > Len(Pending[d])
  BY <1>2
<1> QED BY <1>2, <1>3

LEMMA LabelsStep ==
    ASSUME TypeOK, TestInv, LabelsKnown, [Next]_vars
    PROVE  LabelsKnown'
<1>0. WorkersTypeOK /\ generation \in 0 .. MaxTests /\ generation \in Nat
  BY PulserAssumption DEF TypeOK
<1>1. /\ \A d \in Devices : \A i \in 1 .. Len(Pending[d]) : Pending[d][i].job.label <= generation
      /\ \A i \in 1 .. Len(posted) : posted[i].item.job.label <= generation
  BY DEF LabelsKnown
<1>2. CASE Start
  <2>1. /\ generation' = generation + 1 /\ generation < MaxTests /\ posted' = posted
        /\ Submitted(JobsFor(generation', TestTargets)) /\ UNCHANGED active
    BY <1>2 DEF Start, SendStep, Submit, StepLabel
  <2>2. generation' \in 0 .. MaxTests /\ generation' \in Nat
    BY <1>0, <2>1, PulserAssumption
  <2>3. /\ \A d \in Devices : \A i \in 1 .. Len(Pending[d]) : Pending[d][i].job.label <= generation'
        /\ \A i \in 1 .. Len(posted) : posted[i].item.job.label <= generation'
    BY <1>0, <1>1, <2>1, ListsAre, PulserAssumption
  <2>4. \A d \in Devices : \A i \in 1 .. Len(Pending'[d]) : Pending'[d][i].job.label <= generation'
    BY <1>0, <2>1, <2>2, <2>3, TargetsArePulsers, AppendedLabels
  <2> QED BY <2>1, <2>3, <2>4 DEF LabelsKnown
<1>3. CASE NextStep
  <2>1. /\ generation' = generation /\ posted' = posted
        /\ Submitted(JobsFor(generation, TestTargets)) /\ UNCHANGED active
    BY <1>3 DEF NextStep, SendStep, Submit, StepLabel
  <2>2. \A d \in Devices : \A i \in 1 .. Len(Pending'[d]) : Pending'[d][i].job.label <= generation
    BY <1>0, <1>1, <2>1, TargetsArePulsers, AppendedLabels
  <2> QED BY <1>1, <2>1, <2>2 DEF LabelsKnown
<1>4. CASE OnFinished
  <2>1. posted # << >> /\ posted' = Tail(posted) /\ generation' = generation
        /\ UNCHANGED <<queue, active>>
    BY <1>4 DEF OnFinished, Deliver
  <2>2. Pending' = Pending
    BY <2>1, PendingUntouched
  <2>3. posted \in Seq(Results) /\ Len(posted) \in Nat
    BY <1>0, ListsAre
  <2>4. Len(posted') = Len(posted) - 1 /\ \A i \in 1 .. Len(posted') : posted'[i] = posted[i + 1]
    BY <2>1, <2>3, HeadTailProperties
  <2>5. \A i \in 1 .. Len(posted') : posted'[i].item.job.label <= generation
    BY <1>1, <2>3, <2>4
  <2> QED BY <1>1, <2>1, <2>2, <2>5 DEF LabelsKnown
<1>5. ASSUME NEW pulsers \in SUBSET (Devices \X Busses), TurnsOff(pulsers) PROVE LabelsKnown'
  <2>1. Submitted(JobsFor(Off, pulsers)) /\ UNCHANGED <<active, posted, generation>>
    BY <1>5 DEF TurnsOff
  <2>2. Off \in 0 .. MaxTests /\ Off <= generation
    BY <1>0, PulserAssumption DEF Off
  <2>3. \A d \in Devices : \A i \in 1 .. Len(Pending'[d]) : Pending'[d][i].job.label <= generation
    BY <1>0, <1>1, <2>1, <2>2, AppendedLabels
  <2> QED BY <1>1, <2>1, <2>3 DEF LabelsKnown
<1>6. ASSUME NEW d \in Devices, Answers(d) PROVE LabelsKnown'
  <2> DEFINE p == Pending[d]
  <2>1. /\ p # << >> /\ Pending' = [Pending EXCEPT ![d] = Tail(p)] /\ generation' = generation
        /\ \E ok \in BOOLEAN : posted' = Append(posted, Result(d, Head(p), ok))
    BY <1>6 DEF Answers
  <2>2. Pending \in Lists /\ p \in Seq(Items) /\ posted \in Seq(Results) /\ Len(posted) \in Nat
    BY <1>0, ListsAre
  <2>3. /\ Len(p) \in Nat \ {0} /\ Head(p) = p[1] /\ Head(p) \in Items
        /\ Len(Tail(p)) = Len(p) - 1
        /\ \A i \in 1 .. Len(Tail(p)) : Tail(p)[i] = p[i + 1]
    BY <2>1, <2>2, HeadTailProperties, LenProperties, EmptySeq
  <2>4. \A i \in 1 .. Len(p) : p[i].job.label <= generation
    BY <1>1
  <2> HIDE DEF p
  <2>5. \A i \in 1 .. Len(Tail(p)) : Tail(p)[i].job.label <= generation
    BY <2>3, <2>4
  <2>6. \A e \in Devices : \A i \in 1 .. Len(Pending'[e]) : Pending'[e][i].job.label <= generation
    <3> SUFFICES ASSUME NEW e \in Devices
                 PROVE  \A i \in 1 .. Len(Pending'[e]) : Pending'[e][i].job.label <= generation
      OBVIOUS
    <3>1. Pending'[e] = IF e = d THEN Tail(p) ELSE Pending[e]
      BY <2>1, <2>2 DEF Lists
    <3> QED BY <1>1, <2>5, <3>1
  <2>7. PICK ok \in BOOLEAN : posted' = Append(posted, Result(d, Head(p), ok))
    BY <2>1
  <2>8. Result(d, Head(p), ok) \in Results /\ Result(d, Head(p), ok).item = p[1]
    BY <2>3 DEF Result, Results
  <2>9. p[1].job.label <= generation
    BY <2>3, <2>4
  <2>10. /\ Len(posted') = Len(posted) + 1 /\ posted'[Len(posted) + 1].item = p[1]
         /\ \A i \in 1 .. Len(posted) : posted'[i] = posted[i]
    BY <2>2, <2>7, <2>8, AppendProperties
  <2>11. \A i \in 1 .. Len(posted') : posted'[i].item.job.label <= generation
    <3> SUFFICES ASSUME NEW i \in 1 .. Len(posted') PROVE posted'[i].item.job.label <= generation
      OBVIOUS
    <3>1. i \in 1 .. Len(posted) \/ i = Len(posted) + 1
      BY <2>2, <2>10
    <3> QED BY <1>1, <2>9, <2>10, <3>1
  <2> QED BY <2>1, <2>6, <2>11 DEF LabelsKnown
<1>7. ASSUME NEW d \in Devices, Drops(d) PROVE LabelsKnown'
  <2>1. Pending' = [Pending EXCEPT ![d] = << >>] /\ UNCHANGED <<posted, generation>>
    BY <1>7 DEF Drops
  <2>2. \A e \in Devices : Pending'[e] = IF e = d THEN << >> ELSE Pending[e]
    BY <2>1 DEF Pending
  <2>3. Len(<< >>) = 0
    BY EmptySeq
  <2> QED BY <1>1, <2>1, <2>2, <2>3 DEF LabelsKnown
<1>8. CASE Quiet
  BY <1>1, <1>8 DEF Quiet, LabelsKnown
<1> QED BY <1>2, <1>3, <1>4, <1>5, <1>6, <1>7, <1>8, WhatStepsDo

LEMMA OutstandingIs ==
    ASSUME WorkersTypeOK, NEW g \in Nat
    PROVE  /\ Cardinality(StepPlaces(Pending, g)) \in Nat
           /\ Cardinality(PostedPlaces(posted, g)) \in Nat
           /\ g = generation => Outstanding = Cardinality(StepPlaces(Pending, g))
                                                + Cardinality(PostedPlaces(posted, g))
  BY ListsAre, PlacesAreFinite, PostedAreFinite, PlacesAreOutstanding DEF Outstanding

LEMMA NextOutstandingIs ==
    ASSUME WorkersTypeOK', generation' \in Nat
    PROVE  /\ Cardinality(StepPlaces(Pending', generation')) \in Nat
           /\ Cardinality(PostedPlaces(posted', generation')) \in Nat
           /\ Outstanding' = Cardinality(StepPlaces(Pending', generation'))
                               + Cardinality(PostedPlaces(posted', generation'))
  BY NextListsAre, PlacesAreFinite, PostedAreFinite, PlacesAreOutstanding DEF Outstanding

\* Nothing of test g is on its way.
NothingOf(g) ==
    /\ \A d \in Devices : \A i \in 1 .. Len(Pending[d]) : Pending[d][i].job.label # g
    /\ \A i \in 1 .. Len(posted) : posted[i].item.job.label # g

\* A step that is sent while nothing of its test is on its way has as many results
\* to wait for as it has pulsers to set.
LEMMA StepIsCounted ==
    ASSUME TypeOK, WorkersTypeOK', NEW g \in 0 .. MaxTests, NothingOf(g), generation' = g,
           Submitted(JobsFor(g, TestTargets)), UNCHANGED <<active, posted>>
    PROVE  Outstanding' = Cardinality(TestTargets)
<1>1. WorkersTypeOK /\ g \in Nat
  BY PulserAssumption DEF TypeOK
<1>2. Pending \in Lists /\ Pending' \in Lists /\ posted \in Seq(Results)
  BY <1>1, ListsAre, NextListsAre
<1>3. TestTargets \in SUBSET (Devices \X Busses)
  BY TargetsArePulsers
<1>4. StepAppended(Pending, Pending', g, TestTargets)
  <2> DEFINE js == JobsFor(g, TestTargets)
  <2>1. js \in JobLists
    BY <1>3, JobsForPulsers
  <2>2. \A d \in Devices :
          /\ Len(Pending'[d]) = Len(Pending[d]) + Len(js[d])
          /\ \A i \in 1 .. Len(Pending[d]) : Pending'[d][i] = Pending[d][i]
          /\ \A i \in 1 .. Len(js[d]) :
                Pending'[d][Len(Pending[d]) + i] = [job |-> js[d][i], target |-> target[d]]
    <3> HIDE DEF js
    <3>1. Submitted(js)
      BY DEF js
    <3> QED BY <1>1, <2>1, <3>1, PendingLengthens
  <2> HIDE DEF js
  <2>3. ASSUME NEW d \in Devices, NEW i \in 1 .. Len(js[d])
        PROVE  Pending'[d][Len(Pending[d]) + i].job = js[d][i]
    <3>1. Pending'[d][Len(Pending[d]) + i] = [job |-> js[d][i], target |-> target[d]]
      BY <2>2
    <3> QED BY <3>1
  <2>4. js = JobsFor(g, TestTargets)
    BY DEF js
  <2> QED BY <1>2, <2>2, <2>3, <2>4 DEF StepAppended, NothingOf
<1>5. Cardinality(StepPlaces(Pending', g)) = Cardinality(TestTargets)
  BY <1>3, <1>4, PlacesAfterStep
<1>6. Cardinality(PostedPlaces(posted', g)) = 0
  <2>1. PostedPlaces(posted, g) = {}
    BY <1>2, LenProperties DEF NothingOf, PostedPlaces
  <2> QED BY <2>1, FS_EmptySet
<1>7. /\ Cardinality(TestTargets) \in Nat
      /\ Outstanding' = Cardinality(StepPlaces(Pending', g)) + Cardinality(PostedPlaces(posted', g))
  BY <1>1, NextOutstandingIs, TargetsArePulsers, FS_CardinalityType
<1> QED BY <1>5, <1>6, <1>7

LEMMA NothingOutstanding ==
    ASSUME TypeOK, Outstanding = 0
    PROVE  NothingOf(generation)
<1>1. WorkersTypeOK /\ generation \in Nat
  BY PulserAssumption DEF TypeOK
<1>2. Pending \in Lists /\ posted \in Seq(Results)
  BY <1>1, ListsAre
<1> DEFINE P == StepPlaces(Pending, generation)
           R == PostedPlaces(posted, generation)
<1>3. IsFiniteSet(P) /\ IsFiniteSet(R)
  BY <1>1, <1>2, PlacesAreFinite, PostedAreFinite
<1>4. Cardinality(P) = 0 /\ Cardinality(R) = 0
  BY <1>1, OutstandingIs
<1>5. P = {} /\ R = {}
  BY <1>3, <1>4, FS_EmptySet
<1>6. \A d \in Devices : \A i \in 1 .. Len(Pending[d]) : Pending[d][i].job.label # generation
  BY <1>1, <1>2, <1>5, PlacesAre
<1>7. \A i \in 1 .. Len(posted) : posted[i].item.job.label # generation
  BY <1>2, <1>5, LenProperties DEF PostedPlaces
<1> QED BY <1>6, <1>7 DEF NothingOf

LEMMA CountStep ==
    ASSUME TypeOK, TestInv, LabelsKnown, PendingIsOutstanding, [Next]_vars
    PROVE  PendingIsOutstanding'
<1>0. /\ WorkersTypeOK /\ generation \in 0 .. MaxTests /\ generation \in Nat
      /\ pending \in Nat /\ lost \in Nat /\ running \in BOOLEAN /\ timer \in BOOLEAN
  BY PulserAssumption, TargetsArePulsers DEF TypeOK
<1>1. WorkersTypeOK' /\ generation' \in Nat
  BY PulserTypeStep, PulserAssumption DEF TypeOK
<1>2. CASE Start
  <2>1. /\ generation' = generation + 1 /\ generation < MaxTests
        /\ pending' = Cardinality(TestTargets) /\ lost' = 0
        /\ Submitted(JobsFor(generation', TestTargets)) /\ UNCHANGED <<active, posted>>
    BY <1>2 DEF Start, SendStep, Submit, StepLabel
  <2>2. generation' \in 0 .. MaxTests
    BY <1>0, <2>1, PulserAssumption
  <2>3. NothingOf(generation')
    BY <1>0, <2>1, ListsAre, PulserAssumption DEF LabelsKnown, NothingOf
  <2>4. Outstanding' = Cardinality(TestTargets)
    BY <1>1, <2>1, <2>2, <2>3, StepIsCounted
  <2>5. Cardinality(TestTargets) \in Nat
    BY TargetsArePulsers, FS_CardinalityType
  <2>6. pending' = Outstanding' + lost'
    BY <2>1, <2>4, <2>5
  <2>7. timer' = FALSE
    <3>1. running = FALSE /\ timer' = timer
      BY <1>0, <1>2 DEF Start
    <3> QED BY <1>0, <3>1 DEF TestInv
  <2> QED BY <2>6, <2>7 DEF PendingIsOutstanding
<1>3. CASE NextStep
  <2>1. /\ generation' = generation
        /\ pending' = Cardinality(TestTargets) /\ lost' = lost
        /\ Submitted(JobsFor(generation, TestTargets)) /\ UNCHANGED <<active, posted>>
    BY <1>3 DEF NextStep, SendStep, Submit, StepLabel, hardwareVars
  <2>2. timer' = FALSE /\ timer = TRUE
    BY <1>0, <1>3 DEF NextStep
  <2>3. running /\ pending = 0
    BY <2>2 DEF PendingIsOutstanding
  <2>4. pending = Outstanding + lost /\ Outstanding \in Nat
    BY <1>0, <2>3, OutstandingIs DEF PendingIsOutstanding
  <2>5. Outstanding = 0 /\ lost = 0
    BY <1>0, <2>3, <2>4
  <2>6. Outstanding' = Cardinality(TestTargets)
    BY <1>0, <1>1, <2>1, <2>5, NothingOutstanding, StepIsCounted
  <2>7. Cardinality(TestTargets) \in Nat
    BY TargetsArePulsers, FS_CardinalityType
  <2>8. pending' = Outstanding' + lost'
    BY <2>1, <2>5, <2>6, <2>7
  <2> QED BY <2>2, <2>8 DEF PendingIsOutstanding
<1>4. CASE OnFinished
  <2> DEFINE isStep == Head(posted).item.job.label = generation
  <2>1. /\ posted # << >> /\ posted' = Tail(posted)
        /\ UNCHANGED <<queue, active, generation, running, lost>>
    BY <1>4 DEF OnFinished, Deliver, hardwareVars
  <2>2. /\ pending' = IF isStep /\ pending > 0 THEN pending - 1 ELSE pending
        /\ timer' = (timer \/ (isStep /\ pending > 0 /\ pending = 1 /\ running))
    BY <1>4 DEF OnFinished, IsStep, StepLabel
  <2>3. Pending' = Pending
    BY <2>1, PendingUntouched
  <2> DEFINE w == Cardinality(StepPlaces(Pending, generation))
             p == Cardinality(PostedPlaces(posted, generation))
             q == Cardinality(PostedPlaces(posted', generation))
  <2>4. /\ w \in Nat /\ p \in Nat /\ q \in Nat
        /\ Outstanding = w + p /\ Outstanding' = w + q
    BY <1>0, <1>1, <2>1, <2>3, OutstandingIs, NextOutstandingIs
  <2>5. p = q + (IF isStep THEN 1 ELSE 0)
    BY <1>0, <2>1, ListsAre, PostedAfterFirst
  <2> HIDE DEF isStep, w, p, q
  <2>6. CASE running = TRUE
    <3>1. pending = w + p + lost
      BY <2>4, <2>6 DEF PendingIsOutstanding
    <3>2. CASE isStep
      <4>1. p = q + 1 /\ pending > 0
        BY <1>0, <2>4, <2>5, <3>1, <3>2
      <4>2. pending' = pending - 1 /\ timer' = (timer \/ pending = 1)
        BY <2>2, <2>6, <3>2, <4>1
      <4>3. pending' = Outstanding' + lost'
        BY <1>0, <2>1, <2>4, <3>1, <4>1, <4>2
      <4>4. timer = FALSE
        BY <1>0, <4>1 DEF PendingIsOutstanding
      <4>5. timer' = (pending = 1)
        BY <4>2, <4>4
      <4>6. pending = 1 => pending' = 0
        BY <4>2
      <4> QED BY <2>1, <2>6, <4>3, <4>5, <4>6 DEF PendingIsOutstanding
    <3>3. CASE ~isStep
      <4>1. pending' = pending /\ timer' = timer
        BY <1>0, <2>2, <3>3
      <4>2. p = q
        BY <2>4, <2>5, <3>3
      <4>3. pending' = Outstanding' + lost'
        BY <2>1, <2>4, <3>1, <4>1, <4>2
      <4> QED BY <2>1, <2>6, <4>1, <4>3 DEF PendingIsOutstanding
    <3> QED BY <3>2, <3>3
  <2>7. CASE running = FALSE
    <3>1. timer = FALSE /\ running' = FALSE
      BY <1>0, <2>1, <2>7 DEF TestInv
    <3>2. timer' = FALSE
      BY <2>2, <2>7, <3>1
    <3> QED BY <3>1, <3>2 DEF PendingIsOutstanding
  <2> QED BY <1>0, <2>6, <2>7
<1>5. ASSUME NEW pulsers \in SUBSET (Devices \X Busses), TurnsOff(pulsers)
      PROVE  PendingIsOutstanding'
  BY <1>5 DEF TurnsOff, PendingIsOutstanding
<1>6. ASSUME NEW d \in Devices, Answers(d) PROVE PendingIsOutstanding'
  <2> DEFINE item == Head(Pending[d])
             one == IF item.job.label = generation THEN 1 ELSE 0
             w == Cardinality(StepPlaces(Pending, generation))
             p == Cardinality(PostedPlaces(posted, generation))
             v == Cardinality(StepPlaces(Pending', generation))
             q == Cardinality(PostedPlaces(posted', generation))
  <2>1. /\ Pending[d] # << >> /\ Pending' = [Pending EXCEPT ![d] = Tail(Pending[d])]
        /\ UNCHANGED <<generation, pending, running, timer, lost>>
    BY <1>6 DEF Answers
  <2>2. PICK ok \in BOOLEAN : posted' = Append(posted, Result(d, item, ok))
    BY <1>6 DEF Answers
  <2>3. Pending \in Lists /\ Pending[d] \in Seq(Items) /\ posted \in Seq(Results)
    BY <1>0, ListsAre
  <2>4. item \in Items
    BY <2>1, <2>3, HeadTailProperties
  <2>5. Result(d, item, ok) \in Results /\ Result(d, item, ok).item = item
    BY <2>4 DEF Result, Results
  <2>6. w = v + one
    BY <1>0, <2>1, <2>3, PlacesAfterFirst
  <2>7. q = p + one
    BY <1>0, <2>2, <2>3, <2>5, PostedAfterLast
  <2>8. /\ w \in Nat /\ p \in Nat /\ v \in Nat /\ q \in Nat
        /\ Outstanding = w + p /\ Outstanding' = v + q
    BY <1>0, <1>1, <2>1, OutstandingIs, NextOutstandingIs
  <2>9. one \in Nat
    OBVIOUS
  <2> HIDE DEF one, w, p, v, q
  <2>10. Outstanding' = Outstanding
    BY <2>6, <2>7, <2>8, <2>9
  <2> QED BY <2>1, <2>10 DEF PendingIsOutstanding
<1>7. ASSUME NEW d \in Devices, Drops(d) PROVE PendingIsOutstanding'
  <2> DEFINE n == Cardinality({i \in DOMAIN Pending[d] : Pending[d][i].job.label = generation})
             w == Cardinality(StepPlaces(Pending, generation))
             v == Cardinality(StepPlaces(Pending', generation))
             p == Cardinality(PostedPlaces(posted, generation))
  <2>1. /\ Pending' = [Pending EXCEPT ![d] = << >>]
        /\ UNCHANGED <<posted, generation, pending, running, timer>>
    BY <1>7 DEF Drops
  <2>2. lost' = lost + n
    BY <1>7 DEF Drops, StepsIn, IsStep, StepLabel
  <2>3. w = v + n
    BY <1>0, <2>1, ListsAre, PlacesAfterDrop
  <2>4. n \in Nat
    <3>1. Cardinality(StepsIn(Pending[d])) \in Nat
      BY <1>0, ListsAre, StepsAreFinite
    <3> QED BY <3>1 DEF StepsIn, IsStep, StepLabel
  <2>5. /\ w \in Nat /\ p \in Nat /\ v \in Nat
        /\ Outstanding = w + p /\ Outstanding' = v + p
    BY <1>0, <1>1, <2>1, OutstandingIs, NextOutstandingIs
  <2> HIDE DEF n, w, v, p
  <2>6. Outstanding' + lost' = Outstanding + lost
    BY <1>0, <2>2, <2>3, <2>4, <2>5
  <2> QED BY <2>1, <2>6 DEF PendingIsOutstanding
<1>8. CASE Quiet
  <2>1. UNCHANGED <<posted, generation, pending, running, timer, lost>> /\ Pending' = Pending
    BY <1>8 DEF Quiet
  <2>2. Outstanding' = Outstanding
    BY <2>1, PlacesAreOutstanding DEF Outstanding
  <2> QED BY <2>1, <2>2 DEF PendingIsOutstanding
<1> QED BY <1>2, <1>3, <1>4, <1>5, <1>6, <1>7, <1>8, WhatStepsDo

\* While a test runs, _pending is what is on its way of that test or was dropped,
\* and the timer runs only when nothing is: the steps of the sequencer never
\* overlap, whatever late results of an earlier test, of offs or of other commands
\* arrive, in whatever order the workers and the GUI thread take their turns.
THEOREM StepsDoNotOverlap == Spec => []PendingIsOutstanding
<1>1. Init => LabelsKnown /\ PendingIsOutstanding
  <2> SUFFICES ASSUME Init PROVE LabelsKnown /\ PendingIsOutstanding
    OBVIOUS
  <2>1. posted = << >> /\ running = FALSE /\ timer = FALSE
    BY DEF Init, WorkersInit
  <2>2. \A d \in Devices : Pending[d] = << >>
    BY ConcatEmptySeq, EmptySeq DEF Init, WorkersInit, Pending, Executing
  <2> QED BY <2>1, <2>2, EmptySeq DEF LabelsKnown, PendingIsOutstanding
<1> QED BY <1>1, LabelsStep, CountStep, PulserTypeInvariant, PTL DEF Spec

-----------------------------------------------------------------------------
(* Where every pulser, and every item that will switch one on, is          *)
(* accounted for.                                                          *)

IsOff(item, p) == item.job.label = Off /\ Pulser(item) = p

\* An off of p is among the items P.
HasOff(P, p) == \E d \in Devices : \E i \in 1 .. Len(P[d]) : IsOff(P[d][i], p)

\* Its off is behind the on at place i of d.
OffBehind(d, i) ==
    \E j \in 1 .. Len(Pending[d]) : i < j /\ IsOff(Pending[d][j], Pulser(Pending[d][i]))

\* stop() would send the off behind it.
StillTouched(d, item) ==
    /\ running = TRUE
    /\ item.job.label = generation
    /\ <<d, item.job.bus>> \in touched
    /\ item.target = target[d]

Redirected(d, item) == <<d, item.job.label>> \in redirected

\* Every on that has not been carried out will be followed by its off, or its
\* device was redirected.
OnsAccounted ==
    \A d \in Devices : \A i \in 1 .. Len(Pending[d]) :
        Pending[d][i].job.label # Off =>
            \/ Redirected(d, Pending[d][i])
            \/ StillTouched(d, Pending[d][i])
            \/ OffBehind(d, i)

\* When jobs are dropped with the window, everything is excused already.
DropIsExcused ==
    closing = "drop" =>
        /\ pulsing \subseteq excused
        /\ \A d \in Devices : \A i \in 1 .. Len(Pending[d]) :
              Pending[d][i].job.label # Off =>
                  Redirected(d, Pending[d][i]) \/ Pulser(Pending[d][i]) \in excused

KnownPulser(p) ==
    running = TRUE /\ \E d \in Devices : target[d] = p[1] /\ <<d, p[2]>> \in touched

\* PulsersEndOff by the places of the offs.
EndOff == \A p \in pulsing \ excused : KnownPulser(p) \/ HasOff(Pending, p)

Accounted == OnsAccounted /\ DropIsExcused /\ EndOff

LEMMA OffsOfItems ==
    ASSUME NEW s \in Seq(Items), NEW p
    PROVE  p \in {Pulser(item) : item \in {k \in Range(s) : k.job.label = Off}}
               <=> \E i \in 1 .. Len(s) : IsOff(s[i], p)
<1>1. DOMAIN s = 1 .. Len(s)
  BY LenProperties
<1>2. Range(s) = {s[i] : i \in 1 .. Len(s)}
  BY <1>1 DEF Range
<1> QED BY <1>2 DEF IsOff

LEMMA EndOffIs ==
    ASSUME TypeOK
    PROVE  /\ PulsersEndOff <=> EndOff
           /\ \A d \in Devices : \A p :
                 p \in {Pulser(i) : i \in OffsOf(d)}
                     <=> \E i \in 1 .. Len(Pending[d]) : IsOff(Pending[d][i], p)
<1>1. \A d \in Devices : Pending[d] \in Seq(Items)
  BY ListsAre DEF TypeOK
<1>2. \A d \in Devices : \A p :
        p \in {Pulser(i) : i \in OffsOf(d)}
            <=> \E i \in 1 .. Len(Pending[d]) : IsOff(Pending[d][i], p)
  BY <1>1, OffsOfItems DEF OffsOf
<1>3. running <=> running = TRUE
  BY DEF TypeOK
<1>4. \A p : HasOff(Pending, p) <=> \E d \in Devices : p \in {Pulser(i) : i \in OffsOf(d)}
  BY <1>2 DEF HasOff
<1>5. \A p : KnownPulser(p)
               <=> running /\ \E d \in Devices : target[d] = p[1] /\ <<d, p[2]>> \in touched
  BY <1>3 DEF KnownPulser
<1> QED BY <1>2, <1>4, <1>5 DEF PulsersEndOff, EndOff

\* What is sent stands behind what was there, so no off is lost.
LEMMA OffsStay ==
    ASSUME NEW label, NEW pulsers, Sent(label, pulsers)
    PROVE  /\ \A p : HasOff(Pending, p) => HasOff(Pending', p)
           /\ \A d \in Devices : \A i \in 1 .. Len(Pending[d]) :
                 /\ i \in 1 .. Len(Pending'[d]) /\ Pending'[d][i] = Pending[d][i]
                 /\ OffBehind(d, i) => OffBehind(d, i)'
<1>1. \A d \in Devices : \A i \in 1 .. Len(Pending[d]) :
        i \in 1 .. Len(Pending'[d]) /\ Pending'[d][i] = Pending[d][i]
  BY DEF Sent
<1>2. \A p : HasOff(Pending, p) => HasOff(Pending', p)
  BY <1>1 DEF HasOff
<1>3. ASSUME NEW d \in Devices, NEW i \in 1 .. Len(Pending[d]), OffBehind(d, i)
      PROVE  OffBehind(d, i)'
  <2>1. PICK j \in 1 .. Len(Pending[d]) : i < j /\ IsOff(Pending[d][j], Pulser(Pending[d][i]))
    BY <1>3 DEF OffBehind
  <2>2. j \in 1 .. Len(Pending'[d]) /\ IsOff(Pending'[d][j], Pulser(Pending'[d][i]))
    BY <1>1, <2>1
  <2> QED BY <2>1, <2>2 DEF OffBehind, IsOff, Pulser
<1> QED BY <1>1, <1>2, <1>3

\* A step of test g is sent: its ons are touched.
SendsOns(g, pulsers) ==
    /\ Sent(g, pulsers)
    /\ generation' = g /\ running' = TRUE /\ pulsers \subseteq touched'
    /\ running = TRUE => generation' = generation /\ touched \subseteq touched'
    /\ closing' # "drop"
    /\ UNCHANGED <<target, pulsing, excused, redirected>>

LEMMA AfterOns ==
    ASSUME NEW g, NEW pulsers, SendsOns(g, pulsers), Accounted
    PROVE  Accounted'
<1>1. /\ Sent(g, pulsers)
      /\ generation' = g /\ running' = TRUE /\ pulsers \subseteq touched'
      /\ running = TRUE => generation' = generation /\ touched \subseteq touched'
      /\ UNCHANGED <<target, pulsing, excused, redirected>>
  BY DEF SendsOns
<1>2. OnsAccounted'
  <2> SUFFICES ASSUME NEW d \in Devices, NEW i \in 1 .. Len(Pending'[d]),
                      Pending'[d][i].job.label # Off
               PROVE  \/ Redirected(d, Pending[d][i])'
                      \/ StillTouched(d, Pending[d][i])'
                      \/ OffBehind(d, i)'
    BY DEF OnsAccounted
  <2>1. Len(Pending[d]) \in Nat /\ Len(Pending'[d]) \in Nat
    BY <1>1 DEF Sent
  <2>2. CASE i \in 1 .. Len(Pending[d])
    <3>1. Pending'[d][i] = Pending[d][i] /\ (OffBehind(d, i) => OffBehind(d, i)')
      BY <1>1, <2>2, OffsStay
    <3>2. \/ Redirected(d, Pending[d][i])
          \/ StillTouched(d, Pending[d][i])
          \/ OffBehind(d, i)
      BY <2>2, <3>1 DEF Accounted, OnsAccounted
    <3> QED BY <1>1, <3>1, <3>2 DEF Redirected, StillTouched
  <2>3. CASE i > Len(Pending[d])
    <3>1. /\ Pending'[d][i].job.label = g /\ Pending'[d][i].target = target[d]
          /\ <<d, Pending'[d][i].job.bus>> \in pulsers
      BY <1>1, <2>3 DEF Sent
    <3> QED BY <1>1, <3>1 DEF StillTouched
  <2> QED BY <2>1, <2>2, <2>3
<1>3. DropIsExcused'
  BY DEF SendsOns, DropIsExcused
<1>4. EndOff'
  <2> SUFFICES ASSUME NEW p \in pulsing \ excused PROVE KnownPulser(p)' \/ HasOff(Pending', p)
    BY <1>1 DEF EndOff
  <2>1. KnownPulser(p) \/ HasOff(Pending, p)
    BY DEF Accounted, EndOff
  <2>2. KnownPulser(p) => KnownPulser(p)'
    BY <1>1 DEF KnownPulser
  <2> QED BY <1>1, <2>1, <2>2, OffsStay
<1> QED BY <1>2, <1>3, <1>4 DEF Accounted

\* Offs of all that is touched, if anything is, are sent and no test runs after it.
SendsOffs(pulsers) ==
    /\ Sent(Off, pulsers)
    /\ running = TRUE => touched \subseteq pulsers
    /\ running' = FALSE
    /\ excused \subseteq excused'
    /\ closing' = "drop" => /\ running # TRUE
                            /\ \A p : HasOff(Pending, p) => p \in excused'
    /\ UNCHANGED <<target, pulsing, redirected>>

LEMMA AfterOffs ==
    ASSUME TypeOK, NEW pulsers, SendsOffs(pulsers), Accounted
    PROVE  Accounted'
<1>1. /\ Sent(Off, pulsers) /\ (running = TRUE => touched \subseteq pulsers)
      /\ running' = FALSE /\ excused \subseteq excused'
      /\ UNCHANGED <<target, pulsing, redirected>>
  BY DEF SendsOffs
<1>2. \A d \in Devices : Len(Pending[d]) \in Nat /\ Len(Pending'[d]) \in Nat
  BY <1>1 DEF Sent
\* The off of every pulser that is touched has been sent.
<1>3. ASSUME NEW d \in Devices, NEW b \in Busses, <<d, b>> \in touched, running = TRUE
      PROVE  \E j \in 1 .. Len(Pending'[d]) :
                j > Len(Pending[d]) /\ IsOff(Pending'[d][j], <<target[d], b>>)
  <2>1. b \in BussesOf(d, pulsers)
    BY <1>1, <1>3 DEF BussesOf
  <2>2. PICK j \in 1 .. Len(Pending'[d]) : j > Len(Pending[d]) /\ Pending'[d][j].job.bus = b
    BY <1>1, <2>1 DEF Sent
  <2>3. Pending'[d][j].job.label = Off /\ Pending'[d][j].target = target[d]
    BY <1>1, <2>2 DEF Sent
  <2> QED BY <2>2, <2>3 DEF IsOff, Pulser
<1>4. ASSUME NEW d \in Devices, NEW i \in 1 .. Len(Pending'[d]), Pending'[d][i].job.label # Off
      PROVE  /\ i \in 1 .. Len(Pending[d]) /\ Pending'[d][i] = Pending[d][i]
             /\ \/ Redirected(d, Pending[d][i])
                \/ StillTouched(d, Pending[d][i])
                \/ OffBehind(d, i)
  <2>1. ~(i > Len(Pending[d]))
    BY <1>1, <1>4 DEF Sent
  <2>2. i \in 1 .. Len(Pending[d])
    BY <1>2, <2>1
  <2>3. Pending'[d][i] = Pending[d][i]
    BY <1>1, <2>2, OffsStay
  <2> QED BY <1>4, <2>2, <2>3 DEF Accounted, OnsAccounted
<1>5. OnsAccounted'
  <2> SUFFICES ASSUME NEW d \in Devices, NEW i \in 1 .. Len(Pending'[d]),
                      Pending'[d][i].job.label # Off
               PROVE  Redirected(d, Pending[d][i])' \/ OffBehind(d, i)'
    BY DEF OnsAccounted
  <2> DEFINE item == Pending[d][i]
  <2>1. /\ i \in 1 .. Len(Pending[d]) /\ Pending'[d][i] = item
        /\ Redirected(d, item) \/ StillTouched(d, item) \/ OffBehind(d, i)
    BY <1>4
  <2>2. OffBehind(d, i) => OffBehind(d, i)'
    BY <1>1, <2>1, OffsStay
  <2>3. ASSUME StillTouched(d, item) PROVE OffBehind(d, i)'
    <3>1. /\ running = TRUE /\ <<d, item.job.bus>> \in touched /\ item.target = target[d]
          /\ item.job.bus \in Busses
      BY <2>3 DEF StillTouched, TypeOK
    <3>2. PICK j \in 1 .. Len(Pending'[d]) :
             j > Len(Pending[d]) /\ IsOff(Pending'[d][j], <<target[d], item.job.bus>>)
      BY <1>3, <3>1
    <3>3. i < j
      BY <1>2, <2>1, <3>2
    <3>4. Pulser(Pending'[d][i]) = <<target[d], item.job.bus>>
      BY <2>1, <3>1 DEF Pulser
    <3> QED BY <3>2, <3>3, <3>4 DEF OffBehind, IsOff, Pulser
  <2>4. Redirected(d, item) => Redirected(d, Pending[d][i])'
    BY <1>1, <2>1 DEF Redirected
  <2> QED BY <2>1, <2>2, <2>3, <2>4
<1>6. DropIsExcused'
  <2> SUFFICES ASSUME closing' = "drop"
               PROVE  /\ pulsing' \subseteq excused'
                      /\ \A d \in Devices : \A i \in 1 .. Len(Pending'[d]) :
                            Pending'[d][i].job.label # Off =>
                                \/ Redirected(d, Pending[d][i])'
                                \/ Pulser(Pending'[d][i]) \in excused'
    BY DEF DropIsExcused, Pulser
  <2>1. running # TRUE /\ \A p : HasOff(Pending, p) => p \in excused'
    BY DEF SendsOffs
  <2>2. \A p \in pulsing \ excused : HasOff(Pending, p)
    BY <2>1 DEF Accounted, EndOff, KnownPulser
  <2>3. pulsing' \subseteq excused'
    BY <1>1, <2>1, <2>2
  <2>4. ASSUME NEW d \in Devices, NEW i \in 1 .. Len(Pending'[d]), Pending'[d][i].job.label # Off
        PROVE  Redirected(d, Pending[d][i])' \/ Pulser(Pending'[d][i]) \in excused'
    <3>1. /\ Pending'[d][i] = Pending[d][i]
          /\ Redirected(d, Pending[d][i]) \/ OffBehind(d, i)
      BY <1>4, <2>1, <2>4 DEF StillTouched
    <3>2. OffBehind(d, i) => HasOff(Pending, Pulser(Pending[d][i]))
      BY DEF OffBehind, HasOff
    <3>3. Redirected(d, Pending[d][i]) => Redirected(d, Pending[d][i])'
      BY <1>1, <3>1 DEF Redirected
    <3> QED BY <2>1, <3>1, <3>2, <3>3
  <2> QED BY <2>3, <2>4
<1>7. EndOff'
  <2> SUFFICES ASSUME NEW p \in pulsing', p \notin excused' PROVE HasOff(Pending', p)
    BY DEF EndOff
  <2>1. p \in pulsing \ excused /\ p \in Targets \X Busses
    BY <1>1 DEF TypeOK
  <2>2. KnownPulser(p) \/ HasOff(Pending, p)
    BY <2>1 DEF Accounted, EndOff
  <2>3. CASE KnownPulser(p)
    <3>1. PICK d \in Devices : target[d] = p[1] /\ <<d, p[2]>> \in touched
      BY <2>3 DEF KnownPulser
    <3>2. p[2] \in Busses /\ p = <<target[d], p[2]>> /\ running = TRUE
      BY <2>1, <2>3, <3>1 DEF KnownPulser
    <3>3. \E j \in 1 .. Len(Pending'[d]) : IsOff(Pending'[d][j], p)
      BY <1>3, <3>1, <3>2
    <3> QED BY <3>3 DEF HasOff
  <2>4. CASE HasOff(Pending, p)
    BY <1>1, <2>4, OffsStay
  <2> QED BY <2>2, <2>3, <2>4
<1> QED BY <1>5, <1>6, <1>7 DEF Accounted

\* The target of d changes: what was touched of d is excused and d redirected.
LEMMA AfterRedirect ==
    ASSUME TypeOK, Accounted, NEW d \in Devices, NEW t \in Targets, Redirect(d, t)
    PROVE  Accounted'
<1> DEFINE known == BussesOf(d, touched)
<1>1. /\ excused' = excused \cup {<<target[d], b>> : b \in known}
      /\ redirected' = redirected \cup {<<d, generation>> : b \in known}
      /\ UNCHANGED <<pulsing, generation, running, touched, closing, queue, active>>
      /\ closing = "no"
      /\ target' = [target EXCEPT ![d] = t]
  BY DEF Redirect, EditTarget, GuiIsFree, testVars
<1>2. /\ Pending' = Pending
      /\ \A e \in Devices \ {d} : target'[e] = target[e]
      /\ \A b \in Busses : <<d, b>> \in touched =>
            <<target[d], b>> \in excused' /\ <<d, generation>> \in redirected'
  <2>1. \A e \in Devices \ {d} : target'[e] = target[e]
    BY <1>1 DEF TypeOK, WorkersTypeOK
  <2>2. \A b \in Busses : <<d, b>> \in touched => b \in known
    BY DEF BussesOf
  <2> QED BY <1>1, <2>1, <2>2, PendingUntouched
<1>3. excused \subseteq excused' /\ redirected \subseteq redirected'
  BY <1>1
<1>4. OnsAccounted'
  <2> SUFFICES ASSUME NEW e \in Devices, NEW i \in 1 .. Len(Pending[e]),
                      Pending[e][i].job.label # Off
               PROVE  \/ Redirected(e, Pending[e][i])'
                      \/ StillTouched(e, Pending[e][i])'
                      \/ OffBehind(e, i)'
    BY <1>2 DEF OnsAccounted
  <2>1. Pending[e][i]' = Pending[e][i]
    BY <1>2
  <2>2. \/ Redirected(e, Pending[e][i])
        \/ StillTouched(e, Pending[e][i])
        \/ OffBehind(e, i)
    BY DEF Accounted, OnsAccounted
  <2>3. Redirected(e, Pending[e][i]) => Redirected(e, Pending[e][i])'
    BY <1>3, <2>1 DEF Redirected
  <2>4. OffBehind(e, i) => OffBehind(e, i)'
    BY <1>2 DEF OffBehind, IsOff, Pulser
  <2>5. CASE StillTouched(e, Pending[e][i]) /\ e = d
    <3>1. Pending[e][i].job.bus \in Busses /\ Pending[e][i].job.label = generation
      BY <2>5 DEF StillTouched, TypeOK
    <3>2. <<d, generation>> \in redirected'
      BY <1>2, <2>5, <3>1 DEF StillTouched
    <3> QED BY <2>1, <2>5, <3>1, <3>2 DEF Redirected
  <2>6. CASE StillTouched(e, Pending[e][i]) /\ e # d
    BY <1>1, <1>2, <2>1, <2>6 DEF StillTouched
  <2> QED BY <2>2, <2>3, <2>4, <2>5, <2>6
<1>5. DropIsExcused'
  BY <1>1 DEF DropIsExcused
<1>6. EndOff'
  <2> SUFFICES ASSUME NEW p \in pulsing, p \notin excused' PROVE KnownPulser(p)' \/ HasOff(Pending, p)
    BY <1>1, <1>2 DEF EndOff
  <2>1. p \in pulsing \ excused /\ p \in Targets \X Busses
    BY <1>3 DEF TypeOK
  <2>2. KnownPulser(p) \/ HasOff(Pending, p)
    BY <2>1 DEF Accounted, EndOff
  <2>3. CASE KnownPulser(p)
    <3>1. PICK e \in Devices : target[e] = p[1] /\ <<e, p[2]>> \in touched
      BY <2>3 DEF KnownPulser
    <3>2. p[2] \in Busses /\ p = <<target[e], p[2]>> /\ running = TRUE
      BY <2>1, <2>3, <3>1 DEF KnownPulser
    <3>3. e # d
      BY <1>2, <3>1, <3>2
    <3> QED BY <1>1, <1>2, <3>1, <3>2, <3>3 DEF KnownPulser
  <2> QED BY <2>2, <2>3
<1> QED BY <1>4, <1>5, <1>6 DEF Accounted

\* The first item of d is done, whatever became of it.
FirstDone(d) ==
    /\ Pending[d] # << >>
    /\ Pending' = [Pending EXCEPT ![d] = Tail(Pending[d])]
    /\ Carried(d, Head(Pending[d])) \/ NotCarried(Head(Pending[d]))
    /\ UNCHANGED <<target, generation, running, touched, closing, redirected>>

LEMMA AfterFirst ==
    ASSUME TypeOK, Accounted, NEW d \in Devices, FirstDone(d)
    PROVE  Accounted'
<1> DEFINE item == Pending[d][1]
<1>1. UNCHANGED <<target, generation, running, touched, closing, redirected>>
  BY DEF FirstDone
<1>2. /\ Pending[d] \in Seq(Items) /\ Len(Pending[d]) \in Nat \ {0}
      /\ Head(Pending[d]) = item
      /\ Len(Pending'[d]) = Len(Pending[d]) - 1
      /\ \A i \in 1 .. Len(Pending'[d]) : Pending'[d][i] = Pending[d][i + 1]
      /\ \A e \in Devices \ {d} : Pending'[e] = Pending[e]
  <2>1. Pending \in Lists /\ Pending[d] \in Seq(Items) /\ Pending[d] # << >>
    BY ListsAre DEF FirstDone, TypeOK
  <2>2. Pending'[d] = Tail(Pending[d]) /\ \A e \in Devices \ {d} : Pending'[e] = Pending[e]
    BY <2>1 DEF FirstDone, Lists
  <2> QED BY <2>1, <2>2, HeadTailProperties, LenProperties, EmptySeq
<1>3. Carried(d, item) \/ NotCarried(item)
  BY <1>2 DEF FirstDone
<1>4. item.job.label # Off => /\ \/ Redirected(d, item)
                                 \/ StillTouched(d, item)
                                 \/ OffBehind(d, 1)
                              /\ closing = "drop" => Redirected(d, item) \/ Pulser(item) \in excused
  <2>1. 1 \in 1 .. Len(Pending[d])
    BY <1>2
  <2> QED BY <2>1 DEF Accounted, OnsAccounted, DropIsExcused
\* Whatever has place i now had place i, or place i + 1 of d.
<1>5. ASSUME NEW e \in Devices, NEW i \in 1 .. Len(Pending'[e])
      PROVE  \E k \in 1 .. Len(Pending[e]) :
                /\ Pending'[e][i] = Pending[e][k]
                /\ OffBehind(e, k) => OffBehind(e, i)'
  <2>1. CASE e # d
    <3>1. Pending'[e] = Pending[e]
      BY <1>2, <2>1
    <3>2. OffBehind(e, i) => OffBehind(e, i)'
      BY <3>1 DEF OffBehind, IsOff, Pulser
    <3> QED BY <3>1, <3>2
  <2>2. CASE e = d
    <3>1. i + 1 \in 1 .. Len(Pending[d]) /\ Pending'[d][i] = Pending[d][i + 1]
      BY <1>2, <2>2
    <3>2. ASSUME OffBehind(d, i + 1) PROVE OffBehind(d, i)'
      <4>1. PICK j \in 1 .. Len(Pending[d]) :
               i + 1 < j /\ IsOff(Pending[d][j], Pulser(Pending[d][i + 1]))
        BY <3>2 DEF OffBehind
      <4>2. j - 1 \in 1 .. Len(Pending'[d]) /\ i < j - 1 /\ Pending'[d][j - 1] = Pending[d][j]
        BY <1>2, <2>2, <4>1
      <4> QED BY <3>1, <4>1, <4>2 DEF OffBehind, IsOff, Pulser
    <3> QED BY <2>2, <3>1, <3>2
  <2> QED BY <2>1, <2>2
\* An off that was pending is pending still, or it was the first item.
<1>6. ASSUME NEW p, HasOff(Pending, p) PROVE HasOff(Pending', p) \/ IsOff(item, p)
  <2>1. PICK e \in Devices : \E k \in 1 .. Len(Pending[e]) : IsOff(Pending[e][k], p)
    BY <1>6 DEF HasOff
  <2>2. PICK k \in 1 .. Len(Pending[e]) : IsOff(Pending[e][k], p)
    BY <2>1
  <2>3. CASE e # d
    BY <1>2, <2>2, <2>3 DEF HasOff
  <2>4. CASE e = d /\ k = 1
    BY <2>2, <2>4
  <2>5. CASE e = d /\ k # 1
    <3>1. k - 1 \in 1 .. Len(Pending'[d]) /\ Pending'[d][k - 1] = Pending[d][k]
      BY <1>2, <2>5
    <3> QED BY <2>2, <2>5, <3>1 DEF HasOff
  <2> QED BY <2>3, <2>4, <2>5
<1>7. OffBehind(d, 1) => HasOff(Pending', Pulser(item))
  <2> SUFFICES ASSUME OffBehind(d, 1) PROVE HasOff(Pending', Pulser(item))
    OBVIOUS
  <2>1. PICK j \in 1 .. Len(Pending[d]) : 1 < j /\ IsOff(Pending[d][j], Pulser(item))
    BY DEF OffBehind
  <2>2. j - 1 \in 1 .. Len(Pending'[d]) /\ Pending'[d][j - 1] = Pending[d][j]
    BY <1>2, <2>1
  <2> QED BY <2>1, <2>2 DEF HasOff
<1> HIDE DEF item
<1>8. OnsAccounted'
  <2> SUFFICES ASSUME NEW e \in Devices, NEW i \in 1 .. Len(Pending'[e]),
                      Pending'[e][i].job.label # Off
               PROVE  \/ Redirected(e, Pending[e][i])'
                      \/ StillTouched(e, Pending[e][i])'
                      \/ OffBehind(e, i)'
    BY DEF OnsAccounted
  <2>1. PICK k \in 1 .. Len(Pending[e]) :
           Pending'[e][i] = Pending[e][k] /\ (OffBehind(e, k) => OffBehind(e, i)')
    BY <1>5
  <2>2. \/ Redirected(e, Pending[e][k])
        \/ StillTouched(e, Pending[e][k])
        \/ OffBehind(e, k)
    BY <2>1 DEF Accounted, OnsAccounted
  <2> QED BY <1>1, <2>1, <2>2 DEF Redirected, StillTouched
<1>9. closing = "drop" => excused \subseteq excused'
  BY <1>3 DEF Carried, NotCarried
<1>10. DropIsExcused'
  <2> SUFFICES ASSUME closing = "drop"
               PROVE  /\ pulsing' \subseteq excused'
                      /\ \A e \in Devices : \A i \in 1 .. Len(Pending'[e]) :
                            Pending'[e][i].job.label # Off =>
                                \/ Redirected(e, Pending[e][i])'
                                \/ Pulser(Pending[e][i])' \in excused'
    BY <1>1 DEF DropIsExcused
  <2>1. /\ pulsing \subseteq excused
        /\ \A e \in Devices : \A k \in 1 .. Len(Pending[e]) :
              Pending[e][k].job.label # Off =>
                  Redirected(e, Pending[e][k]) \/ Pulser(Pending[e][k]) \in excused
    BY DEF Accounted, DropIsExcused
  <2>2. pulsing' \subseteq excused'
    BY <1>3, <1>4, <1>9, <2>1 DEF Carried, NotCarried, Redirected
  <2>3. ASSUME NEW e \in Devices, NEW i \in 1 .. Len(Pending'[e]), Pending'[e][i].job.label # Off
        PROVE  Redirected(e, Pending[e][i])' \/ Pulser(Pending[e][i])' \in excused'
    <3>1. PICK k \in 1 .. Len(Pending[e]) : Pending'[e][i] = Pending[e][k]
      BY <1>5
    <3>2. Redirected(e, Pending[e][k]) \/ Pulser(Pending[e][k]) \in excused
      BY <2>1, <2>3, <3>1
    <3> QED BY <1>1, <1>9, <3>1, <3>2 DEF Redirected, Pulser
  <2> QED BY <2>2, <2>3
<1>11. EndOff'
  <2> SUFFICES ASSUME NEW p \in pulsing', p \notin excused'
               PROVE  KnownPulser(p)' \/ HasOff(Pending', p)
    BY DEF EndOff
  <2>1. KnownPulser(p) => KnownPulser(p)'
    BY <1>1 DEF KnownPulser
  <2>2. CASE p \in pulsing \ excused /\ ~IsOff(item, p)
    BY <1>6, <2>1, <2>2 DEF Accounted, EndOff
  <2>3. CASE p \in pulsing /\ p \in excused
    BY <1>3, <2>3 DEF Carried, NotCarried
  <2>4. CASE IsOff(item, p)
    BY <1>3, <2>4 DEF Carried, NotCarried, IsOff
  <2>5. CASE p \notin pulsing
    <3>1. p = Pulser(item) /\ item.job.label # Off /\ ~Redirected(d, item)
      BY <1>3, <2>5 DEF Carried, NotCarried, Redirected
    <3>2. StillTouched(d, item) \/ OffBehind(d, 1)
      BY <1>4, <3>1
    <3>3. StillTouched(d, item) => KnownPulser(p)'
      BY <1>1, <3>1 DEF StillTouched, KnownPulser, Pulser
    <3> QED BY <1>7, <3>1, <3>2, <3>3
  <2> QED BY <2>2, <2>3, <2>4, <2>5
<1> QED BY <1>8, <1>10, <1>11 DEF Accounted

\* The items of d are dropped with its thread.
LEMMA AfterEnd ==
    ASSUME TypeOK, WorkersInv, Accounted, NEW d \in Devices, WorkerEnds(d)
    PROVE  Accounted'
<1>0. WorkersTypeOK
  BY DEF TypeOK
<1>1. /\ Pending[d] = queue[d] /\ Pending' = [Pending EXCEPT ![d] = << >>]
      /\ UNCHANGED <<target, generation, running, touched, closing, redirected, pulsing>>
      /\ excused \subseteq excused'
      /\ closing = "no" => \A p \in {Pulser(i) : i \in OffsOf(d)} : p \in excused'
  <2>1. ThreadEnds(d)
    BY DEF WorkerEnds
  <2> QED BY <1>0, <2>1, PendingDropped DEF WorkerEnds, ThreadEnds, guiVars, testVars
<1>2. Len(Pending'[d]) = 0 /\ \A e \in Devices \ {d} : Pending'[e] = Pending[e]
  BY <1>1, EmptySeq DEF Pending
<1>3. closing = "drain" => Len(Pending[d]) = 0
  BY <1>1, EmptySeq DEF WorkerEnds, ThreadEnds, WorkersInv, QuitIsAsked
<1>4. ASSUME NEW e \in Devices, NEW i \in 1 .. Len(Pending'[e])
      PROVE  e # d /\ Pending'[e] = Pending[e] /\ i \in 1 .. Len(Pending[e])
  <2>1. e # d
    BY <1>2
  <2> QED BY <1>2, <2>1
<1>5. OnsAccounted'
  <2> SUFFICES ASSUME NEW e \in Devices, NEW i \in 1 .. Len(Pending'[e]),
                      Pending'[e][i].job.label # Off
               PROVE  \/ Redirected(e, Pending[e][i])'
                      \/ StillTouched(e, Pending[e][i])'
                      \/ OffBehind(e, i)'
    BY DEF OnsAccounted
  <2>1. Pending'[e] = Pending[e] /\ i \in 1 .. Len(Pending[e])
    BY <1>4
  <2>2. \/ Redirected(e, Pending[e][i])
        \/ StillTouched(e, Pending[e][i])
        \/ OffBehind(e, i)
    BY <2>1 DEF Accounted, OnsAccounted
  <2>3. OffBehind(e, i) => OffBehind(e, i)'
    BY <2>1 DEF OffBehind, IsOff, Pulser
  <2> QED BY <1>1, <2>1, <2>2, <2>3 DEF Redirected, StillTouched
<1>6. DropIsExcused'
  <2> SUFFICES ASSUME closing = "drop"
               PROVE  /\ pulsing \subseteq excused'
                      /\ \A e \in Devices : \A i \in 1 .. Len(Pending'[e]) :
                            Pending'[e][i].job.label # Off =>
                                \/ Redirected(e, Pending[e][i])'
                                \/ Pulser(Pending[e][i])' \in excused'
    BY <1>1 DEF DropIsExcused
  <2>1. /\ pulsing \subseteq excused
        /\ \A e \in Devices : \A i \in 1 .. Len(Pending[e]) :
              Pending[e][i].job.label # Off =>
                  Redirected(e, Pending[e][i]) \/ Pulser(Pending[e][i]) \in excused
    BY DEF Accounted, DropIsExcused
  <2>2. ASSUME NEW e \in Devices, NEW i \in 1 .. Len(Pending'[e]), Pending'[e][i].job.label # Off
        PROVE  Redirected(e, Pending[e][i])' \/ Pulser(Pending[e][i])' \in excused'
    <3>1. Pending'[e] = Pending[e] /\ i \in 1 .. Len(Pending[e])
      BY <1>4
    <3> QED BY <1>1, <2>1, <2>2, <3>1 DEF Redirected, Pulser
  <2> QED BY <1>1, <2>1, <2>2
<1>7. EndOff'
  <2> SUFFICES ASSUME NEW p \in pulsing, p \notin excused'
               PROVE  KnownPulser(p)' \/ HasOff(Pending', p)
    BY <1>1 DEF EndOff
  <2>1. p \in pulsing \ excused
    BY <1>1
  <2>2. KnownPulser(p) \/ HasOff(Pending, p)
    BY <2>1 DEF Accounted, EndOff
  <2>3. KnownPulser(p) => KnownPulser(p)'
    BY <1>1 DEF KnownPulser
  <2>4. closing # "drop"
    BY <2>1 DEF Accounted, DropIsExcused
  <2>5. \A i \in 1 .. Len(Pending[d]) : ~IsOff(Pending[d][i], p)
    <3>1. CASE closing = "no"
      BY <1>1, <3>1, EndOffIs
    <3>2. CASE closing = "drain"
      BY <1>3, <3>2
    <3> QED BY <1>0, <2>4, <3>1, <3>2 DEF WorkersTypeOK
  <2>6. HasOff(Pending, p) => HasOff(Pending', p)
    BY <1>2, <2>5 DEF HasOff
  <2> QED BY <2>2, <2>3, <2>6
<1> QED BY <1>5, <1>6, <1>7 DEF Accounted

LEMMA AccountedStep ==
    ASSUME TypeOK, TestInv, WorkersInv, Accounted, [Next]_vars
    PROVE  Accounted'
<1>0. /\ WorkersTypeOK /\ generation \in Nat /\ running \in BOOLEAN
      /\ touched \in SUBSET (Devices \X Busses)
  BY PulserAssumption DEF TypeOK
<1>1. Off \in 0 .. MaxTests /\ TestTargets \in SUBSET (Devices \X Busses)
  BY TargetsArePulsers, PulserAssumption DEF Off
<1>2. CASE Start
  <2>1. /\ Submitted(JobsFor(generation', TestTargets)) /\ UNCHANGED active
        /\ generation' = generation + 1 /\ generation < MaxTests
        /\ running = FALSE /\ running' = TRUE /\ touched' = TestTargets
        /\ closing' = "no" /\ UNCHANGED <<target, pulsing, excused, redirected>>
    BY <1>0, <1>2 DEF Start, SendStep, Submit, StepLabel, GuiIsFree, guiVars
  <2>2. generation' \in 0 .. MaxTests
    BY <1>0, <2>1, PulserAssumption
  <2>3. Sent(generation', TestTargets)
    BY <1>0, <1>1, <2>1, <2>2, SubmittedIsSent
  <2>4. SendsOns(generation', TestTargets)
    BY <2>1, <2>3 DEF SendsOns
  <2> QED BY <2>4, AfterOns
<1>3. CASE NextStep
  <2>1. /\ Submitted(JobsFor(generation, TestTargets)) /\ UNCHANGED active
        /\ running' = running /\ touched' = touched \cup TestTargets
        /\ generation' = generation /\ closing' = "no"
        /\ UNCHANGED <<target, pulsing, excused, redirected>>
    BY <1>3 DEF NextStep, SendStep, Submit, StepLabel, GuiIsFree, guiVars, hardwareVars
  <2>2. running = TRUE
    BY <1>0, <1>3 DEF NextStep, TestInv
  <2>3. Sent(generation, TestTargets)
    BY <1>0, <1>1, <2>1, SubmittedIsSent DEF TypeOK
  <2>4. SendsOns(generation, TestTargets)
    BY <2>1, <2>2, <2>3 DEF SendsOns
  <2> QED BY <2>4, AfterOns
\* What stop() sends are the offs of all that is touched.
<1>4. ASSUME Submitted(OffJobs), UNCHANGED active
      PROVE  \E pulsers : Sent(Off, pulsers) /\ (running = TRUE => touched \subseteq pulsers)
  <2>1. CASE running
    <3>1. Submitted(JobsFor(Off, touched))
      BY <1>4, <2>1 DEF OffJobs
    <3> QED BY <1>0, <1>1, <1>4, <3>1, SubmittedIsSent
  <2>2. CASE ~running
    <3>1. Submitted(JobsFor(Off, {})) /\ {} \in SUBSET (Devices \X Busses)
      BY <1>4, <2>2 DEF OffJobs, NoJobs
    <3> QED BY <1>0, <1>1, <1>4, <2>2, <3>1, SubmittedIsSent
  <2> QED BY <2>1, <2>2
<1>5. CASE Stop \/ NoTargetsLeft
  <2>1. /\ Submitted(OffJobs) /\ UNCHANGED active /\ running' = FALSE
        /\ closing' = "no" /\ UNCHANGED <<target, pulsing, excused, redirected>>
    BY <1>5 DEF Stop, NoTargetsLeft, Stopped, Submit, GuiIsFree, guiVars, hardwareVars
  <2> QED BY <1>4, <2>1, AfterOffs DEF SendsOffs
<1>6. ASSUME NEW devices \in {setup, {}}, LoadSetup(devices) PROVE Accounted'
  <2>1. /\ Submitted(OffJobs) /\ UNCHANGED active /\ running' = FALSE
        /\ closing' = "no" /\ UNCHANGED <<target, pulsing, excused, redirected>>
    BY <1>6 DEF LoadSetup, Stopped, SubmitAndRemove, GuiIsFree, hardwareVars
  <2> QED BY <1>4, <2>1, AfterOffs DEF SendsOffs
<1>7. CASE Close
  <2>1. /\ Submitted(OffJobs) /\ UNCHANGED active /\ running' = FALSE
        /\ closing' = (IF running THEN "drain" ELSE "drop")
        /\ UNCHANGED <<target, pulsing, redirected>> /\ Undrained
    BY <1>7 DEF Close, Stopped, SubmitAndShutdown
  <2>2. excused \subseteq excused'
    BY <2>1 DEF Undrained
  <2>3. closing' = "drop" => running # TRUE
    BY <2>1
  <2>4. closing' = "drop" => \A p : HasOff(Pending, p) => p \in excused'
    <3> SUFFICES ASSUME running # TRUE, NEW p, HasOff(Pending, p) PROVE p \in excused'
      BY <2>3
    <3>1. PICK d \in Devices : p \in {Pulser(i) : i \in OffsOf(d)}
      BY EndOffIs DEF HasOff
    <3> QED BY <1>0, <2>1, <3>1 DEF Undrained
  <2> QED BY <1>4, <2>1, <2>2, <2>3, <2>4, AfterOffs DEF SendsOffs
<1>8. CASE AllOff
  <2>1. /\ Submitted(JobsFor(Off, TestTargets)) /\ UNCHANGED active
        /\ running = FALSE /\ running' = FALSE
        /\ closing' = "no" /\ UNCHANGED <<target, pulsing, excused, redirected>>
    BY <1>0, <1>8 DEF AllOff, Submit, GuiIsFree, guiVars, hardwareVars, testVars
  <2>2. Sent(Off, TestTargets)
    BY <1>0, <1>1, <2>1, SubmittedIsSent
  <2>3. SendsOffs(TestTargets)
    BY <2>1, <2>2 DEF SendsOffs
  <2> QED BY <2>3, AfterOffs
<1>9. ASSUME NEW d \in Devices, NEW t \in Targets, Redirect(d, t) PROVE Accounted'
  BY <1>9, AfterRedirect
<1>10. ASSUME NEW d \in Devices, JobCannotBegin(d) PROVE Accounted'
  <2>1. /\ Pending[d] # << >> /\ Head(Pending[d]) = Head(queue[d])
        /\ Pending' = [Pending EXCEPT ![d] = Tail(Pending[d])]
    BY <1>0, <1>10, PendingThrows DEF JobCannotBegin
  <2>2. /\ NotCarried(Head(Pending[d]))
        /\ UNCHANGED <<target, generation, running, touched, closing, redirected>>
    BY <1>10, <2>1 DEF JobCannotBegin, ConnectThrows, guiVars, testVars
  <2> QED BY <2>1, <2>2, AfterFirst DEF FirstDone
<1>11. ASSUME NEW d \in Devices, NEW ok \in BOOLEAN, JobEnds(d, ok) PROVE Accounted'
  <2>1. /\ Pending[d] # << >> /\ Head(Pending[d]) = active[d]
        /\ Pending' = [Pending EXCEPT ![d] = Tail(Pending[d])]
    BY <1>0, <1>11, PendingEnds DEF JobEnds
  <2>2. /\ Carried(d, Head(Pending[d])) \/ NotCarried(Head(Pending[d]))
        /\ UNCHANGED <<target, generation, running, touched, closing, redirected>>
    BY <1>11, <2>1 DEF JobEnds, EndJob, guiVars, testVars
  <2> QED BY <2>1, <2>2, AfterFirst DEF FirstDone
<1>12. ASSUME NEW d \in Devices, WorkerEnds(d) PROVE Accounted'
  BY <1>12, AfterEnd
\* All other steps change nothing of this.
<1>13. ASSUME Pending' = Pending,
              UNCHANGED <<target, generation, running, touched, closing, hardwareVars>>
       PROVE  Accounted'
  <2>1. UNCHANGED <<pulsing, excused, redirected>>
    BY <1>13 DEF hardwareVars
  <2>2. OnsAccounted'
    <3>1. ASSUME NEW d \in Devices, NEW item
          PROVE  /\ Redirected(d, item)' <=> Redirected(d, item)
                 /\ StillTouched(d, item)' <=> StillTouched(d, item)
      BY <1>13, <2>1 DEF Redirected, StillTouched
    <3>2. ASSUME NEW d \in Devices, NEW i
          PROVE  OffBehind(d, i)' <=> OffBehind(d, i)
      BY <1>13 DEF OffBehind, IsOff, Pulser
    <3> QED BY <1>13, <3>1, <3>2 DEF Accounted, OnsAccounted
  <2>3. DropIsExcused'
    BY <1>13, <2>1 DEF Accounted, DropIsExcused, Redirected, Pulser
  <2>4. EndOff'
    BY <1>13, <2>1 DEF Accounted, EndOff, KnownPulser, HasOff, IsOff, Pulser
  <2> QED BY <2>2, <2>3, <2>4 DEF Accounted
<1>14. ASSUME NEW d \in Devices,
              ToggleEnabled(d) \/ \E b \in Busses : TogglePresent(d, b)
       PROVE  Accounted'
  BY <1>13, <1>14, PendingUntouched DEF ToggleEnabled, TogglePresent, workerVars, guiVars, testVars
<1>15. ASSUME NEW d \in Devices, RemoveDevice(d) PROVE Accounted'
  <2>1. Submitted(NoJobs) /\ UNCHANGED <<active, target, closing, testVars, hardwareVars>>
    BY <1>15 DEF RemoveDevice, SubmitAndRemove
  <2>2. Pending' = Pending
    BY <1>0, <2>1, NoJobsIsEmpty, PendingOfNothing
  <2> QED BY <1>13, <2>1, <2>2 DEF testVars
<1>16. ASSUME NEW d \in Devices, JobBegins(d) PROVE Accounted'
  <2>1. Pending' = Pending
    BY <1>0, <1>16, PendingBegins DEF JobBegins
  <2> QED BY <1>13, <1>16, <2>1 DEF JobBegins, BeginJob, guiVars, testVars
<1>17. ASSUME NEW d \in Devices, WorkerQuits(d) PROVE Accounted'
  BY <1>13, <1>17, PendingUntouched DEF WorkerQuits, OnQuit, RemoveNext, guiVars, testVars
<1>18. CASE GuiGoesOn
  BY <1>13, <1>18, PendingUntouched DEF GuiGoesOn, WaitReturns, guiVars, testVars
<1>19. CASE OnFinished
  BY <1>13, <1>19, PendingUntouched DEF OnFinished, Deliver, guiVars
<1>20. CASE UNCHANGED vars
  BY <1>13, <1>20, PendingUntouched DEF vars, workerVars, guiVars, testVars
<1> QED BY <1>2, <1>3, <1>5, <1>6, <1>7, <1>8, <1>9, <1>10, <1>11, <1>12, <1>14, <1>15, <1>16,
           <1>17, <1>18, <1>19, <1>20 DEF Next, User, Worker

\* A pulser that the test has switched on is switched off again, or its off failed
\* or was dropped with a removed device, or its device was redirected: in every
\* interleaving of the user, the sequencer and any number of workers, whatever the
\* commands return, and also when the window is closed in the middle of a test.
THEOREM PulsersAreSwitchedOff == Spec => []PulsersEndOff
<1>1. Init => Accounted
  <2> SUFFICES ASSUME Init PROVE Accounted
    OBVIOUS
  <2>1. pulsing = {} /\ closing = "no"
    BY DEF Init, WorkersInit
  <2>2. \A d \in Devices : Pending[d] = << >>
    BY ConcatEmptySeq, EmptySeq DEF Init, WorkersInit, Pending, Executing
  <2> QED BY <2>1, <2>2, EmptySeq DEF Accounted, OnsAccounted, DropIsExcused, EndOff
<1>2. TypeOK /\ Accounted => PulsersEndOff
  BY EndOffIs DEF Accounted
<1>3. Spec => [](WorkersTypeOK /\ WorkersInv)
  BY PulserTestUsesWorkers, WorkersInvariant, PTL
<1> QED BY <1>1, <1>2, <1>3, AccountedStep, PulserTypeInvariant, PTL DEF Spec

-----------------------------------------------------------------------------
(* A running test goes on: the part of StepsGoOn that needs no fairness.   *)

\* A test that runs has set its timer, or waits for results.
StepIsTimed == running => timer \/ pending > 0

\* A test whose timer does not run waits for a result that is posted, or for a job
\* of a worker that can begin or end one; unless jobs were dropped with a device.
TestIsNotStuck ==
    running /\ lost = 0 =>
        \/ timer
        \/ \E i \in DOMAIN posted : IsStep(posted[i].item)
        \/ \E d \in Devices :
              /\ \E i \in DOMAIN Pending[d] : IsStep(Pending[d][i])
              /\ active[d] # None \/ CanRun(d)

LEMMA TimedStep ==
    ASSUME TypeOK, TestInv, StepIsTimed, [Next]_vars
    PROVE  StepIsTimed'
<1>1. pending \in Nat /\ timer \in BOOLEAN /\ running \in BOOLEAN
  BY TargetsArePulsers DEF TypeOK
<1>2. CASE Start \/ NextStep
  <2>1. TestTargets # {} /\ pending' = Cardinality(TestTargets)
    BY <1>2 DEF Start, NextStep, SendStep
  <2>2. IsFiniteSet(TestTargets) /\ Cardinality(TestTargets) \in Nat
    BY TargetsArePulsers, FS_CardinalityType
  <2>3. pending' > 0
    BY <2>1, <2>2, FS_EmptySet
  <2> QED BY <2>3 DEF StepIsTimed
<1>3. CASE OnFinished
  <2>1. running' = running
    BY <1>3 DEF OnFinished
  <2>2. CASE ~(IsStep(Head(posted).item) /\ pending > 0)
    <3>1. pending' = pending /\ (timer => timer')
      BY <1>3, <2>2 DEF OnFinished
    <3> QED BY <2>1, <3>1 DEF StepIsTimed
  <2>3. CASE IsStep(Head(posted).item) /\ pending > 0
    <3>1. pending' = pending - 1 /\ (pending = 1 /\ running => timer')
      BY <1>3, <2>3 DEF OnFinished
    <3>2. pending = 1 \/ pending' > 0
      BY <1>1, <2>3, <3>1
    <3> QED BY <2>1, <3>1, <3>2 DEF StepIsTimed
  <2> QED BY <2>2, <2>3
<1>4. CASE \E pulsers \in SUBSET (Devices \X Busses) : TurnsOff(pulsers)
  BY <1>4 DEF TurnsOff, StepIsTimed
<1>5. CASE (\E d \in Devices : Answers(d) \/ Drops(d)) \/ Quiet
  <2>1. UNCHANGED <<running, timer, pending>>
    BY <1>5 DEF Answers, Drops, Quiet
  <2> QED BY <2>1 DEF StepIsTimed
<1> QED BY <1>2, <1>3, <1>4, <1>5, WhatStepsDo

\* For any devices, tests and edits: a running test never waits for nothing, whether
\* its jobs succeed or fail and in whatever order the results of other jobs arrive.
THEOREM PulserTestGoesOn == Spec => []TestIsNotStuck
<1>1. ASSUME TypeOK, WorkersInv, StepIsTimed, PendingIsOutstanding PROVE TestIsNotStuck
  <2> SUFFICES ASSUME running, lost = 0, ~timer
               PROVE  \/ \E i \in DOMAIN posted : IsStep(posted[i].item)
                      \/ \E d \in Devices :
                            /\ \E i \in DOMAIN Pending[d] : IsStep(Pending[d][i])
                            /\ active[d] # None \/ CanRun(d)
    BY DEF TestIsNotStuck
  <2>1. WorkersTypeOK /\ generation \in Nat /\ pending \in Nat
    BY <1>1, PulserAssumption, TargetsArePulsers DEF TypeOK
  <2>2. /\ Cardinality(InWorkers) \in Nat /\ Cardinality(InPosted) \in Nat
        /\ Outstanding = Cardinality(InWorkers) + Cardinality(InPosted)
    BY <2>1, OutstandingIs, PlacesAreOutstanding DEF Outstanding
  <2>3. pending > 0 /\ pending = Outstanding + lost
    BY <1>1 DEF StepIsTimed, PendingIsOutstanding
  <2>4. Cardinality(InWorkers) # 0 \/ Cardinality(InPosted) # 0
    BY <2>1, <2>2, <2>3
  <2>5. InWorkers # {} \/ InPosted # {}
    BY <2>4, FS_EmptySet
  <2>6. CASE InPosted # {}
    BY <2>6 DEF InPosted
  <2>7. CASE InWorkers # {}
    <3>1. PICK d \in Devices : \E i \in DOMAIN Pending[d] : IsStep(Pending[d][i])
      BY <2>7 DEF InWorkers, StepsIn
    <3>2. Pending[d] # << >>
      <4>1. Pending[d] \in Seq(Items) /\ DOMAIN Pending[d] = 1 .. Len(Pending[d])
        BY <2>1, PendingIsSeq, LenProperties
      <4> QED BY <3>1, <4>1, EmptySeq
    <3>3. active[d] # None \/ CanRun(d)
      BY <1>1, <2>1, <3>2, PendingCanGoOn
    <3> QED BY <3>1, <3>3
  <2> QED BY <2>5, <2>6, <2>7
<1>2. Init => StepIsTimed
  BY DEF Init, StepIsTimed
<1>3. TypeOK /\ TestInv /\ StepIsTimed /\ [Next]_vars => StepIsTimed'
  BY TimedStep
<1>4. Spec => []WorkersInv
  BY PulserTestUsesWorkers, WorkersInvariant, PTL
<1> QED BY <1>1, <1>2, <1>3, <1>4, StepsDoNotOverlap, PulserTypeInvariant, PTL DEF Spec

\* remove() and shutdown() return to the pulser test: the threads they wait for can
\* always go on, and have less to do after every step.
THEOREM PulserTestNeverBlocks == Spec => []WaitIsNotStuck /\ WaitMakesProgress
  BY PulserTestUsesWorkers, WorkersNeverBlockTheGui, WorkersFinishTheirWork, PTL
=============================================================================
