------------------------- MODULE SourceStatsProofs -------------------------
(***************************************************************************)
(* Proofs about SourceStats, for every set of sources and every size of    *)
(* the buffer number range.  The arithmetic of the 16 bit difference is    *)
(* settled in DistanceForward and DistanceBackward; the invariants then    *)
(* follow one packet at a time.                                            *)
(***************************************************************************)
EXTENDS SourceStats, TLAPS

\* Division with remainder, the facts the solver has to be told.
LEMMA DivMod ==
    ASSUME NEW n \in Nat, NEW m \in Nat, m > 0
    PROVE  /\ n = m * (n \div m) + (n % m)
           /\ n % m \in 0 .. m - 1
           /\ n \div m \in Nat
  OBVIOUS

\* A multiple of m strictly between -m and m is zero.
LEMMA SmallMultiple ==
    ASSUME NEW k \in Int, NEW m \in Nat, m > 0, m * k < m, m * k > -m
    PROVE  k = 0
<1>1. CASE k >= 1
  <2>1. m * k >= m * 1
    BY <1>1
  <2> QED BY <2>1
<1>2. CASE k <= -1
  <2>1. m * k <= m * (-1)
    BY <1>2
  <2> QED BY <2>1
<1> QED BY <1>1, <1>2

\* The difference of two 16 bit numbers is, up to one multiple of the range,
\* the difference of the true numbers: d in 0 .. Modulus - 1 names it.
LEMMA DistanceIs ==
    ASSUME NEW a \in Nat, NEW b \in Nat, NEW d \in 0 .. Modulus - 1,
           a - b = d \/ a - b = d - Modulus
    PROVE  Distance(BufferNumber(b), BufferNumber(a)) = d
<1> DEFINE m == Modulus
           x == (a % m) + m - (b % m)
           k == (a \div m) + (x \div m) - (b \div m) - 1
<1>0. m \in Nat /\ m > 0
  BY StatsAssumption
<1>1. /\ a = m * (a \div m) + (a % m)
      /\ a % m \in 0 .. m - 1
      /\ a \div m \in Nat
  BY <1>0, DivMod
<1>2. /\ b = m * (b \div m) + (b % m)
      /\ b % m \in 0 .. m - 1
      /\ b \div m \in Nat
  BY <1>0, DivMod
<1>3. x \in Nat
  BY <1>0, <1>1, <1>2
<1>4. /\ x = m * (x \div m) + (x % m)
      /\ x % m \in 0 .. m - 1
      /\ x \div m \in Nat
  BY <1>0, <1>3, DivMod
<1>5. k \in Int
  BY <1>1, <1>2, <1>4
<1>6. m * k = a - b - (x % m)
  <2>1. m * k = (m * (a \div m)) + (m * (x \div m)) - (m * (b \div m)) - m
    BY <1>0, <1>1, <1>2, <1>4
  <2> QED BY <2>1, <1>0, <1>1, <1>2, <1>4
<1>7. x % m = d
  <2> HIDE DEF k, x
  <2>1. CASE a - b = d
    <3>1. m * k < m /\ m * k > -m
      BY <2>1, <1>0, <1>4, <1>6
    <3>2. k = 0
      BY <3>1, <1>0, <1>5, SmallMultiple
    <3> QED BY <3>2, <2>1, <1>0, <1>4, <1>6
  <2>2. CASE a - b = d - Modulus
    <3>1. m * (k + 1) = (m * k) + m
      BY <1>0, <1>5
    <3>2. m * (k + 1) < m /\ m * (k + 1) > -m
      BY <3>1, <2>2, <1>0, <1>4, <1>6
    <3>3. k + 1 = 0
      BY <3>2, <1>0, <1>5, SmallMultiple
    <3>4. m * (k + 1) = 0
      BY <3>3, <1>0
    <3>5. (m * k) + m = d - (x % m)
      BY <2>2, <1>0, <1>4, <1>6
    <3> QED BY <3>1, <3>4, <3>5, <1>0, <1>4
  <2> QED BY <2>1, <2>2
<1> QED BY <1>7 DEF Distance, BufferNumber

\* A packet that is ahead of the last one by at least one and less than the
\* whole range.
LEMMA DistanceForward ==
    ASSUME NEW a \in Nat, NEW b \in Nat, b < a, a - b < Modulus
    PROVE  Distance(BufferNumber(b), BufferNumber(a)) = a - b
  BY DistanceIs, StatsAssumption

\* A packet that repeats the last one, or is late by at most half the range,
\* is a jump.
LEMMA DistanceBackward ==
    ASSUME NEW a \in Nat, NEW b \in Nat, a <= b, b - a <= Half
    PROVE  IsJump(BufferNumber(b), BufferNumber(a))
<1>1. Half \in Nat /\ 2 * Half <= Modulus /\ Half < Modulus
  BY StatsAssumption DEF Half
<1>2. CASE a = b
  <2>1. Distance(BufferNumber(b), BufferNumber(a)) = 0
    BY <1>2, DistanceIs, StatsAssumption
  <2> QED BY <2>1 DEF IsJump
<1>3. CASE a < b
  <2>1. Distance(BufferNumber(b), BufferNumber(a)) = a - b + Modulus
    BY <1>1, <1>3, DistanceIs, StatsAssumption
  <2>2. Distance(BufferNumber(b), BufferNumber(a)) >= Half
    BY <2>1, <1>1, StatsAssumption
  <2> QED BY <2>2 DEF IsJump
<1> QED BY <1>2, <1>3
-----------------------------------------------------------------------------
\* While a source has been counting since its last restart, the stored buffer
\* number is that of the latest packet; a source that has not counted is as
\* new.
Baseline(s) ==
    IF stats[s].haveBufferNumber
    THEN ~hist[s].restarted =>
            stats[s].lastBufferNumber = BufferNumber(hist[s].last)
    ELSE stats[s] = NoStats /\ hist[s].first = 0 /\ hist[s].last = 0
         /\ ~hist[s].longBurst /\ ~hist[s].restarted

StatsInv ==
    /\ TypeOK
    /\ \A s \in Sources : Baseline(s)
    /\ JumpFreeCountIsExact
    /\ LossIsNeverHidden

\* What one more packet does to a source that has a baseline: it advances the
\* count by the distance, or it is a jump that moves nothing forward unless a
\* long burst of losses preceded it.
LEMMA CountStep ==
    ASSUME TypeOK, NEW s \in Sources, Baseline(s),
           stats[s].haveBufferNumber, ~hist[s].restarted,
           NEW n \in Nat, InWindow(s, n)
    PROVE  LET st == CountPacket(stats[s], BufferNumber(n))
               jump == IsJump(stats[s].lastBufferNumber, BufferNumber(n))
           IN  /\ ~jump => /\ st.bufferNumberJumps = stats[s].bufferNumberJumps
                           /\ st.packetsLost
                                = stats[s].packetsLost + (n - hist[s].last) - 1
                           /\ n > hist[s].last
               /\ jump => /\ st.bufferNumberJumps
                                = stats[s].bufferNumberJumps + 1
                          /\ st.packetsLost = stats[s].packetsLost
                          /\ n <= hist[s].last \/ n - hist[s].last >= Half
<1> DEFINE last == hist[s].last
           num == BufferNumber(n)
           prev == stats[s].lastBufferNumber
<1>1. last \in Nat /\ stats[s] \in StatsType
  BY DEF TypeOK, HistType
<1>2. prev = BufferNumber(last)
  BY DEF Baseline
<1>3. n - last < Modulus /\ last - n <= Half
  BY DEF InWindow
<1>4. CASE n > last
  <2>1. Distance(prev, num) = n - last
    BY <1>1, <1>2, <1>3, <1>4, DistanceForward
  <2> QED BY <2>1, <1>1, <1>4 DEF CountPacket, IsJump, Gap, StatsType
<1>5. CASE n <= last
  <2>1. IsJump(prev, num)
    BY <1>1, <1>2, <1>3, <1>5, DistanceBackward
  <2> QED BY <2>1, <1>1, <1>5 DEF CountPacket, StatsType
<1> QED BY <1>1, <1>4, <1>5

\* A distance is a number of the range, so the counters stay unsigned.
LEMMA CountType ==
    ASSUME NEW st \in StatsType, NEW n \in Nat
    PROVE  CountPacket(st, BufferNumber(n)) \in StatsType
<1> DEFINE num == BufferNumber(n)
           prev == st.lastBufferNumber
<1>1. Modulus \in Nat /\ Modulus > 0
  BY StatsAssumption
<1>2. num \in 0 .. Modulus - 1
  BY <1>1, DivMod DEF BufferNumber
<1>3. prev \in 0 .. Modulus - 1
  BY DEF StatsType
<1>4. num + Modulus - prev \in Nat
  BY <1>1, <1>2, <1>3
<1>5. Distance(prev, num) \in 0 .. Modulus - 1
  BY <1>1, <1>4, DivMod DEF Distance
<1>6. ~IsJump(prev, num) => Gap(prev, num) \in Nat
  BY <1>1, <1>5 DEF IsJump, Gap
<1> QED BY <1>2, <1>6 DEF CountPacket, StatsType

\* The operations of the collector keep the invariant; a packet counts for
\* its own source and leaves the others alone.
LEMMA ConsumeInv ==
    ASSUME StatsInv, NEW s \in Sources, NEW n \in 0 .. sent[s] - 1,
           Consume(s, n)
    PROVE  StatsInv'
<1> USE DEF StatsInv
<1> DEFINE num == BufferNumber(n)
           st == CountPacket(stats[s], num)
<1>1. n \in Nat /\ stats[s] \in StatsType /\ hist[s] \in HistType
  BY StatsAssumption DEF TypeOK
<1>2. /\ stats'[s] = st
      /\ hist'[s] = Witness(hist[s], stats[s], n)
      /\ \A t \in Sources : t # s => stats'[t] = stats[t] /\ hist'[t] = hist[t]
  BY DEF Consume, TypeOK
<1>3. TypeOK'
  <2>1. st \in StatsType
    BY <1>1, CountType
  <2>2. Witness(hist[s], stats[s], n) \in HistType
    BY <1>1 DEF Witness, HistType, StatsType
  <2> QED BY <2>1, <2>2 DEF TypeOK, Consume
<1>4. \A t \in Sources : Baseline(t)'
  <2>1. Baseline(s)'
    BY <1>1, <1>2 DEF Baseline, CountPacket, Witness, StatsType, HistType
  <2> QED BY <1>2, <2>1 DEF Baseline
<1>5. st.haveBufferNumber /\ st.packets = stats[s].packets + 1
  BY DEF CountPacket
<1>6. CASE ~stats[s].haveBufferNumber
  <2>1. stats[s] = NoStats /\ ~hist[s].longBurst
    BY <1>6 DEF Baseline
  <2>2. st.packets = 1 /\ st.packetsLost = 0 /\ st.bufferNumberJumps = 0
    BY <2>1 DEF CountPacket, NoStats
  <2>3. hist'[s].first = n /\ hist'[s].last = n
    BY <1>2, <1>6 DEF Witness
  <2>4. JumpFreeCountIsExact'
    BY <1>1, <1>2, <2>2, <2>3 DEF JumpFreeCountIsExact
  <2>5. LossIsNeverHidden'
    BY <1>1, <1>2, <2>2, <2>3 DEF LossIsNeverHidden
  <2> QED BY <1>3, <1>4, <2>4, <2>5
<1>7. CASE stats[s].haveBufferNumber /\ hist[s].restarted
  <2>1. hist'[s].restarted
    BY <1>2, <1>7 DEF Witness
  <2>2. JumpFreeCountIsExact'
    BY <1>2, <2>1 DEF JumpFreeCountIsExact
  <2>3. LossIsNeverHidden'
    BY <1>2, <2>1 DEF LossIsNeverHidden
  <2> QED BY <1>3, <1>4, <2>2, <2>3
<1>8. CASE stats[s].haveBufferNumber /\ ~hist[s].restarted
  <2> DEFINE jump == IsJump(stats[s].lastBufferNumber, num)
  <2>1. /\ hist'[s].first = hist[s].first
        /\ hist'[s].last = n
        /\ hist'[s].longBurst = (hist[s].longBurst \/ n - hist[s].last >= Half)
    BY <1>2, <1>8 DEF Witness
  <2>2. /\ ~jump => /\ st.bufferNumberJumps = stats[s].bufferNumberJumps
                    /\ st.packetsLost
                         = stats[s].packetsLost + (n - hist[s].last) - 1
        /\ jump => /\ st.bufferNumberJumps = stats[s].bufferNumberJumps + 1
                   /\ st.packetsLost = stats[s].packetsLost
                   /\ n <= hist[s].last \/ n - hist[s].last >= Half
    BY <1>1, <1>8, CountStep DEF Consume
  <2>3. /\ stats[s].packets \in Nat
        /\ stats[s].packetsLost \in Nat
        /\ stats[s].bufferNumberJumps \in Nat
        /\ hist[s].first \in Nat
        /\ hist[s].last \in Nat
    BY <1>1 DEF StatsType, HistType
  <2> HIDE DEF st, jump
  <2>4. JumpFreeCountIsExact'
    <3>1. ASSUME st.bufferNumberJumps = 0
          PROVE  st.packets + st.packetsLost = n - hist[s].first + 1
      BY <1>1, <1>5, <1>8, <2>2, <2>3, <3>1 DEF JumpFreeCountIsExact
    <3> QED BY <1>2, <2>1, <3>1 DEF JumpFreeCountIsExact
  <2>5. LossIsNeverHidden'
    <3>1. ASSUME ~hist'[s].longBurst
          PROVE  st.packets - st.bufferNumberJumps + st.packetsLost
                   >= n - hist[s].first + 1
      <4>0. ~hist[s].longBurst /\ ~(n - hist[s].last >= Half)
        BY <2>1, <3>1, Zenon
      <4>1. stats[s].packets - stats[s].bufferNumberJumps + stats[s].packetsLost
              >= hist[s].last - hist[s].first + 1
        BY <1>8, <4>0 DEF LossIsNeverHidden
      <4>2. jump => n <= hist[s].last
        BY <2>2, <4>0
      <4> QED BY <4>1, <4>2, <1>1, <1>5, <2>2, <2>3
    <3> QED BY <1>2, <2>1, <3>1 DEF LossIsNeverHidden
  <2> QED BY <1>3, <1>4, <2>4, <2>5
<1> QED BY <1>6, <1>7, <1>8

\* Sources that have not counted satisfy everything.
LEMMA FreshInv ==
    ASSUME TypeOK, \A s \in Sources : stats[s] = NoStats /\ hist[s] = NoHist
    PROVE  StatsInv
  BY DEF StatsInv, Baseline, NoStats, NoHist, JumpFreeCountIsExact,
         LossIsNeverHidden

LEMMA NoStatsType == NoStats \in StatsType /\ NoHist \in HistType
  BY StatsAssumption DEF NoStats, NoHist, StatsType, HistType

LEMMA StatsInvInductive == Init /\ [][Next]_vars => []StatsInv
<1>1. Init => StatsInv
  <2> SUFFICES ASSUME Init PROVE StatsInv
    OBVIOUS
  <2>1. TypeOK
    BY NoStatsType, StatsAssumption DEF Init, TypeOK
  <2> QED BY <2>1, FreshInv DEF Init
<1>2. StatsInv /\ [Next]_vars => StatsInv'
  <2> SUFFICES ASSUME StatsInv, [Next]_vars PROVE StatsInv'
    OBVIOUS
  <2>1. ASSUME NEW s \in Sources, Send(s) PROVE StatsInv'
    <3>1. TypeOK'
      BY <2>1, StatsAssumption DEF StatsInv, TypeOK, Send
    <3> QED BY <2>1, <3>1 DEF StatsInv, Send, Baseline, JumpFreeCountIsExact,
                              LossIsNeverHidden
  <2>2. ASSUME NEW s \in Sources, Restart(s) PROVE StatsInv'
    <3> DEFINE h == [hist[s] EXCEPT !.expected = 0,
                                    !.restarted = stats[s].haveBufferNumber]
    <3>1. /\ hist' = [hist EXCEPT ![s] = h]
          /\ stats' = stats
      BY <2>2 DEF Restart, StatsInv, TypeOK, HistType
    <3>2. h \in HistType /\ h.restarted = stats[s].haveBufferNumber
          /\ h.first = hist[s].first /\ h.last = hist[s].last
          /\ h.longBurst = hist[s].longBurst
      BY DEF StatsInv, TypeOK, HistType, StatsType
    <3>3. hist'[s] = h /\ \A t \in Sources : t # s => hist'[t] = hist[t]
      BY <3>1 DEF StatsInv, TypeOK
    <3>4. TypeOK'
      BY <2>2, <3>1, <3>2, StatsAssumption DEF StatsInv, TypeOK, Restart
    <3>5. \A t \in Sources : Baseline(t)'
      BY <3>1, <3>2, <3>3 DEF StatsInv, Baseline
    <3>6. JumpFreeCountIsExact' /\ LossIsNeverHidden'
      BY <3>1, <3>2, <3>3 DEF StatsInv, JumpFreeCountIsExact, LossIsNeverHidden
    <3> QED BY <3>4, <3>5, <3>6 DEF StatsInv
  <2>3. ASSUME NEW s \in Sources, NEW n \in 0 .. sent[s] - 1, Consume(s, n)
        PROVE  StatsInv'
    BY <2>3, ConsumeInv
  <2>4. CASE Reset
    BY <2>4, NoStatsType, FreshInv DEF StatsInv, Reset, TypeOK, Baseline, NoStats,
       NoHist, JumpFreeCountIsExact, LossIsNeverHidden
  <2>5. CASE Clear
    BY <2>5, NoStatsType, FreshInv DEF StatsInv, Clear, TypeOK, Baseline, NoStats,
       NoHist, JumpFreeCountIsExact, LossIsNeverHidden
  <2>6. CASE UNCHANGED vars
    BY <2>6 DEF StatsInv, vars, TypeOK, Baseline, JumpFreeCountIsExact,
                LossIsNeverHidden
  <2> QED BY <2>1, <2>2, <2>3, <2>4, <2>5, <2>6 DEF Next
<1> QED BY <1>1, <1>2, PTL

\* The counters of every source are unsigned numbers and the stored buffer
\* number is one of the range.
THEOREM StatsTypeCorrect == Spec => []TypeOK
<1>1. StatsInv => TypeOK
  BY DEF StatsInv
<1> QED BY <1>1, StatsInvInductive, PTL DEF Spec

\* For every number of sources and every range of buffer numbers: a source
\* without jumps has every packet sent counted as received or as lost.
THEOREM JumpFreeCountExact == Spec => []JumpFreeCountIsExact
<1>1. StatsInv => JumpFreeCountIsExact
  BY DEF StatsInv
<1> QED BY <1>1, StatsInvInductive, PTL DEF Spec

\* And duplicated or overtaken packets never make a loss disappear.
THEOREM LossNeverHidden == Spec => []LossIsNeverHidden
<1>1. StatsInv => LossIsNeverHidden
  BY DEF StatsInv
<1> QED BY <1>1, StatsInvInductive, PTL DEF Spec
=============================================================================
