---------------------------- MODULE SourceStats ----------------------------
(***************************************************************************)
(* src/mesytec-mcpd/source_stats.{h,cc}: SourceStatsCollector estimates,   *)
(* per data source, how many packets were lost, from the 16 bit buffer     *)
(* number in the packet header.  The packets arrive over UDP, so any of    *)
(* them may be lost, duplicated or overtaken.                              *)
(*                                                                         *)
(* A device numbers its packets 0, 1, 2, ... since its last restart; the   *)
(* header carries that number modulo Modulus (2^16 in the code).  The      *)
(* fields of SourceStats that depend on one packet only (type, events,     *)
(* bytes, status, run id, parameters) are left out: no decision uses them. *)
(***************************************************************************)
EXTENDS Integers

CONSTANTS Sources,      \* the SourceKeys: address and device id
          Modulus,      \* number of distinct buffer numbers, 2^16
          MaxSent,      \* bound: packets each device sends between restarts
          MaxReceived,  \* bound: packets counted per source between two resets
          MaxRestarts   \* bound: device restarts

ASSUME StatsAssumption ==
    /\ Modulus \in Nat
    /\ Modulus >= 2
    /\ MaxSent \in [Sources -> Nat]
    /\ MaxReceived \in [Sources -> Nat]
    /\ MaxRestarts \in Nat

VARIABLES sent,      \* sent[s]: packets that s sent since it restarted
          restarts,  \* restarts so far
          known,     \* keys of the map stats_
          stats,     \* values of the map, the default value where unknown
          hist       \* history of each source since the statistics began

vars == <<sent, restarts, known, stats, hist>>

Half == Modulus \div 2

\* bufferNumber of the n-th packet.
BufferNumber(n) == n % Modulus

\* SourceStats{}: what operator[] inserts for a new key.
NoStats == [packets |-> 0, packetsLost |-> 0, bufferNumberJumps |-> 0,
            lastBufferNumber |-> 0, haveBufferNumber |-> FALSE]

\* first and last are the true numbers of the first and the latest packet
\* consumed, expected is the one that comes next if nothing is lost.
NoHist == [first |-> 0, last |-> 0, expected |-> 0, inOrder |-> TRUE,
           longBurst |-> FALSE, restarted |-> FALSE]

Init ==
    /\ sent = [s \in Sources |-> 0]
    /\ restarts = 0
    /\ known = {}
    /\ stats = [s \in Sources |-> NoStats]
    /\ hist = [s \in Sources |-> NoHist]
-----------------------------------------------------------------------------
(* Mutations, see the runs.                                                *)

DistanceWithoutWrap(last, current) == current - last

JumpUnlessNext(last, current) == (current + Modulus - last) % Modulus # 1
-----------------------------------------------------------------------------
(* buffer_number_gap(): std::nullopt for a jump, else the packets missing. *)

\* The difference of two u16.
Distance(last, current) == (current + Modulus - last) % Modulus

IsJump(last, current) ==
    \/ Distance(last, current) = 0
    \/ Distance(last, current) >= Half

Gap(last, current) == Distance(last, current) - 1

\* The statistics of a source after one more packet.
CountPacket(st, number) ==
    LET jump == st.haveBufferNumber /\ IsJump(st.lastBufferNumber, number)
        gap == st.haveBufferNumber /\ ~jump
    IN  [packets |-> st.packets + 1,
         packetsLost |-> st.packetsLost
                           + (IF gap THEN Gap(st.lastBufferNumber, number) ELSE 0),
         bufferNumberJumps |-> st.bufferNumberJumps + (IF jump THEN 1 ELSE 0),
         lastBufferNumber |-> number,
         haveBufferNumber |-> TRUE]

\* What that packet was in truth.
Witness(h, st, n) ==
    [first |-> IF st.haveBufferNumber THEN h.first ELSE n,
     last |-> n,
     expected |-> n + 1,
     inOrder |-> h.inOrder /\ (st.haveBufferNumber => n = h.expected),
     longBurst |-> h.longBurst \/ (st.haveBufferNumber /\ n - h.last >= Half),
     restarted |-> h.restarted]
-----------------------------------------------------------------------------
(* The devices and the network.                                            *)

Send(s) ==
    /\ sent[s] < MaxSent[s]
    /\ sent' = [sent EXCEPT ![s] = @ + 1]
    /\ UNCHANGED <<restarts, known, stats, hist>>

\* A DAQ reset or power cycle: the numbers start again, and what is still on
\* its way is gone by the time the device sends again.
Restart(s) ==
    /\ restarts < MaxRestarts
    /\ restarts' = restarts + 1
    /\ sent' = [sent EXCEPT ![s] = 0]
    /\ hist' = [hist EXCEPT ![s].expected = 0,
                            ![s].restarted = stats[s].haveBufferNumber]
    /\ UNCHANGED <<known, stats>>

\* The network delays no packet by more than half of the number range and
\* never loses the whole range in a row: outside this window a 16 bit number
\* says nothing.
InWindow(s, n) ==
    stats[s].haveBufferNumber /\ ~hist[s].restarted =>
        /\ n - hist[s].last < Modulus
        /\ hist[s].last - n <= Half
-----------------------------------------------------------------------------
(* SourceStatsCollector: each operation runs under mutex_.                 *)

\* reset(), keeping the numbers the next packets are compared with.
ResetKeepsBaseline ==
    /\ stats' = [s \in Sources |->
                   [stats[s] EXCEPT !.packets = 0, !.packetsLost = 0,
                                    !.bufferNumberJumps = 0]]
    /\ hist' = [s \in Sources |-> NoHist]
    /\ UNCHANGED <<sent, restarts, known>>

\* consume(): any packet sent since the restart may be the next to arrive.
Consume(s, n) ==
    /\ InWindow(s, n)
    /\ stats[s].packets < MaxReceived[s]
    /\ known' = known \cup {s}
    /\ stats' = [stats EXCEPT ![s] = CountPacket(@, BufferNumber(n))]
    /\ hist' = [hist EXCEPT ![s] = Witness(@, stats[s], n)]
    /\ UNCHANGED <<sent, restarts>>

\* reset(): zeroes every known source and forgets its buffer number.
Reset ==
    /\ stats' = [s \in Sources |-> NoStats]
    /\ hist' = [s \in Sources |-> NoHist]
    /\ UNCHANGED <<sent, restarts, known>>

\* clear(): forgets the sources.
Clear ==
    /\ known' = {}
    /\ stats' = [s \in Sources |-> NoStats]
    /\ hist' = [s \in Sources |-> NoHist]
    /\ UNCHANGED <<sent, restarts>>

Next ==
    \/ \E s \in Sources : Send(s) \/ Restart(s)
    \/ \E s \in Sources : \E n \in 0 .. sent[s] - 1 : Consume(s, n)
    \/ Reset
    \/ Clear

Spec == Init /\ [][Next]_vars
-----------------------------------------------------------------------------
(* Properties.                                                             *)

StatsType ==
    [packets : Nat, packetsLost : Nat, bufferNumberJumps : Nat,
     lastBufferNumber : 0 .. Modulus - 1, haveBufferNumber : BOOLEAN]

HistType ==
    [first : Nat, last : Nat, expected : Nat, inOrder : BOOLEAN,
     longBurst : BOOLEAN, restarted : BOOLEAN]

\* Every variable keeps its type; the counters are unsigned.
TypeOK ==
    /\ sent \in [Sources -> Nat]
    /\ restarts \in 0 .. MaxRestarts
    /\ known \in SUBSET Sources
    /\ stats \in [Sources -> StatsType]
    /\ hist \in [Sources -> HistType]

\* A source without jumps is accounted for to the packet: from the first to
\* the latest packet consumed since the last reset or clear, every packet that
\* the device sent is counted either as received or as lost, however many
\* times the 16 bit number wrapped and however sources interleave.
JumpFreeCountIsExact ==
    \A s \in Sources :
        stats[s].haveBufferNumber /\ stats[s].bufferNumberJumps = 0
            /\ ~hist[s].restarted =>
            stats[s].packets + stats[s].packetsLost
                = hist[s].last - hist[s].first + 1

\* Duplicates and packets that were overtaken never hide a loss: as long as
\* no burst reaches half of the number range, the packets that were counted
\* once plus the packets reported lost cover everything that was sent.
LossIsNeverHidden ==
    \A s \in Sources :
        stats[s].haveBufferNumber /\ ~hist[s].longBurst /\ ~hist[s].restarted =>
            stats[s].packets - stats[s].bufferNumberJumps + stats[s].packetsLost
                >= hist[s].last - hist[s].first + 1

\* source_stats.h:36-37: a number that went backwards because of a DAQ reset
\* or restart is not counted as loss.  A source whose packets all arrived, in
\* the order sent, has lost none, restarted or not.
RestartIsNotLoss ==
    \A s \in Sources : hist[s].inOrder => stats[s].packetsLost = 0
=============================================================================
