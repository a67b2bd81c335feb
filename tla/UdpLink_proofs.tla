--------------------------- MODULE UdpLink_proofs ---------------------------
(***************************************************************************)
(* Proofs about UdpLink, for all tests, every size of the sequence space   *)
(* and whatever the network loses, duplicates and reorders.                *)
(***************************************************************************)
EXTENDS UdpLink, Sums_proofs, FiniteSetTheorems, SequenceTheorems, TLAPS

\* What RemoveAt and InsertAt make of a sequence, element by element.
LEMMA RemoveAtElements ==
    ASSUME NEW S, NEW s \in Seq(S), NEW i \in 1 .. Len(s)
    PROVE  /\ RemoveAt(s, i) \in Seq(S)
           /\ Len(RemoveAt(s, i)) = Len(s) - 1
           /\ \A j \in 1 .. Len(s) - 1 :
                RemoveAt(s, i)[j] = IF j < i THEN s[j] ELSE s[j + 1]
  <1> DEFINE a == SubSeq(s, 1, i - 1)
             b == SubSeq(s, i + 1, Len(s))
  <1>1. a \in Seq(S) /\ Len(a) = i - 1 /\ \A j \in 1 .. i - 1 : a[j] = s[j]
    OBVIOUS
  <1>2. b \in Seq(S) /\ Len(b) = Len(s) - i /\ \A j \in 1 .. Len(s) - i : b[j] = s[i + j]
    OBVIOUS
  <1> HIDE DEF a, b
  <1>3. /\ a \o b \in Seq(S) /\ Len(a \o b) = Len(s) - 1
        /\ \A j \in 1 .. Len(s) - 1 :
             (a \o b)[j] = IF j < i THEN a[j] ELSE b[j - (i - 1)]
    <2>1. a \in Seq(S) /\ b \in Seq(S)
      BY <1>1, <1>2
    <2>2. /\ a \o b \in Seq(S) /\ Len(a \o b) = Len(a) + Len(b)
          /\ \A j \in 1 .. Len(a) + Len(b) :
               (a \o b)[j] = IF j <= Len(a) THEN a[j] ELSE b[j - Len(a)]
      BY <2>1, ConcatProperties
    <2>3. Len(a) = i - 1 /\ Len(a) + Len(b) = Len(s) - 1
      BY <1>1, <1>2
    <2>4. \A j \in Int : j <= i - 1 <=> j < i
      OBVIOUS
    <2> QED BY <2>2, <2>3, <2>4
  <1>4. ASSUME NEW j \in 1 .. Len(s) - 1, ~(j < i) PROVE b[j - (i - 1)] = s[j + 1]
    <2>1. j - (i - 1) \in 1 .. Len(s) - i /\ i + (j - (i - 1)) = j + 1
      BY <1>4
    <2>2. b[j - (i - 1)] = s[i + (j - (i - 1))]
      BY <1>2, <2>1
    <2> QED BY <2>1, <2>2
  <1>5. RemoveAt(s, i) = a \o b
    BY DEF RemoveAt, a, b
  <1>6. \A j \in 1 .. Len(s) - 1 : j < i => a[j] = s[j]
    BY <1>1
  <1> QED BY <1>3, <1>4, <1>5, <1>6

LEMMA InsertAtElements ==
    ASSUME NEW S, NEW s \in Seq(S), NEW i \in 1 .. Len(s)
    PROVE  /\ InsertAt(s, i, s[i]) \in Seq(S)
           /\ Len(InsertAt(s, i, s[i])) = Len(s) + 1
           /\ \A j \in 1 .. Len(s) + 1 :
                InsertAt(s, i, s[i])[j] = IF j <= i THEN s[j] ELSE s[j - 1]
  <1> DEFINE a == SubSeq(s, 1, i - 1)
             m == a \o <<s[i]>>
             b == SubSeq(s, i, Len(s))
  <1>1. a \in Seq(S) /\ Len(a) = i - 1 /\ \A j \in 1 .. i - 1 : a[j] = s[j]
    OBVIOUS
  <1>2. b \in Seq(S) /\ Len(b) = Len(s) - i + 1
        /\ \A j \in 1 .. Len(s) - i + 1 : b[j] = s[i + j - 1]
    OBVIOUS
  <1> HIDE DEF a, b
  <1>3. m \in Seq(S) /\ Len(m) = i /\ \A j \in 1 .. i : m[j] = s[j]
    BY <1>1
  <1> HIDE DEF m
  <1>4. /\ m \o b \in Seq(S) /\ Len(m \o b) = Len(s) + 1
        /\ \A j \in 1 .. Len(s) + 1 :
             (m \o b)[j] = IF j <= i THEN m[j] ELSE b[j - i]
    <2>1. m \in Seq(S) /\ b \in Seq(S)
      BY <1>2, <1>3
    <2>2. /\ m \o b \in Seq(S) /\ Len(m \o b) = Len(m) + Len(b)
          /\ \A j \in 1 .. Len(m) + Len(b) :
               (m \o b)[j] = IF j <= Len(m) THEN m[j] ELSE b[j - Len(m)]
      BY <2>1, ConcatProperties
    <2>3. Len(m) = i /\ Len(m) + Len(b) = Len(s) + 1
      BY <1>2, <1>3
    <2> QED BY <2>2, <2>3
  <1>5. ASSUME NEW j \in 1 .. Len(s) + 1, ~(j <= i) PROVE b[j - i] = s[j - 1]
    <2>1. j - i \in 1 .. Len(s) - i + 1 /\ i + (j - i) - 1 = j - 1
      BY <1>5
    <2>2. b[j - i] = s[i + (j - i) - 1]
      BY <1>2, <2>1
    <2> QED BY <2>1, <2>2
  <1>6. InsertAt(s, i, s[i]) = m \o b
    BY DEF InsertAt, a, b, m
  <1> QED BY <1>3, <1>4, <1>5, <1>6

\* Whatever passes between two samples, the load is a percentage.
LEMMA CpuLoadIsPercentage ==
    ASSUME NEW t \in Nat \X Nat
    PROVE  compute_usage(t) \in 0 .. 100
  <1>0. t[1] \in Nat /\ t[2] \in Nat
    OBVIOUS
  <1>1. CASE t[1] = 0
    BY <1>1 DEF compute_usage
  <1>2. CASE t[1] # 0
    <2> DEFINE busy == (t[1] - t[2]) % U64
               y == (busy * 100) % U64
    <2>1. busy \in Nat
      BY <1>0, UdpLinkAssumption
    <2>2. y \in Nat
      BY <2>1, UdpLinkAssumption
    <2> HIDE DEF busy, y
    <2>3. y \div t[1] \in Nat
      BY <1>0, <1>2, <2>2
    <2>4. \A z \in Nat : Min({z, 100}) \in 0 .. 100
      BY DEF Min
    <2> QED BY <1>2, <2>3, <2>4 DEF compute_usage, busy, y
  <1> QED BY <1>1, <1>2

LEMMA OtherPeer ==
    \A p \in Peers : Other(p) \in Peers /\ Other(p) # p /\ Other(Other(p)) = p
  BY DEF Peers, Other

-----------------------------------------------------------------------------
(* Types *)

Packets == {Probe} \cup Nat
Intervals == [tx : Nat, rx : Nat, lost : Nat]
Messages == [cpu : 0 .. 100, seq : Nat, bytes : Nat]
Statuses ==
    {m \in [cpu : 0 .. 100, seq : Nat, bytes : Nat, counted : Nat] :
       m.bytes = m.counted % U32}
Acted == [at : {None}, nth : {0}] \cup [at : Nat, nth : Nat, msg : Messages]

NetTypes ==
    /\ test \in Tests
    /\ net \in [Peers -> Seq(Packets)]
    /\ stream \in [Peers -> Seq(Nat)]
    /\ broken \in BOOLEAN
    /\ running \in [Peers -> BOOLEAN]

DataTypes ==
    /\ seq \in [Peers -> Nat]
    /\ last_seq \in [Peers -> Nat \cup {None}]
    /\ first \in [Peers -> Nat \cup {None}]
    /\ got \in [Peers -> SUBSET Nat]
    /\ received \in [Peers -> Nat]

StatusTypes ==
    /\ pc \in [Peers -> {"read", "report", "send", "done"}]
    /\ status_buf \in [Peers -> Seq(Nat)]
    /\ \A p \in Peers : Len(status_buf[p]) < 3
    /\ held \in [Peers -> Intervals]
    /\ remote_cpu \in [Peers -> 0 .. 100]
    /\ sent \in [Peers -> Seq(Statuses)]
    /\ dropped \in [Peers -> Nat]
    /\ acted \in [Peers -> Acted]

CountTypes ==
    /\ tx_bytes \in [Peers -> Nat]
    /\ rx_bytes \in [Peers -> Nat]
    /\ rx_lost_packets \in [Peers -> Nat]
    /\ total_rx_bytes \in [Peers -> Nat]
    /\ total_lost_packets \in [Peers -> Nat]

TypeInv == NetTypes /\ DataTypes /\ StatusTypes /\ CountTypes

LEMMA TestType ==
    ASSUME test \in Tests
    PROVE  /\ test.times \in SUBSET (Nat \X Nat)
           /\ test.packets \in Nat
           /\ test.statuses \in [Peers -> Nat]
           /\ test.in_order \in BOOLEAN
  BY UdpLinkAssumption

LEMMA LoadType ==
    ASSUME test \in Tests PROVE CpuLoads \subseteq 0 .. 100
  BY TestType, CpuLoadIsPercentage DEF CpuLoads

\* What a message becomes on the wire, and what three words become: whatever they
\* are, the load is a percentage.
LEMMA Wire ==
    ASSUME NEW m \in Statuses
    PROVE  serialize(m) \in Seq(Nat) /\ Len(serialize(m)) = 3
  BY DEF serialize, CpuWord, Statuses

LEMMA StatusType ==
    ASSUME NEW c \in 0 .. 100, NEW n \in Nat, NEW b \in Nat
    PROVE  [cpu |-> c, seq |-> n, bytes |-> b % U32, counted |-> b] \in Statuses
  <1>1. b % U32 \in Nat
    BY UdpLinkAssumption
  <1> QED BY <1>1 DEF Statuses

LEMMA SomeStatus == [cpu |-> 0, seq |-> 0, bytes |-> 0, counted |-> 0] \in Statuses
  <1>1. 0 % U32 = 0
    BY UdpLinkAssumption
  <1> QED BY <1>1 DEF Statuses

LEMMA AtMostAHundred == \A z \in Nat : Min({z, 100}) = IF z <= 100 THEN z ELSE 100
  BY DEF Min

LEMMA ReadType ==
    ASSUME NEW words \in Seq(Nat), Len(words) = 3
    PROVE  deserialize(words) \in Messages
  <1>1. words[1] \in Nat /\ words[2] \in Nat /\ words[3] \in Nat
    <2>1. \A i \in 1 .. 3 : words[i] \in Nat
      BY ElementOfSeq
    <2> QED BY <2>1
  <1> DEFINE raw_cpu == (words[1] \div 256) % 256
             cpu == IF raw_cpu > 128 THEN raw_cpu % 128 ELSE raw_cpu
  <1>2. raw_cpu \in Nat
    BY <1>1
  <1>3. cpu \in Nat
    BY <1>2
  <1>4. deserialize(words) = [cpu |-> Min({cpu, 100}), seq |-> words[2], bytes |-> words[3]]
    BY DEF deserialize
  <1> HIDE DEF cpu
  <1>5. Min({cpu, 100}) \in 0 .. 100
    BY <1>3 DEF Min
  <1> QED BY <1>1, <1>4, <1>5 DEF Messages

LEMMA InitType == Init => TypeInv
  <1> SUFFICES ASSUME Init PROVE TypeInv
    OBVIOUS
  <1>1. NetTypes
    <2>1. <<Probe>> \in Seq(Packets) /\ <<>> \in Seq(Packets)
      BY DEF Packets, Probe
    <2>3. \A p \in Peers : net[p] \in Seq(Packets)
      BY <2>1 DEF Init
    <2>2. \A p \in Peers : stream[p] \in Seq(Nat)
      BY DEF Init
    <2> QED BY <2>2, <2>3 DEF Init, NetTypes
  <1>2. DataTypes
    BY DEF Init, DataTypes, None
  <1>3. StatusTypes
    <2>1. \A p \in Peers : status_buf[p] \in Seq(Nat) /\ Len(status_buf[p]) < 3
      BY DEF Init
    <2>2. \A p \in Peers : sent[p] \in Seq(Statuses)
      BY DEF Init
    <2> QED BY <2>1, <2>2 DEF Init, StatusTypes, Intervals, Nothing, Acted
  <1>4. CountTypes
    BY DEF Init, CountTypes
  <1> QED BY <1>1, <1>2, <1>3, <1>4 DEF TypeInv

\* The network keeps sequences of packets, one packet shorter or longer.
LEMMA NetType ==
    ASSUME TypeInv, NEW p \in Peers
    PROVE  /\ \A n \in Packets : Append(net[p], n) \in Seq(Packets)
           /\ \A i \in DOMAIN net[p] :
                /\ net[p][i] \in Packets
                /\ RemoveAt(net[p], i) \in Seq(Packets)
                /\ InsertAt(net[p], i, net[p][i]) \in Seq(Packets)
  <1>1. net[p] \in Seq(Packets)
    BY DEF TypeInv, NetTypes
  <1>2. DOMAIN net[p] = 1 .. Len(net[p])
    BY <1>1
  <1>3. \A n \in Packets : Append(net[p], n) \in Seq(Packets)
    BY <1>1
  <1>4. ASSUME NEW i \in DOMAIN net[p]
        PROVE  /\ net[p][i] \in Packets
               /\ RemoveAt(net[p], i) \in Seq(Packets)
               /\ InsertAt(net[p], i, net[p][i]) \in Seq(Packets)
    BY <1>1, <1>2, RemoveAtElements, InsertAtElements, ElementOfSeq
  <1> QED BY <1>3, <1>4

LEMMA GapType ==
    ASSUME NEW last \in Nat \cup {None}, NEW num \in Nat
    PROVE  Gap(last, num) \in Nat
  <1>1. (last + 1) % SeqSpace \in Nat
    BY UdpLinkAssumption DEF None
  <1> QED BY <1>1 DEF Gap

LEMMA DataTypeStep ==
    ASSUME TypeInv, NEW p \in Peers,
           SendPacket(p) \/ LosePacket(p) \/ DuplicatePacket(p)
             \/ \E i \in 1 .. MaxInFlight : ReceivePacket(p, i) \/ ReceiveProbe(p, i)
    PROVE  TypeInv'
  <1> USE DEF TypeInv
  <1>1. CASE SendPacket(p)
    <2>1. NetTypes'
      <3>1. Append(net[p], seq[p]) \in Seq(Packets)
        BY NetType DEF DataTypes, Packets
      <3> QED BY <1>1, <3>1 DEF SendPacket, NetTypes
    <2>2. DataTypes' /\ CountTypes'
      <3>1. /\ seq' = [seq EXCEPT ![p] = @ + 1]
            /\ tx_bytes' = [tx_bytes EXCEPT ![p] = @ + 1]
            /\ UNCHANGED <<last_seq, first, got, received, rx_bytes, rx_lost_packets,
                           total_rx_bytes, total_lost_packets>>
        BY <1>1 DEF SendPacket
      <3>2. DataTypes'
        BY <3>1 DEF DataTypes
      <3>3. CountTypes'
        BY <3>1 DEF CountTypes
      <3> QED BY <3>2, <3>3
    <2>3. StatusTypes'
      BY <1>1 DEF SendPacket, StatusTypes, statusVars
    <2> QED BY <2>1, <2>2, <2>3
  <1>2. CASE LosePacket(p)
    <2>1. NetTypes'
      BY <1>2, NetType DEF LosePacket, NetTypes
    <2>2. DataTypes' /\ CountTypes'
      BY <1>2 DEF LosePacket, DataTypes, CountTypes, dataVars, countVars
    <2>3. StatusTypes'
      BY <1>2 DEF LosePacket, StatusTypes, statusVars
    <2> QED BY <2>1, <2>2, <2>3
  <1>3. CASE DuplicatePacket(p)
    <2>1. NetTypes'
      BY <1>3, NetType DEF DuplicatePacket, NetTypes
    <2>2. DataTypes' /\ CountTypes'
      BY <1>3 DEF DuplicatePacket, DataTypes, CountTypes, dataVars, countVars
    <2>3. StatusTypes'
      BY <1>3 DEF DuplicatePacket, StatusTypes, statusVars
    <2> QED BY <2>1, <2>2, <2>3
  <1>4. ASSUME NEW i \in 1 .. MaxInFlight, ReceivePacket(p, i) PROVE TypeInv'
    <2> DEFINE n == net[Other(p)][i]
    <2>0. i \in DOMAIN net[Other(p)] /\ n # Probe
      BY <1>4 DEF ReceivePacket, Deliver
    <2>1. n \in Nat
      BY <2>0, NetType, OtherPeer DEF Packets
    <2>2. NetTypes'
      BY <1>4, <2>0, NetType, OtherPeer DEF ReceivePacket, Deliver, NetTypes
    <2>3. n % SeqSpace \in Nat
      BY <2>1, UdpLinkAssumption
    <2>4. Gap(last_seq[p], n % SeqSpace) \in Nat
      BY <2>3, GapType DEF DataTypes
    <2> HIDE DEF n
    <2>5. /\ rx_bytes' = [rx_bytes EXCEPT ![p] = @ + 1]
          /\ rx_lost_packets' =
                [rx_lost_packets EXCEPT ![p] = @ + Gap(last_seq[p], n % SeqSpace)]
          /\ last_seq' = [last_seq EXCEPT ![p] = n % SeqSpace]
          /\ first' = [first EXCEPT ![p] = IF @ = None THEN n ELSE @]
          /\ got' = [got EXCEPT ![p] = @ \cup {n}]
          /\ received' = [received EXCEPT ![p] = @ + 1]
      BY <1>4 DEF ReceivePacket, n
    <2>6. UNCHANGED <<seq, statusVars, tx_bytes, total_rx_bytes, total_lost_packets>>
      BY <1>4 DEF ReceivePacket
    <2>7. DataTypes'
      BY <2>1, <2>3, <2>5, <2>6 DEF DataTypes
    <2>8. CountTypes'
      BY <2>4, <2>5, <2>6 DEF CountTypes
    <2>9. StatusTypes'
      BY <2>6 DEF StatusTypes, statusVars
    <2> QED BY <2>2, <2>7, <2>8, <2>9
  <1>5. ASSUME NEW i \in 1 .. MaxInFlight, ReceiveProbe(p, i) PROVE TypeInv'
    <2>1. NetTypes'
      BY <1>5, NetType, OtherPeer DEF ReceiveProbe, Deliver, NetTypes
    <2>2. DataTypes' /\ CountTypes'
      BY <1>5 DEF ReceiveProbe, DataTypes, CountTypes, dataVars, countVars
    <2>3. StatusTypes'
      BY <1>5 DEF ReceiveProbe, StatusTypes, statusVars
    <2> QED BY <2>1, <2>2, <2>3
  <1> QED BY <1>1, <1>2, <1>3, <1>4, <1>5

LEMMA StatusTypeStep ==
    ASSUME TypeInv, NEW p \in Peers,
           \/ ReadWord(p) \/ ReadTimeout(p) \/ TakeInterval(p)
           \/ \E cpu_load \in CpuLoads : SendStatus(p, cpu_load)
           \/ SendFails(p) \/ ReadFails(p) \/ Stop(p)
    PROVE  TypeInv'
  <1> USE DEF TypeInv
  <1>1. CASE ReadWord(p)
    <2> DEFINE words == Append(status_buf[p], Head(stream[p]))
    <2>1. stream[p] \in Seq(Nat) /\ stream[p] # <<>>
      BY <1>1 DEF ReadWord, NetTypes
    <2>2. Head(stream[p]) \in Nat /\ Tail(stream[p]) \in Seq(Nat)
      BY <2>1
    <2>3. words \in Seq(Nat) /\ Len(words) = Len(status_buf[p]) + 1
      BY <2>2 DEF StatusTypes
    <2>4. <<>> \in Seq(Nat) /\ Len(<<>>) = 0
      OBVIOUS
    <2>5. NetTypes'
      BY <1>1, <2>2 DEF ReadWord, NetTypes
    <2>6. DataTypes' /\ CountTypes'
      BY <1>1 DEF ReadWord, DataTypes, CountTypes, dataVars, countVars
    <2>7. UNCHANGED <<held, sent, dropped>>
      BY <1>1 DEF ReadWord
    <2>8. StatusTypes'
      <3>1. CASE Len(words) < 3
        <4>1. /\ status_buf' = [status_buf EXCEPT ![p] = words]
              /\ UNCHANGED <<pc, remote_cpu, acted>>
          BY <1>1, <3>1 DEF ReadWord
        <4> HIDE DEF words
        <4> QED BY <2>3, <2>7, <3>1, <4>1 DEF StatusTypes
      <3>2. CASE ~(Len(words) < 3)
        <4>1. Len(words) = 3
          BY <2>3, <3>2 DEF StatusTypes
        <4>2. deserialize(words) \in Messages
          BY <2>3, <4>1, ReadType
        <4>3. /\ status_buf' = [status_buf EXCEPT ![p] = <<>>]
              /\ remote_cpu' = [remote_cpu EXCEPT ![p] = deserialize(words).cpu]
              /\ acted' = [acted EXCEPT ![p] = [at |-> dropped[p], nth |-> @.nth + 1,
                                               msg |-> deserialize(words)]]
              /\ \E next \in AfterStatus(p) : pc' = [pc EXCEPT ![p] = next]
          BY <1>1, <3>2 DEF ReadWord
        <4> HIDE DEF words
        <4>4. acted[p].nth + 1 \in Nat
          <5>1. acted[p] \in Acted
            BY DEF StatusTypes
          <5> QED BY <5>1 DEF Acted
        <4>5. deserialize(words).cpu \in 0 .. 100
          BY <4>2 DEF Messages
        <4>6. status_buf' \in [Peers -> Seq(Nat)] /\ \A q \in Peers : Len(status_buf'[q]) < 3
          BY <2>4, <4>3 DEF StatusTypes
        <4>7. acted' \in [Peers -> Acted]
          BY <4>2, <4>3, <4>4 DEF StatusTypes, Acted
        <4>8. pc' \in [Peers -> {"read", "report", "send", "done"}]
          BY <4>3 DEF StatusTypes, AfterStatus
        <4> QED BY <2>7, <4>3, <4>5, <4>6, <4>7, <4>8 DEF StatusTypes
      <3> QED BY <3>1, <3>2
    <2> QED BY <2>5, <2>6, <2>8
  <1>2. CASE ReadTimeout(p)
    <2>1. <<>> \in Seq(Nat) /\ Len(<<>>) = 0 /\ Len(status_buf[p]) \in Nat
      BY DEF StatusTypes
    <2>2. NetTypes' /\ DataTypes' /\ CountTypes'
      BY <1>2 DEF ReadTimeout, NetTypes, DataTypes, CountTypes, netVars, dataVars, countVars
    <2>3. StatusTypes'
      BY <1>2, <2>1 DEF ReadTimeout, StatusTypes
    <2> QED BY <2>2, <2>3
  <1>3. CASE TakeInterval(p)
    BY <1>3 DEF TakeInterval, NetTypes, DataTypes, CountTypes, StatusTypes, Intervals,
       netVars, dataVars
  <1>4. ASSUME NEW cpu_load \in CpuLoads, SendStatus(p, cpu_load) PROVE TypeInv'
    <2> DEFINE m == [cpu |-> cpu_load, seq |-> Len(sent[p]) + 1,
                      bytes |-> report_bytes(p) % U32, counted |-> report_bytes(p)]
    <2>1. cpu_load \in 0 .. 100
      BY LoadType DEF NetTypes
    <2>2. report_bytes(p) \in Nat /\ Len(sent[p]) + 1 \in Nat
      BY DEF StatusTypes, Intervals, report_bytes
    <2>3. m \in Statuses
      BY <2>1, <2>2, StatusType
    <2> HIDE DEF m
    <2>4. Append(sent[p], m) \in Seq(Statuses)
      BY <2>3 DEF StatusTypes
    <2>5. stream[Other(p)] \o serialize(m) \in Seq(Nat)
      BY <2>3, Wire, OtherPeer, ConcatProperties DEF NetTypes
    <2>6. /\ sent' = [sent EXCEPT ![p] = Append(@, m)]
          /\ stream' = [stream EXCEPT ![Other(p)] = @ \o serialize(m)]
      BY <1>4 DEF SendStatus, m
    <2>7. NetTypes'
      BY <1>4, <2>5, <2>6, OtherPeer DEF SendStatus, NetTypes
    <2>0. held[p].rx \in Nat /\ held[p].lost \in Nat
      BY DEF StatusTypes, Intervals
    <2>8. DataTypes' /\ CountTypes'
      <3>1. /\ total_rx_bytes' = [total_rx_bytes EXCEPT ![p] = @ + held[p].rx]
            /\ total_lost_packets' = [total_lost_packets EXCEPT ![p] = @ + held[p].lost]
            /\ UNCHANGED <<dataVars, tx_bytes, rx_bytes, rx_lost_packets>>
        BY <1>4 DEF SendStatus, record_interval
      <3>2. DataTypes'
        BY <3>1 DEF DataTypes, dataVars
      <3>3. CountTypes'
        BY <2>0, <3>1 DEF CountTypes
      <3> QED BY <3>2, <3>3
    <2>9. StatusTypes'
      BY <1>4, <2>4, <2>6 DEF SendStatus, StatusTypes, Intervals, Nothing
    <2> QED BY <2>7, <2>8, <2>9
  <1>5. CASE SendFails(p)
    <2>0. held[p].rx \in Nat /\ held[p].lost \in Nat
      BY DEF StatusTypes, Intervals
    <2>1. NetTypes' /\ DataTypes'
      BY <1>5 DEF SendFails, NetTypes, DataTypes, netVars, dataVars
    <2>2. CountTypes'
      BY <1>5, <2>0 DEF SendFails, record_interval, CountTypes
    <2>3. StatusTypes'
      <3>1. Nothing \in Intervals
        BY DEF Intervals, Nothing
      <3>2. held' \in [Peers -> Intervals]
        BY <1>5, <3>1 DEF SendFails, StatusTypes
      <3> QED BY <1>5, <3>2 DEF SendFails, StatusTypes
    <2> QED BY <2>1, <2>2, <2>3
  <1>6. CASE ReadFails(p)
    BY <1>6 DEF ReadFails, NetTypes, DataTypes, CountTypes, StatusTypes, netVars, dataVars,
       countVars
  <1>7. CASE Stop(p)
    BY <1>7 DEF Stop, NetTypes, DataTypes, CountTypes, StatusTypes, netVars, dataVars,
       countVars, statusVars
  <1> QED BY <1>1, <1>2, <1>3, <1>4, <1>5, <1>6, <1>7

LEMMA NextType == TypeInv /\ [Next]_vars => TypeInv'
  <1> SUFFICES ASSUME TypeInv, [Next]_vars PROVE TypeInv'
    OBVIOUS
  <1>1. CASE Break
    BY <1>1 DEF Break, TypeInv, NetTypes, DataTypes, CountTypes, StatusTypes, dataVars,
       countVars, statusVars
  <1>2. CASE UNCHANGED vars
    BY <1>2 DEF vars, TypeInv, NetTypes, DataTypes, CountTypes, StatusTypes, netVars,
       dataVars, countVars, statusVars
  <1> QED BY <1>1, <1>2, DataTypeStep, StatusTypeStep DEF Next, Terminated

LEMMA TypeInvariant == Spec => []TypeInv
  BY InitType, NextType, PTL DEF Spec

-----------------------------------------------------------------------------
(* Intervals *)

\* What is counted for messages, one by one.
BytesIn(s) == [i \in DOMAIN s |-> s[i].counted]

LEMMA BytesInGrows ==
    ASSUME NEW s \in Seq(Statuses), NEW m \in Statuses
    PROVE  /\ SumOf(BytesIn(s)) \in Nat
           /\ SumOf(BytesIn(Append(s, m))) = SumOf(BytesIn(s)) + m.counted
  <1> DEFINE n == Len(s) + 1
             f == BytesIn(s)
             g == BytesIn(Append(s, m))
             D == 1 .. Len(s)
  <1>1. n \in Nat /\ n \notin D /\ D \cup {n} = 1 .. n /\ IsFiniteSet(D)
    <2>1. Len(s) \in Nat
      OBVIOUS
    <2>2. IsFiniteSet(D)
      BY <2>1, FS_Interval
    <2> QED BY <2>1, <2>2
  <1>2. \A i \in D : s[i] \in Statuses
    BY ElementOfSeq
  <1>3. f \in [D -> Nat] /\ \A i \in D : f[i] = s[i].counted
    BY <1>2 DEF BytesIn, Statuses
  <1>4. /\ DOMAIN Append(s, m) = 1 .. n /\ Append(s, m)[n] = m
        /\ \A i \in D : Append(s, m)[i] = s[i]
    OBVIOUS
  <1>5. m.counted \in Nat
    BY DEF Statuses
  <1>6. /\ g \in [D \cup {n} -> Nat] /\ g[n] = m.counted
        /\ \A i \in D : g[i] = f[i]
    <2>1. \A i \in 1 .. n : g[i] = IF i = n THEN m.counted ELSE f[i]
      BY <1>1, <1>3, <1>4 DEF BytesIn
    <2>2. DOMAIN g = 1 .. n /\ g = [i \in 1 .. n |-> g[i]]
      BY <1>4 DEF BytesIn
    <2> HIDE DEF f, g
    <2> QED BY <1>1, <1>3, <1>5, <2>1, <2>2
  <1> HIDE DEF f, g, D, n
  <1>7. OneMore(f, g, D, n)
    BY <1>1, <1>3, <1>6 DEF OneMore
  <1>8. SumOf(g) = SumOf(f) + g[n]
    BY <1>7, SumOfAdd
  <1>9. SumOf(f) \in Nat
    BY <1>1, <1>3, SumOfType
  <1> QED BY <1>6, <1>8, <1>9 DEF f, g

\* What the reports a peer has sent were about.
Counted(p) == SumOf(BytesIn(sent[p]))

\* A peer that does not receive has received nothing, and counts nothing for its reports;
\* each interval is somewhere; an interval that is not recorded was swapped out
\* by a status loop that is about to report it or by one that could not and left.
IntervalInv(p) ==
    /\ ~Receives(p) => received[p] = 0
    /\ total_rx_bytes[p] + held[p].rx + rx_bytes[p] = received[p]
    /\ held[p] # Nothing => pc[p] = "send" \/ (p = "server" /\ broken /\ pc[p] = "done")
    /\ ~broken /\ Receives(p) => Counted(p) + held[p].rx + rx_bytes[p] = received[p]
    /\ ~broken /\ ~Receives(p) /\ p = "server" =>
         Counted(p) + held[p].tx + tx_bytes[p] = seq[p]
    /\ ~broken /\ ~Receives(p) /\ p = "client" => Counted(p) = 0

IntervalsKept == \A p \in Peers : IntervalInv(p)

\* As long as they fit, the bytes of the reports are those counted.
LEMMA ReportedIs ==
    ASSUME TypeInv, NEW p \in Peers, ReportsFit(p)
    PROVE  Reported(p) = Counted(p)
  <1>1. sent[p] \in Seq(Statuses)
    BY DEF TypeInv, StatusTypes
  <1>2. ASSUME NEW i \in DOMAIN sent[p] PROVE sent[p][i].bytes = sent[p][i].counted
    <2>1. sent[p][i] \in Statuses
      BY <1>1, ElementOfSeq
    <2>2. sent[p][i].counted \in Nat /\ sent[p][i].counted < U32
      BY <2>1 DEF ReportsFit, Statuses
    <2>3. \A n \in Nat : n < U32 => n % U32 = n
      BY UdpLinkAssumption
    <2> QED BY <2>1, <2>2, <2>3 DEF Statuses
  <1>3. [i \in DOMAIN sent[p] |-> sent[p][i].bytes]
          = [i \in DOMAIN sent[p] |-> sent[p][i].counted]
    BY <1>2
  <1> QED BY <1>3 DEF Reported, Counted, BytesIn

LEMMA IntervalsImply == TypeInv /\ IntervalsKept => IntervalsExact
  <1> SUFFICES ASSUME TypeInv, IntervalsKept, NEW p \in Peers
               PROVE  /\ total_rx_bytes[p] + held[p].rx + rx_bytes[p] = received[p]
                      /\ held[p] # Nothing => pc[p] = "send" \/ (p = "server" /\ broken)
                      /\ ~broken /\ ReportsFit(p) =>
                           CASE Receives(p) ->
                                  Reported(p) + held[p].rx + rx_bytes[p] = received[p]
                             [] ~Receives(p) /\ p = "server" ->
                                  Reported(p) + held[p].tx + tx_bytes[p] = seq[p]
                             [] OTHER -> Reported(p) = 0
    BY DEF IntervalsExact
  <1>1. IntervalInv(p) /\ (p = "server" \/ p = "client")
    BY DEF IntervalsKept, Peers
  <1>2. Receives(p) \in BOOLEAN
    BY DEF Receives, Sends
  <1>6. ReportsFit(p) => Reported(p) = Counted(p)
    BY ReportedIs
  <1>3. CASE Receives(p)
    BY <1>1, <1>3, <1>6 DEF IntervalInv
  <1>4. CASE ~Receives(p) /\ p = "server"
    BY <1>1, <1>4, <1>6 DEF IntervalInv
  <1>5. CASE ~Receives(p) /\ p = "client"
    BY <1>1, <1>5, <1>6 DEF IntervalInv
  <1> QED BY <1>1, <1>2, <1>3, <1>4, <1>5

LEMMA IntervalsInit == Init => IntervalsKept
  <1> SUFFICES ASSUME Init, NEW p \in Peers PROVE IntervalInv(p)
    BY DEF IntervalsKept
  <1>1. Counted(p) = 0
    <2>1. sent[p] = <<>>
      BY DEF Init
    <2>2. BytesIn(sent[p]) \in [{} -> Nat]
      BY <2>1 DEF BytesIn
    <2> QED BY <2>2, SumOfEmpty DEF Counted
  <1> QED BY <1>1 DEF Init, IntervalInv, Nothing

\* A step that leaves the counters of a peer alone, and its status loop while it
\* holds an interval.
LEMMA IntervalFrame ==
    ASSUME NEW q \in Peers, IntervalInv(q), test' = test,
           received'[q] = received[q], total_rx_bytes'[q] = total_rx_bytes[q],
           held'[q] = held[q], rx_bytes'[q] = rx_bytes[q], tx_bytes'[q] = tx_bytes[q],
           seq'[q] = seq[q], sent'[q] = sent[q], broken => broken',
           held[q] = Nothing \/ pc'[q] = pc[q]
    PROVE  IntervalInv(q)'
  <1>1. Receives(q)' = Receives(q)
    BY DEF Receives, Sends
  <1>2. Counted(q)' = Counted(q)
    BY DEF Counted
  <1> QED BY <1>1, <1>2 DEF IntervalInv

\* A status loop that is not about to report holds nothing.
LEMMA HoldsNothing ==
    ASSUME NEW p \in Peers, IntervalInv(p), pc[p] \in {"read", "report"}
    PROVE  held[p] = Nothing
  BY DEF IntervalInv

LEMMA DataIntervals ==
    ASSUME TypeInv, IntervalsKept, NEW p \in Peers, NEW q \in Peers,
           SendPacket(p) \/ LosePacket(p) \/ DuplicatePacket(p)
             \/ \E i \in 1 .. MaxInFlight : ReceivePacket(p, i) \/ ReceiveProbe(p, i)
    PROVE  IntervalInv(q)'
  <1>0. IntervalInv(q) /\ IntervalInv(p)
    BY DEF IntervalsKept
  <1>t. /\ seq[p] \in Nat /\ received[p] \in Nat /\ tx_bytes[p] \in Nat /\ rx_bytes[p] \in Nat
        /\ total_rx_bytes[p] \in Nat /\ held[p] \in Intervals
        /\ Counted(p) \in Nat
    <2>1. sent[p] \in Seq(Statuses)
      BY DEF TypeInv, StatusTypes
    <2>2. [cpu |-> 0, seq |-> 0, bytes |-> 0, counted |-> 0] \in Statuses
      BY SomeStatus
    <2> QED BY <2>1, <2>2, BytesInGrows
            DEF Counted, TypeInv, DataTypes, CountTypes, StatusTypes
  <1>1. CASE SendPacket(p)
    <2>1. CASE q = p
      <3>1. /\ Receives(p)' = Receives(p) /\ Counted(p)' = Counted(p)
            /\ seq'[p] = seq[p] + 1 /\ tx_bytes'[p] = tx_bytes[p] + 1
            /\ UNCHANGED <<received, total_rx_bytes, held, rx_bytes, broken, pc>>
        BY <1>1 DEF SendPacket, Receives, Sends, Counted, TypeInv, DataTypes, CountTypes,
           statusVars
      <3>2. held[p].tx \in Nat
        BY <1>t DEF Intervals
      <3> QED BY <1>0, <1>t, <2>1, <3>1, <3>2 DEF IntervalInv
    <2>2. CASE q # p
      BY <1>0, <1>1, <2>2, IntervalFrame
         DEF SendPacket, statusVars, TypeInv, DataTypes, CountTypes
    <2> QED BY <2>1, <2>2
  <1>2. CASE LosePacket(p) \/ DuplicatePacket(p) \/ \E i \in 1 .. MaxInFlight : ReceiveProbe(p, i)
    <2>1. UNCHANGED <<test, broken, dataVars, statusVars, countVars>>
      BY <1>2 DEF LosePacket, DuplicatePacket, ReceiveProbe
    <2> QED BY <1>0, <2>1, IntervalFrame DEF dataVars, statusVars, countVars
  <1>3. ASSUME NEW i \in 1 .. MaxInFlight, ReceivePacket(p, i) PROVE IntervalInv(q)'
    <2>1. CASE q = p
      <3>1. /\ Receives(p)' = Receives(p) /\ Counted(p)' = Counted(p) /\ Receives(p)
            /\ rx_bytes'[p] = rx_bytes[p] + 1 /\ received'[p] = received[p] + 1
            /\ UNCHANGED <<total_rx_bytes, held, broken, pc>>
        BY <1>3 DEF ReceivePacket, Deliver, Receives, Sends, Counted, TypeInv, DataTypes,
           CountTypes, statusVars
      <3>2. held[p].rx \in Nat
        BY <1>t DEF Intervals
      <3> QED BY <1>0, <1>t, <2>1, <3>1, <3>2 DEF IntervalInv
    <2>2. CASE q # p
      <3>1. /\ test' = test /\ broken' = broken
            /\ received'[q] = received[q] /\ rx_bytes'[q] = rx_bytes[q]
            /\ UNCHANGED <<total_rx_bytes, held, tx_bytes, seq, sent, pc>>
        BY <1>3, <2>2 DEF ReceivePacket, statusVars, TypeInv, DataTypes, CountTypes
      <3> QED BY <1>0, <3>1, IntervalFrame
    <2> QED BY <2>1, <2>2
  <1> QED BY <1>1, <1>2, <1>3

LEMMA StatusIntervals ==
    ASSUME TypeInv, IntervalsKept, NEW p \in Peers, NEW q \in Peers,
           \/ ReadWord(p) \/ ReadTimeout(p) \/ TakeInterval(p)
           \/ \E cpu_load \in CpuLoads : SendStatus(p, cpu_load)
           \/ SendFails(p) \/ ReadFails(p) \/ Stop(p)
    PROVE  IntervalInv(q)'
  <1>0. IntervalInv(q) /\ IntervalInv(p)
    BY DEF IntervalsKept
  <1>t. /\ seq[p] \in Nat /\ received[p] \in Nat /\ tx_bytes[p] \in Nat /\ rx_bytes[p] \in Nat
        /\ total_rx_bytes[p] \in Nat /\ sent[p] \in Seq(Statuses)
        /\ held[p] \in Intervals /\ held[p].rx \in Nat /\ held[p].tx \in Nat
    BY DEF TypeInv, DataTypes, CountTypes, StatusTypes, Intervals
  <1>1. CASE ReadWord(p) \/ ReadTimeout(p) \/ ReadFails(p)
    <2>1. pc[p] = "read" /\ UNCHANGED <<test, broken, dataVars, held, sent, countVars>>
      BY <1>1 DEF ReadWord, ReadTimeout, ReadFails, netVars
    <2>2. q # p => pc'[q] = pc[q]
      BY <1>1 DEF ReadWord, ReadTimeout, ReadFails, TypeInv, StatusTypes
    <2>3. held[p] = Nothing
      BY <1>0, <2>1, HoldsNothing
    <2> QED BY <1>0, <2>1, <2>2, <2>3, IntervalFrame DEF dataVars, countVars
  <1>2. CASE Stop(p)
    <2>1. UNCHANGED <<test, broken, dataVars, statusVars, countVars>>
      BY <1>2 DEF Stop, netVars
    <2> QED BY <1>0, <2>1, IntervalFrame DEF dataVars, statusVars, countVars
  <1>3. CASE TakeInterval(p)
    <2>1. CASE q = p
      <3>1. held[p] = Nothing
        BY <1>0, <1>3, HoldsNothing DEF TakeInterval
      <3>2. /\ Receives(p)' = Receives(p) /\ Counted(p)' = Counted(p)
            /\ held'[p] = [tx |-> tx_bytes[p], rx |-> rx_bytes[p], lost |-> rx_lost_packets[p]]
            /\ tx_bytes'[p] = 0 /\ rx_bytes'[p] = 0 /\ pc'[p] = "send"
            /\ UNCHANGED <<received, total_rx_bytes, broken, seq>>
        BY <1>3 DEF TakeInterval, Receives, Sends, Counted, TypeInv, StatusTypes,
           CountTypes, netVars, dataVars
      <3>3. Counted(p) \in Nat
        <4>1. [cpu |-> 0, seq |-> 0, bytes |-> 0, counted |-> 0] \in Statuses
          BY SomeStatus
        <4> QED BY <1>t, <4>1, BytesInGrows DEF Counted
      <3> QED BY <1>0, <1>t, <2>1, <3>1, <3>2, <3>3 DEF IntervalInv, Nothing
    <2>2. CASE q # p
      <3>1. /\ UNCHANGED <<test, broken, received, seq, sent, total_rx_bytes>>
            /\ held'[q] = held[q] /\ pc'[q] = pc[q]
            /\ tx_bytes'[q] = tx_bytes[q] /\ rx_bytes'[q] = rx_bytes[q]
        BY <1>3, <2>2 DEF TakeInterval, TypeInv, StatusTypes, CountTypes, netVars, dataVars
      <3> QED BY <1>0, <3>1, IntervalFrame
    <2> QED BY <2>1, <2>2
  <1>4. ASSUME NEW cpu_load \in CpuLoads, SendStatus(p, cpu_load) PROVE IntervalInv(q)'
    <2> DEFINE m == [cpu |-> cpu_load, seq |-> Len(sent[p]) + 1,
                      bytes |-> report_bytes(p) % U32, counted |-> report_bytes(p)]
    <2>1. m \in Statuses
      <3>1. cpu_load \in 0 .. 100
        BY LoadType DEF TypeInv, NetTypes
      <3>2. report_bytes(p) \in Nat /\ Len(sent[p]) + 1 \in Nat
        BY <1>t DEF report_bytes
      <3> QED BY <3>1, <3>2, StatusType
    <2>2. sent'[p] = Append(sent[p], m) /\ \A x \in Peers \ {p} : sent'[x] = sent[x]
      BY <1>4 DEF SendStatus, TypeInv, StatusTypes
    <2>3. m.counted = report_bytes(p)
      OBVIOUS
    <2> HIDE DEF m
    <2>4. Counted(p) \in Nat /\ Counted(p)' = Counted(p) + report_bytes(p)
      <3>1. /\ Counted(p) = SumOf(BytesIn(sent[p]))
            /\ Counted(p)' = SumOf(BytesIn(sent'[p]))
        BY DEF Counted
      <3> QED BY <1>t, <2>1, <2>2, <2>3, <3>1, BytesInGrows
    <2>5. /\ total_rx_bytes'[p] = total_rx_bytes[p] + held[p].rx
          /\ \A x \in Peers \ {p} : total_rx_bytes'[x] = total_rx_bytes[x]
      BY <1>4 DEF SendStatus, record_interval, TypeInv, CountTypes
    <2>6. /\ held'[p] = Nothing
          /\ \A x \in Peers \ {p} : held'[x] = held[x] /\ pc'[x] = pc[x]
          /\ UNCHANGED <<test, broken, received, seq, tx_bytes, rx_bytes>>
      BY <1>4 DEF SendStatus, TypeInv, StatusTypes, dataVars
    <2>7. CASE q = p
      <3>1. Receives(p)' = Receives(p)
        BY <2>6 DEF Receives, Sends
      <3>2. Nothing.tx = 0 /\ Nothing.rx = 0
        BY DEF Nothing
      <3>3. CASE Receives(p)
        <4>1. report_bytes(p) = held[p].rx
          BY <3>3 DEF report_bytes
        <4> QED BY <1>0, <1>t, <2>4, <2>5, <2>6, <2>7, <3>1, <3>2, <3>3, <4>1 DEF IntervalInv
      <3>4. CASE ~Receives(p) /\ p = "server"
        <4>1. Sends(p)
          <5>1. test.direction \in {"RX", "TX", "BOTH"}
            BY UdpLinkAssumption DEF TypeInv, NetTypes
          <5> QED BY <3>4, <5>1 DEF Receives, Sends, Other
        <4>2. report_bytes(p) = held[p].tx
          BY <3>4, <4>1 DEF report_bytes
        <4>3. ~broken => Counted(p)' + held'[p].tx + tx_bytes'[p] = seq'[p]
          BY <1>0, <1>t, <2>4, <2>5, <2>6, <3>2, <3>4, <4>2 DEF IntervalInv
        <4> QED BY <1>0, <1>t, <2>5, <2>6, <2>7, <3>1, <3>2, <3>4, <4>3 DEF IntervalInv
      <3>5. CASE ~Receives(p) /\ p = "client"
        <4>1. report_bytes(p) = held[p].rx
          BY <3>5 DEF report_bytes
        <4>2. held[p].rx = 0
          BY <1>0, <1>t, <3>5 DEF IntervalInv
        <4>3. total_rx_bytes'[p] = total_rx_bytes[p] /\ Counted(p)' = Counted(p)
          BY <1>t, <2>4, <2>5, <4>1, <4>2
        <4>4. p # "server"
          BY <3>5
        <4> QED BY <1>0, <1>t, <2>6, <2>7, <3>1, <3>2, <3>5, <4>2, <4>3, <4>4
                DEF IntervalInv
      <3> QED BY <3>3, <3>4, <3>5 DEF Peers
    <2>8. CASE q # p
      BY <1>0, <2>2, <2>5, <2>6, <2>8, IntervalFrame
    <2> QED BY <2>7, <2>8
  <1>5. CASE SendFails(p)
    <2>0. /\ broken /\ pc'[p] = "done" /\ \A x \in Peers \ {p} : pc'[x] = pc[x]
          /\ UNCHANGED <<test, broken, received, seq, sent, tx_bytes, rx_bytes>>
      BY <1>5 DEF SendFails, TypeInv, StatusTypes, netVars, dataVars
    <2>1. CASE p = "client"
      <3>1. /\ total_rx_bytes'[p] = total_rx_bytes[p] + held[p].rx
            /\ \A x \in Peers \ {p} : total_rx_bytes'[x] = total_rx_bytes[x]
            /\ held'[p] = Nothing /\ \A x \in Peers \ {p} : held'[x] = held[x]
        <4>1. /\ total_rx_bytes' = [total_rx_bytes EXCEPT ![p] = @ + held[p].rx]
              /\ held' = [held EXCEPT ![p] = Nothing]
          BY <1>5, <2>1 DEF SendFails, record_interval
        <4> QED BY <4>1 DEF TypeInv, CountTypes, StatusTypes
      <3>2. CASE q = p
        <4>1. Receives(p)' = Receives(p)
          BY <2>0 DEF Receives, Sends
        <4>2. Nothing.rx = 0
          BY DEF Nothing
        <4> QED BY <1>0, <1>t, <2>0, <3>1, <3>2, <4>1, <4>2 DEF IntervalInv
      <3>3. CASE q # p
        BY <1>0, <2>0, <3>1, <3>3, IntervalFrame
      <3> QED BY <3>2, <3>3
    <2>2. CASE p # "client"
      <3>1. UNCHANGED <<total_rx_bytes, held>>
        BY <1>5, <2>2 DEF SendFails
      <3>2. CASE q = p
        <4>1. Receives(p)' = Receives(p)
          BY <2>0 DEF Receives, Sends
        <4>2. p = "server"
          BY <2>2 DEF Peers
        <4> QED BY <1>0, <1>t, <2>0, <3>1, <3>2, <4>1, <4>2 DEF IntervalInv
      <3>3. CASE q # p
        BY <1>0, <2>0, <3>1, <3>3, IntervalFrame
      <3> QED BY <3>2, <3>3
    <2> QED BY <2>1, <2>2
  <1> QED BY <1>1, <1>2, <1>3, <1>4, <1>5

LEMMA IntervalsStep == TypeInv /\ IntervalsKept /\ [Next]_vars => IntervalsKept'
  <1> SUFFICES ASSUME TypeInv, IntervalsKept, [Next]_vars, NEW q \in Peers
               PROVE  IntervalInv(q)'
    BY DEF IntervalsKept
  <1>0. IntervalInv(q)
    BY DEF IntervalsKept
  <1>1. CASE Break \/ UNCHANGED vars
    <2>1. /\ UNCHANGED <<test, dataVars, statusVars, countVars>>
          /\ broken => broken'
      BY <1>1 DEF Break, vars, netVars
    <2> QED BY <1>0, <2>1, IntervalFrame DEF dataVars, statusVars, countVars
  <1> QED BY <1>1, DataIntervals, StatusIntervals DEF Next, Terminated

\* Every packet received is in one interval, recorded or about to be, and the reports
\* add up as long as they fit a u32: swap, report and record of udp_status_loop and of its twin in client.rs
\* lose none and repeat none, but for the interval a server could not report.
THEOREM IntervalsExactHolds == Spec => []IntervalsExact
  <1>1. TypeInv /\ IntervalsKept => IntervalsExact
    BY IntervalsImply
  <1> QED BY <1>1, IntervalsInit, IntervalsStep, TypeInvariant, PTL DEF Spec

-----------------------------------------------------------------------------
(* The status stream *)

\* w is the k-th word of the messages of s.
IsWord(s, k, w) ==
    \A j \in 1 .. Len(s) :
      /\ k = 3 * j - 2 => w = CpuWord(s[j].cpu)
      /\ k = 3 * j - 1 => w = s[j].seq
      /\ k = 3 * j => w = s[j].bytes

\* Words that peer p has taken off the stream, apart from those in its buffer.
Taken(p) == 3 * acted[p].nth + dropped[p]

\* Buffer and stream hold, in order, the words that were sent and not taken.
StreamInv(p) ==
    /\ Taken(p) + Len(status_buf[p]) + Len(stream[p]) = 3 * Len(sent[Other(p)])
    /\ \A i \in 1 .. Len(status_buf[p]) :
         IsWord(sent[Other(p)], Taken(p) + i, status_buf[p][i])
    /\ \A i \in 1 .. Len(stream[p]) :
         IsWord(sent[Other(p)], Taken(p) + Len(status_buf[p]) + i, stream[p][i])

\* How a status message is read: a load of 0 is 128 on the wire, and becomes 100.
Shown(cpu_load) == IF cpu_load = 0 THEN 100 ELSE cpu_load
ReadAs(m) == [cpu |-> Shown(m.cpu), seq |-> m.seq, bytes |-> m.bytes]

\* What p made of three words that end with word number 3 * nth + at of theirs.
Right(msg, nth, at, theirs) ==
    /\ nth >= 1 /\ 3 * nth + at <= 3 * Len(theirs)
    /\ at % 3 = 0 => msg = ReadAs(theirs[nth + at \div 3])
    /\ at % 3 = 1 => msg.bytes = CpuWord(theirs[nth + at \div 3 + 1].cpu)
    /\ at % 3 = 2 => msg.bytes = theirs[nth + at \div 3 + 1].seq

ActedInv(p) ==
    acted[p].at # None =>
      Right(acted[p].msg, acted[p].nth, acted[p].at, sent[Other(p)])

StatusInv == \A p \in Peers : StreamInv(p) /\ ActedInv(p)

\* The arithmetic of the first word.
LEMMA LoadOnTheWire ==
    ASSUME NEW c \in 0 .. 100
    PROVE  /\ (CpuWord(c) \div 256) % 256 = 128 + c
           /\ (128 + c) % 128 = c
  <1>1. c % 128 = c
    OBVIOUS
  <1>2. CpuWord(c) = 7 + 256 * (128 + c)
    BY <1>1 DEF CpuWord
  <1>3. (7 + 256 * (128 + c)) \div 256 = 128 + c
    OBVIOUS
  <1>4. (128 + c) % 256 = 128 + c
    OBVIOUS
  <1>5. (128 + c) % 128 = c
    OBVIOUS
  <1> QED BY <1>2, <1>3, <1>4, <1>5

LEMMA Decoded ==
    ASSUME NEW m \in Statuses, NEW words \in Seq(Nat),
           words[1] = CpuWord(m.cpu), words[2] = m.seq, words[3] = m.bytes
    PROVE  deserialize(words) = ReadAs(m)
  <1> DEFINE raw == (words[1] \div 256) % 256
             cpu == IF raw > 128 THEN raw % 128 ELSE raw
  <1>1. m.cpu \in 0 .. 100
    BY DEF Statuses
  <1>2. raw = 128 + m.cpu /\ (128 + m.cpu) % 128 = m.cpu
    BY <1>1, LoadOnTheWire
  <1>3. cpu = IF m.cpu = 0 THEN 128 ELSE m.cpu
    <2> HIDE DEF raw
    <2> QED BY <1>1, <1>2
  <1>4. deserialize(words) = [cpu |-> Min({cpu, 100}), seq |-> words[2], bytes |-> words[3]]
    BY DEF deserialize
  <1> HIDE DEF cpu
  <1>5. Min({cpu, 100}) = Shown(m.cpu)
    <2>1. CASE m.cpu = 0
      <3>1. Min({128, 100}) = 100
        BY DEF Min
      <3> QED BY <1>3, <2>1, <3>1 DEF Shown
    <2>2. CASE m.cpu # 0
      <3>1. \A c \in 1 .. 100 : Min({c, 100}) = c
        BY DEF Min
      <3>2. cpu = m.cpu /\ m.cpu \in 1 .. 100
        BY <1>1, <1>3, <2>2
      <3>3. Min({m.cpu, 100}) = m.cpu
        BY <3>1, <3>2, Zenon
      <3> QED BY <2>2, <3>2, <3>3 DEF Shown
    <2> QED BY <2>1, <2>2
  <1> QED BY <1>4, <1>5 DEF ReadAs

\* A message that is sent leaves the words before it what they are.
LEMMA WordKept ==
    ASSUME NEW s \in Seq(Statuses), NEW m \in Statuses, NEW k \in Nat, k <= 3 * Len(s),
           NEW w, IsWord(s, k, w)
    PROVE  IsWord(Append(s, m), k, w)
  <1>1. Len(Append(s, m)) = Len(s) + 1 /\ \A j \in 1 .. Len(s) : Append(s, m)[j] = s[j]
    OBVIOUS
  <1> SUFFICES ASSUME NEW j \in 1 .. Len(s) + 1
               PROVE  /\ k = 3 * j - 2 => w = CpuWord(Append(s, m)[j].cpu)
                      /\ k = 3 * j - 1 => w = Append(s, m)[j].seq
                      /\ k = 3 * j => w = Append(s, m)[j].bytes
    BY <1>1 DEF IsWord
  <1>2. CASE j \in 1 .. Len(s)
    BY <1>1, <1>2 DEF IsWord
  <1>3. CASE j = Len(s) + 1
    BY <1>3
  <1> QED BY <1>2, <1>3

LEMMA WordsOfLast ==
    ASSUME NEW s \in Seq(Statuses), NEW m \in Statuses, NEW i \in 1 .. 3
    PROVE  IsWord(Append(s, m), 3 * Len(s) + i, serialize(m)[i])
  <1>1. Len(Append(s, m)) = Len(s) + 1 /\ Append(s, m)[Len(s) + 1] = m
    OBVIOUS
  <1>2. ASSUME NEW j \in 1 .. Len(s) + 1, 3 * Len(s) + i \in {3 * j - 2, 3 * j - 1, 3 * j}
        PROVE  j = Len(s) + 1
    BY <1>2
  <1>3. /\ serialize(m)[1] = CpuWord(m.cpu) /\ serialize(m)[2] = m.seq
        /\ serialize(m)[3] = m.bytes
    BY DEF serialize
  <1>4. ASSUME NEW j \in 1 .. Len(s) + 1
        PROVE  /\ 3 * Len(s) + i = 3 * j - 2 => serialize(m)[i] = CpuWord(Append(s, m)[j].cpu)
               /\ 3 * Len(s) + i = 3 * j - 1 => serialize(m)[i] = Append(s, m)[j].seq
               /\ 3 * Len(s) + i = 3 * j => serialize(m)[i] = Append(s, m)[j].bytes
    <2>1. 3 * Len(s) + i = 3 * j - 2 => j = Len(s) + 1 /\ i = 1
      OBVIOUS
    <2>2. 3 * Len(s) + i = 3 * j - 1 => j = Len(s) + 1 /\ i = 2
      OBVIOUS
    <2>3. 3 * Len(s) + i = 3 * j => j = Len(s) + 1 /\ i = 3
      OBVIOUS
    <2> QED BY <1>1, <1>3, <2>1, <2>2, <2>3
  <1> QED BY <1>1, <1>4 DEF IsWord

LEMMA RightKept ==
    ASSUME NEW s \in Seq(Statuses), NEW m \in Statuses, NEW msg, NEW nth \in Nat,
           NEW at \in Nat, Right(msg, nth, at, s)
    PROVE  Right(msg, nth, at, Append(s, m))
  <1>1. Len(Append(s, m)) = Len(s) + 1 /\ \A j \in 1 .. Len(s) : Append(s, m)[j] = s[j]
    OBVIOUS
  <1>2. nth >= 1 /\ 3 * nth + at <= 3 * Len(s)
    BY DEF Right
  <1>3. at % 3 = 0 => nth + at \div 3 \in 1 .. Len(s)
    BY <1>2
  <1>4. at % 3 \in {1, 2} => nth + at \div 3 + 1 \in 1 .. Len(s)
    BY <1>2
  <1>5. Len(s) \in Nat
    OBVIOUS
  <1> QED BY <1>1, <1>2, <1>3, <1>4, <1>5 DEF Right

\* Three words in a row are what the reader, in step with the stream or not, makes
\* of them.
LEMMA ActsRight ==
    ASSUME NEW s \in Seq(Statuses), NEW words \in Seq(Nat), Len(words) = 3,
           NEW nth \in Nat, NEW at \in Nat, 3 * nth + at + 3 <= 3 * Len(s),
           \A i \in 1 .. 3 : IsWord(s, 3 * nth + at + i, words[i])
    PROVE  Right(deserialize(words), nth + 1, at, s)
  <1> DEFINE j == nth + at \div 3 + 1
  <1>0. Len(s) \in Nat /\ \A x \in 1 .. Len(s) : s[x] \in Statuses
    BY ElementOfSeq
  <1>1. CASE at % 3 = 0
    <2>1. /\ j \in 1 .. Len(s) /\ 3 * nth + at + 1 = 3 * j - 2
          /\ 3 * nth + at + 2 = 3 * j - 1 /\ 3 * nth + at + 3 = 3 * j
      BY <1>0, <1>1
    <2>2. j = nth + 1 + at \div 3
      OBVIOUS
    <2> HIDE DEF j
    <2>w. /\ IsWord(s, 3 * nth + at + 1, words[1])
          /\ IsWord(s, 3 * nth + at + 2, words[2])
          /\ IsWord(s, 3 * nth + at + 3, words[3])
      OBVIOUS
    <2>x. words[1] = CpuWord(s[j].cpu)
      BY <2>1, <2>w DEF IsWord
    <2>y. words[2] = s[j].seq
      BY <2>1, <2>w DEF IsWord
    <2>z. words[3] = s[j].bytes
      BY <2>1, <2>w DEF IsWord
    <2>3. /\ words[1] = CpuWord(s[j].cpu) /\ words[2] = s[j].seq /\ words[3] = s[j].bytes
      BY <2>x, <2>y, <2>z
    <2>4. deserialize(words) = ReadAs(s[j])
      BY <1>0, <2>1, <2>3, Decoded
    <2> QED BY <1>0, <1>1, <2>2, <2>4 DEF Right
  <1>2. CASE at % 3 = 1
    <2>0. at = 3 * (at \div 3) + 1 /\ at \div 3 \in Nat
      BY <1>2
    <2>1. j + 1 \in 1 .. Len(s) /\ 3 * nth + at + 3 = 3 * (j + 1) - 2
      BY <1>0, <2>0
    <2>3. j + 1 = nth + 1 + at \div 3 + 1
      OBVIOUS
    <2> HIDE DEF j
    <2>w. IsWord(s, 3 * nth + at + 3, words[3])
      OBVIOUS
    <2>2. words[3] = CpuWord(s[j + 1].cpu)
      BY <2>1, <2>w DEF IsWord
    <2>4. deserialize(words).bytes = words[3]
      BY DEF deserialize
    <2>5. deserialize(words).bytes = CpuWord(s[(nth + 1) + at \div 3 + 1].cpu)
      BY <2>2, <2>3, <2>4
    <2>6. ~(at % 3 = 0) /\ ~(at % 3 = 2)
      BY <1>2
    <2>7. nth + 1 >= 1 /\ 3 * (nth + 1) + at <= 3 * Len(s)
      BY <1>0
    <2> QED BY <2>5, <2>6, <2>7 DEF Right
  <1>3. CASE at % 3 = 2
    <2>0. at = 3 * (at \div 3) + 2 /\ at \div 3 \in Nat
      BY <1>3
    <2>1. j + 1 \in 1 .. Len(s) /\ 3 * nth + at + 3 = 3 * (j + 1) - 1
      BY <1>0, <2>0
    <2>3. j + 1 = nth + 1 + at \div 3 + 1
      OBVIOUS
    <2> HIDE DEF j
    <2>w. IsWord(s, 3 * nth + at + 3, words[3])
      OBVIOUS
    <2>2. words[3] = s[j + 1].seq
      BY <2>1, <2>w DEF IsWord
    <2>4. deserialize(words).bytes = words[3]
      BY DEF deserialize
    <2> QED BY <1>0, <1>3, <2>2, <2>3, <2>4 DEF Right
  <1> QED BY <1>1, <1>2, <1>3

LEMMA StatusInit == Init => StatusInv
  <1> SUFFICES ASSUME Init, NEW p \in Peers PROVE StreamInv(p) /\ ActedInv(p)
    BY DEF StatusInv
  <1>1. /\ acted[p].at = None /\ acted[p].nth = 0 /\ dropped[p] = 0
        /\ status_buf[p] = <<>> /\ stream[p] = <<>> /\ sent[Other(p)] = <<>>
    BY OtherPeer DEF Init
  <1>2. Len(<<>>) = 0
    OBVIOUS
  <1> QED BY <1>1, <1>2 DEF StreamInv, Taken, ActedInv

LEMMA StatusImplies == TypeInv /\ StatusInv => StatusFaithful
  <1> SUFFICES ASSUME TypeInv, StatusInv, NEW p \in Peers
               PROVE  /\ remote_cpu[p] \in 0 .. 100
                      /\ acted[p].at # None =>
                           LET nth  == acted[p].nth + acted[p].at \div 3
                               theirs == sent[Other(p)]
                           IN  CASE acted[p].at % 3 = 0 ->
                                      SameStatus(acted[p].msg, theirs[nth])
                                 [] acted[p].at % 3 = 1 ->
                                      acted[p].msg.bytes = CpuWord(theirs[nth + 1].cpu)
                                 [] OTHER ->
                                      acted[p].msg.bytes = theirs[nth + 1].seq
    BY DEF StatusFaithful
  <1>1. remote_cpu[p] \in 0 .. 100
    BY DEF TypeInv, StatusTypes
  <1>2. ASSUME acted[p].at # None
        PROVE  LET nth  == acted[p].nth + acted[p].at \div 3
                   theirs == sent[Other(p)]
               IN  CASE acted[p].at % 3 = 0 ->
                          SameStatus(acted[p].msg, theirs[nth])
                     [] acted[p].at % 3 = 1 ->
                          acted[p].msg.bytes = CpuWord(theirs[nth + 1].cpu)
                     [] OTHER ->
                          acted[p].msg.bytes = theirs[nth + 1].seq
    <2>1. Right(acted[p].msg, acted[p].nth, acted[p].at, sent[Other(p)])
      BY <1>2 DEF StatusInv, ActedInv
    <2>2. acted[p].at \in Nat
      <3>1. acted[p] \in Acted
        BY DEF TypeInv, StatusTypes
      <3> QED BY <1>2, <3>1 DEF Acted
    <2>3. acted[p].at % 3 \in {0, 1, 2}
      BY <2>2
    <2>4. CASE acted[p].at % 3 = 0
      BY <2>1, <2>4 DEF Right, ReadAs, Shown, SameStatus
    <2>5. CASE acted[p].at % 3 = 1
      BY <2>1, <2>5 DEF Right
    <2>6. CASE acted[p].at % 3 = 2
      BY <2>1, <2>6 DEF Right
    <2> QED BY <2>3, <2>4, <2>5, <2>6
  <1> QED BY <1>1, <1>2

LEMMA StatusFrame ==
    ASSUME NEW q \in Peers, StreamInv(q), ActedInv(q),
           acted'[q] = acted[q], dropped'[q] = dropped[q], status_buf'[q] = status_buf[q],
           stream'[q] = stream[q], sent'[Other(q)] = sent[Other(q)]
    PROVE  StreamInv(q)' /\ ActedInv(q)'
  BY DEF StreamInv, ActedInv, Taken

\* The words a cancelled read has taken are gone, and counted.
LEMMA TimeoutStatus ==
    ASSUME TypeInv, StatusInv, NEW p \in Peers, NEW q \in Peers, ReadTimeout(p)
    PROVE  StreamInv(q)' /\ ActedInv(q)'
  <1>0. StreamInv(q) /\ ActedInv(q)
    BY DEF StatusInv
  <1>1. /\ dropped' = [dropped EXCEPT ![p] = @ + Len(status_buf[p])]
        /\ status_buf' = [status_buf EXCEPT ![p] = <<>>]
        /\ UNCHANGED <<stream, sent, acted>>
    BY DEF ReadTimeout, netVars
  <1>2. CASE q # p
    BY <1>0, <1>1, <1>2, StatusFrame DEF TypeInv, StatusTypes
  <1>3. CASE q = p
    <2>1. /\ dropped'[q] = dropped[q] + Len(status_buf[q]) /\ status_buf'[q] = <<>>
          /\ Len(<<>>) = 0 /\ Len(status_buf[q]) \in Nat /\ dropped[q] \in Nat
      BY <1>1, <1>3 DEF TypeInv, StatusTypes
    <2>2. acted[q].nth \in Nat
      <3>1. acted[q] \in Acted
        BY DEF TypeInv, StatusTypes
      <3> QED BY <3>1 DEF Acted
    <2>3. Taken(q)' = Taken(q) + Len(status_buf[q]) /\ Taken(q) \in Nat
      <3>1. \A a, b, c \in Nat : 3 * a + (b + c) = 3 * a + b + c /\ 3 * a + b \in Nat
        OBVIOUS
      <3>2. Taken(q)' = 3 * acted[q].nth + (dropped[q] + Len(status_buf[q]))
        BY <1>1, <2>1 DEF Taken
      <3> QED BY <2>1, <2>2, <3>1, <3>2 DEF Taken
    <2>4. ActedInv(q)'
      BY <1>0, <1>1 DEF ActedInv
    <2>5. Len(stream[q]) \in Nat
      BY DEF TypeInv, NetTypes
    <2>6. Taken(q)' + Len(status_buf'[q]) = Taken(q) + Len(status_buf[q])
      BY <2>1, <2>3
    <2>7. StreamInv(q)'
      <3>1. \A i \in 1 .. Len(status_buf'[q]) :
              IsWord(sent'[Other(q)], Taken(q)' + i, status_buf'[q][i])
        BY <2>1
      <3>2. \A i \in 1 .. Len(stream'[q]) :
              IsWord(sent'[Other(q)], Taken(q)' + Len(status_buf'[q]) + i, stream'[q][i])
        BY <1>0, <1>1, <2>6 DEF StreamInv
      <3>3. Taken(q)' + Len(status_buf'[q]) + Len(stream'[q]) = 3 * Len(sent'[Other(q)])
        BY <1>0, <1>1, <2>6 DEF StreamInv
      <3> QED BY <3>1, <3>2, <3>3 DEF StreamInv
    <2> QED BY <2>4, <2>7
  <1> QED BY <1>2, <1>3

\* The word at the head of the stream is the next one of the buffer.
LEMMA ReadStatus ==
    ASSUME TypeInv, StatusInv, NEW p \in Peers, NEW q \in Peers, ReadWord(p)
    PROVE  StreamInv(q)' /\ ActedInv(q)'
  <1>0. StreamInv(q) /\ ActedInv(q)
    BY DEF StatusInv
  <1>1. /\ stream[p] # <<>> /\ stream' = [stream EXCEPT ![p] = Tail(@)]
        /\ UNCHANGED <<sent, dropped>>
    BY DEF ReadWord
  <1> DEFINE words == Append(status_buf[p], Head(stream[p]))
  <1>2. CASE q # p
    BY <1>0, <1>1, <1>2, StatusFrame DEF ReadWord, TypeInv, StatusTypes, NetTypes
  <1>3. CASE q = p
    <2> DEFINE theirs == sent[Other(p)]
               n == Len(status_buf[p])
    <2>1. /\ stream[p] \in Seq(Nat) /\ status_buf[p] \in Seq(Nat) /\ n \in Nat /\ n < 3
          /\ dropped[p] \in Nat /\ acted[p].nth \in Nat /\ theirs \in Seq(Statuses)
      <3>1. acted[p] \in Acted
        BY DEF TypeInv, StatusTypes
      <3> QED BY <3>1, OtherPeer DEF TypeInv, NetTypes, StatusTypes, Acted
    <2>2. /\ Head(stream[p]) = stream[p][1] /\ Head(stream[p]) \in Nat
          /\ Len(Tail(stream[p])) = Len(stream[p]) - 1 /\ Len(stream[p]) \in Nat
          /\ Len(stream[p]) >= 1
          /\ \A i \in 1 .. Len(stream[p]) - 1 : Tail(stream[p])[i] = stream[p][i + 1]
      BY <1>1, <2>1
    <2>3. /\ words \in Seq(Nat) /\ Len(words) = n + 1 /\ words[n + 1] = Head(stream[p])
          /\ \A i \in 1 .. n : words[i] = status_buf[p][i]
      BY <2>1, <2>2
    <2>4. Taken(p) \in Nat
      BY <2>1 DEF Taken
    <2>e. Taken(p) = 3 * acted[p].nth + dropped[p]
      BY DEF Taken
    <2>5. /\ Taken(p) + n + Len(stream[p]) = 3 * Len(theirs)
          /\ \A i \in 1 .. n : IsWord(theirs, Taken(p) + i, status_buf[p][i])
          /\ \A i \in 1 .. Len(stream[p]) : IsWord(theirs, Taken(p) + n + i, stream[p][i])
      BY <1>0, <1>3 DEF StreamInv
    <2> HIDE DEF words, theirs, n
    <2>6. \A i \in 1 .. n + 1 : IsWord(theirs, Taken(p) + i, words[i])
      <3>1. IsWord(theirs, Taken(p) + n + 1, words[n + 1])
        BY <2>2, <2>3, <2>5
      <3>2. Taken(p) + n + 1 = Taken(p) + (n + 1)
        BY <2>1, <2>4
      <3>3. \A i \in 1 .. n + 1 : i \in 1 .. n \/ i = n + 1
        BY <2>1
      <3> QED BY <2>3, <2>5, <3>1, <3>2, <3>3
    <2>7. \A i \in 1 .. Len(stream[p]) - 1 :
            IsWord(theirs, Taken(p) + (n + 1) + i, Tail(stream[p])[i])
      <3> SUFFICES ASSUME NEW i \in 1 .. Len(stream[p]) - 1
                   PROVE  IsWord(theirs, Taken(p) + (n + 1) + i, Tail(stream[p])[i])
        OBVIOUS
      <3>1. i + 1 \in 1 .. Len(stream[p]) /\ Taken(p) + n + (i + 1) = Taken(p) + (n + 1) + i
        <4>1. n \in Nat /\ Len(stream[p]) \in Nat
          BY <2>1, <2>2
        <4> QED BY <2>4, <4>1
      <3>2. IsWord(theirs, Taken(p) + n + (i + 1), stream[p][i + 1])
        BY <2>5, <3>1
      <3> QED BY <2>2, <3>1, <3>2
    <2>8. stream'[p] = Tail(stream[p]) /\ sent'[Other(p)] = theirs /\ dropped'[p] = dropped[p]
      BY <1>1 DEF theirs, TypeInv, NetTypes
    <2>9. CASE n + 1 < 3
      <3>1. status_buf'[p] = words /\ acted' = acted
        <4>1. Len(words) < 3
          BY <2>3, <2>9
        <4>2. status_buf' = [status_buf EXCEPT ![p] = words] /\ acted' = acted
          BY <4>1 DEF ReadWord, words
        <4> QED BY <4>2 DEF TypeInv, StatusTypes
      <3>2. Taken(p)' = Taken(p)
        BY <2>8, <3>1 DEF Taken
      <3>3. Taken(p) + (n + 1) + (Len(stream[p]) - 1) = 3 * Len(theirs)
        BY <2>1, <2>2, <2>4, <2>5
      <3>4. StreamInv(p)'
        BY <2>2, <2>3, <2>6, <2>7, <2>8, <3>1, <3>2, <3>3 DEF StreamInv
      <3>5. ActedInv(p)'
        BY <1>0, <1>3, <2>8, <3>1 DEF ActedInv, theirs
      <3> QED BY <1>3, <3>4, <3>5
    <2>10. CASE n + 1 = 3
      <3>1. /\ status_buf'[p] = <<>> /\ Len(<<>>) = 0
            /\ acted'[p] = [at |-> dropped[p], nth |-> acted[p].nth + 1,
                            msg |-> deserialize(words)]
        <4>1. ~(Len(words) < 3)
          BY <2>3, <2>10
        <4>2. /\ status_buf' = [status_buf EXCEPT ![p] = <<>>]
              /\ acted' = [acted EXCEPT ![p] = [at |-> dropped[p], nth |-> @.nth + 1,
                                               msg |-> deserialize(words)]]
          BY <4>1 DEF ReadWord, words
        <4> QED BY <4>2 DEF TypeInv, StatusTypes
      <3>2. Taken(p)' = Taken(p) + 3
        BY <2>1, <2>8, <3>1 DEF Taken
      <3>3. Taken(p) + 3 + (Len(stream[p]) - 1) = 3 * Len(theirs)
        <4>1. Taken(p) + n + Len(stream[p]) = 3 * Len(theirs) /\ Len(stream[p]) \in Nat
          BY <2>2, <2>5
        <4>2. n = 2
          BY <2>1, <2>10
        <4>3. \A t, l \in Nat : t + 3 + (l - 1) = t + 2 + l
          OBVIOUS
        <4> QED BY <2>4, <4>1, <4>2, <4>3
      <3>4. StreamInv(p)'
        <4>1. \A i \in 1 .. Len(status_buf'[p]) :
                IsWord(sent'[Other(p)], Taken(p)' + i, status_buf'[p][i])
          BY <3>1
        <4>2. Taken(p)' + Len(status_buf'[p]) = Taken(p) + (n + 1)
          BY <2>4, <2>10, <3>1, <3>2
        <4>3. \A i \in 1 .. Len(stream'[p]) :
                IsWord(sent'[Other(p)], Taken(p)' + Len(status_buf'[p]) + i, stream'[p][i])
          BY <2>2, <2>7, <2>8, <4>2
        <4>4. Taken(p)' + Len(status_buf'[p]) + Len(stream'[p]) = 3 * Len(sent'[Other(p)])
          BY <2>2, <2>8, <2>10, <3>3, <4>2
        <4> QED BY <4>1, <4>3, <4>4 DEF StreamInv
      <3>5. ActedInv(p)'
        <4>1. \A i \in 1 .. 3 : IsWord(theirs, 3 * acted[p].nth + dropped[p] + i, words[i])
          BY <2>e, <2>6, <2>10
        <4>2. 3 * acted[p].nth + dropped[p] + 3 <= 3 * Len(theirs)
          BY <2>1, <2>2, <2>4, <2>e, <3>3
        <4>3. Right(deserialize(words), acted[p].nth + 1, dropped[p], theirs)
          BY <2>1, <2>3, <2>10, <4>1, <4>2, ActsRight
        <4> QED BY <2>8, <3>1, <4>3 DEF ActedInv
      <3> QED BY <1>3, <3>4, <3>5
    <2> QED BY <2>1, <2>9, <2>10
  <1> QED BY <1>2, <1>3

\* A message that is sent adds its three words to the stream of the other peer.
LEMMA SendsStatus ==
    ASSUME TypeInv, StatusInv, NEW p \in Peers, NEW q \in Peers,
           NEW cpu_load \in CpuLoads, SendStatus(p, cpu_load)
    PROVE  StreamInv(q)' /\ ActedInv(q)'
  <1>0. StreamInv(q) /\ ActedInv(q)
    BY DEF StatusInv
  <1> DEFINE m == [cpu |-> cpu_load, seq |-> Len(sent[p]) + 1,
                      bytes |-> report_bytes(p) % U32, counted |-> report_bytes(p)]
  <1>1. /\ sent' = [sent EXCEPT ![p] = Append(@, m)]
        /\ stream' = [stream EXCEPT ![Other(p)] = @ \o serialize(m)]
        /\ UNCHANGED <<status_buf, dropped, acted>>
    BY DEF SendStatus
  <1>2. m \in Statuses
    <2>1. cpu_load \in 0 .. 100
      BY LoadType DEF TypeInv, NetTypes
    <2>2. report_bytes(p) \in Nat /\ Len(sent[p]) + 1 \in Nat
      BY DEF report_bytes, TypeInv, StatusTypes, Intervals
    <2> QED BY <2>1, <2>2, StatusType
  <1> HIDE DEF m
  <1>3. CASE q # Other(p)
    <2>1. Other(q) # p /\ Other(q) \in Peers
      BY <1>3, OtherPeer
    <2> QED BY <1>0, <1>1, <1>3, <2>1, StatusFrame DEF TypeInv, NetTypes, StatusTypes
  <1>4. CASE q = Other(p)
    <2> DEFINE theirs == sent[p]
               n == Taken(q) + Len(status_buf[q])
               l == Len(stream[q])
    <2>1. /\ theirs \in Seq(Statuses) /\ stream[q] \in Seq(Nat) /\ status_buf[q] \in Seq(Nat)
          /\ acted[q].nth \in Nat /\ dropped[q] \in Nat /\ acted[q] \in Acted
      <3>1. acted[q] \in Acted
        BY DEF TypeInv, StatusTypes
      <3> QED BY <3>1 DEF TypeInv, NetTypes, StatusTypes, Acted
    <2>2. /\ Taken(q) \in Nat /\ Len(status_buf[q]) \in Nat /\ l \in Nat /\ n \in Nat
          /\ Len(theirs) \in Nat
      <3>1. Taken(q) \in Nat
        BY <2>1 DEF Taken
      <3>2. Len(status_buf[q]) \in Nat /\ l \in Nat /\ Len(theirs) \in Nat
        BY <2>1
      <3> QED BY <3>1, <3>2
    <2>3. /\ Other(q) = p /\ sent'[p] = Append(theirs, m)
          /\ stream'[q] = stream[q] \o serialize(m) /\ Taken(q)' = Taken(q)
      BY <1>1, <1>4, OtherPeer DEF TypeInv, NetTypes, StatusTypes, Taken
    <2>4. /\ n + l = 3 * Len(theirs)
          /\ \A i \in 1 .. Len(status_buf[q]) : IsWord(theirs, Taken(q) + i, status_buf[q][i])
          /\ \A i \in 1 .. l : IsWord(theirs, n + i, stream[q][i])
      BY <1>0, <2>3 DEF StreamInv
    <2>5. serialize(m) \in Seq(Nat) /\ Len(serialize(m)) = 3
      BY <1>2, Wire
    <2>6. /\ Len(stream[q] \o serialize(m)) = l + 3
          /\ \A i \in 1 .. l + 3 : (stream[q] \o serialize(m))[i] =
               IF i <= l THEN stream[q][i] ELSE serialize(m)[i - l]
      <3> DEFINE s == serialize(m)
      <3>1. stream[q] \in Seq(Nat) /\ s \in Seq(Nat) /\ Len(s) = 3
        BY <2>1, <2>5
      <3> HIDE DEF s
      <3>2. /\ Len(stream[q] \o s) = Len(stream[q]) + Len(s)
            /\ \A i \in 1 .. Len(stream[q]) + Len(s) : (stream[q] \o s)[i] =
                 IF i <= Len(stream[q]) THEN stream[q][i] ELSE s[i - Len(stream[q])]
        BY <3>1, ConcatProperties
      <3> QED BY <3>1, <3>2 DEF s
    <2>7. Len(Append(theirs, m)) = Len(theirs) + 1
      BY <2>1
    <2> HIDE DEF theirs, n, l
    <2>8. \A i \in 1 .. Len(status_buf[q]) :
            IsWord(Append(theirs, m), Taken(q) + i, status_buf[q][i])
      <3> SUFFICES ASSUME NEW i \in 1 .. Len(status_buf[q])
                   PROVE  IsWord(Append(theirs, m), Taken(q) + i, status_buf[q][i])
        OBVIOUS
      <3>1. Taken(q) + i \in Nat /\ Taken(q) + i <= 3 * Len(theirs)
        BY <2>2, <2>4 DEF n
      <3> QED BY <1>2, <2>1, <2>4, <3>1, WordKept
    <2>9. \A i \in 1 .. l + 3 :
            IsWord(Append(theirs, m), n + i, (stream[q] \o serialize(m))[i])
      <3> SUFFICES ASSUME NEW i \in 1 .. l + 3
                   PROVE  IsWord(Append(theirs, m), n + i, (stream[q] \o serialize(m))[i])
        OBVIOUS
      <3>1. CASE i <= l
        <4>1. i \in 1 .. l /\ n + i \in Nat /\ n + i <= 3 * Len(theirs)
          BY <2>2, <2>4, <3>1
        <4>2. IsWord(theirs, n + i, stream[q][i])
          BY <2>4, <4>1
        <4> QED BY <1>2, <2>1, <2>6, <3>1, <4>1, <4>2, WordKept
      <3>2. CASE ~(i <= l)
        <4>1. i - l \in 1 .. 3 /\ 3 * Len(theirs) + (i - l) = n + i
          BY <2>2, <2>4, <3>2
        <4>2. IsWord(Append(theirs, m), 3 * Len(theirs) + (i - l), serialize(m)[i - l])
          BY <1>2, <2>1, <4>1, WordsOfLast
        <4> QED BY <2>6, <3>2, <4>1, <4>2
      <3> QED BY <3>1, <3>2
    <2>10. n + (l + 3) = 3 * (Len(theirs) + 1)
      BY <2>2, <2>4
    <2>11. StreamInv(q)'
      <3>1. n' = n /\ Taken(q)' + Len(status_buf'[q]) = n /\ status_buf'[q] = status_buf[q]
        BY <1>1, <2>3 DEF n
      <3>2. Taken(q)' + Len(status_buf'[q]) + Len(stream'[q]) = 3 * Len(sent'[Other(q)])
        BY <2>3, <2>6, <2>7, <2>10, <3>1
      <3>3. \A i \in 1 .. Len(status_buf'[q]) :
              IsWord(sent'[Other(q)], Taken(q)' + i, status_buf'[q][i])
        BY <2>3, <2>8, <3>1
      <3>4. \A i \in 1 .. Len(stream'[q]) :
              IsWord(sent'[Other(q)], Taken(q)' + Len(status_buf'[q]) + i, stream'[q][i])
        BY <2>3, <2>6, <2>9, <3>1
      <3> QED BY <3>2, <3>3, <3>4 DEF StreamInv
    <2>12. ActedInv(q)'
      <3> SUFFICES ASSUME acted[q].at # None
                   PROVE  Right(acted[q].msg, acted[q].nth, acted[q].at, Append(theirs, m))
        BY <1>1, <2>3 DEF ActedInv
      <3>1. Right(acted[q].msg, acted[q].nth, acted[q].at, theirs)
        BY <1>0, <2>3 DEF ActedInv, theirs
      <3>2. acted[q].at \in Nat
        BY <2>1 DEF Acted
      <3> QED BY <1>2, <2>1, <3>1, <3>2, RightKept
    <2> QED BY <2>11, <2>12
  <1> QED BY <1>3, <1>4

LEMMA StatusStep == TypeInv /\ StatusInv /\ [Next]_vars => StatusInv'
  <1> SUFFICES ASSUME TypeInv, StatusInv, [Next]_vars, NEW q \in Peers
               PROVE  StreamInv(q)' /\ ActedInv(q)'
    BY DEF StatusInv
  <1>0. StreamInv(q) /\ ActedInv(q)
    BY DEF StatusInv
  <1>f. ASSUME UNCHANGED <<stream, status_buf, sent, dropped, acted>>
        PROVE  StreamInv(q)' /\ ActedInv(q)'
    BY <1>0, <1>f, StatusFrame
  <1>1. ASSUME NEW p \in Peers,
               \/ SendPacket(p) \/ LosePacket(p) \/ DuplicatePacket(p)
               \/ \E i \in 1 .. MaxInFlight : ReceivePacket(p, i) \/ ReceiveProbe(p, i)
               \/ TakeInterval(p) \/ SendFails(p) \/ ReadFails(p) \/ Stop(p)
        PROVE  StreamInv(q)' /\ ActedInv(q)'
    BY <1>1, <1>f DEF SendPacket, LosePacket, DuplicatePacket, ReceivePacket, ReceiveProbe,
       TakeInterval, SendFails, ReadFails, Stop, statusVars, netVars
  <1>2. CASE Break \/ UNCHANGED vars
    BY <1>2, <1>f DEF Break, vars, statusVars, netVars
  <1> QED BY <1>1, <1>2, ReadStatus, TimeoutStatus, SendsStatus DEF Next, Terminated

\* A peer acts on the messages that were sent, in order, or, once a cancelled read has
\* taken part of one, on three words that straddle two of them (StatusMessage,
\* the timeout around read_exact in both status loops).
THEOREM StatusFaithfulHolds == Spec => []StatusFaithful
  <1>1. TypeInv /\ StatusInv => StatusFaithful
    BY StatusImplies
  <1> QED BY <1>1, StatusInit, StatusStep, TypeInvariant, PTL DEF Spec

-----------------------------------------------------------------------------
(* Losses *)

\* Quotient and remainder, which the provers do not take apart by themselves when
\* the divisor is not a number.
LEMMA Divided ==
    ASSUME NEW x \in Nat, NEW s \in Nat, s > 0
    PROVE  \E q \in Nat, r \in 0 .. s - 1 :
             x = q * s + r /\ q * s \in Nat /\ r = x % s /\ q = x \div s
  <1>1. PICK q \in Int : x - s * q \in 0 .. s - 1 /\ x - s * q = x % s /\ q = x \div s
    BY SMTT(60)
  <1>2. q \in Nat
    BY <1>1
  <1> DEFINE r == x - s * q
  <1>3. q * s \in Nat /\ s * q = q * s
    BY <1>2
  <1>4. x = q * s + r
    BY <1>3
  <1>5. r \in 0 .. s - 1 /\ r = x % s
    BY <1>1
  <1> HIDE DEF r
  <1> QED BY <1>1, <1>2, <1>3, <1>4, <1>5, Zenon

LEMMA Remainder ==
    ASSUME NEW s \in Nat, s > 0, NEW q \in Nat, NEW r \in 0 .. s - 1
    PROVE  (q * s + r) % s = r
  OBVIOUS

LEMMA Multiples ==
    ASSUME NEW s \in Nat, NEW i \in Nat, NEW j \in Nat, i < j
    PROVE  i * s + s <= j * s /\ i * s \in Nat /\ j * s \in Nat
  <1>1. (j - i - 1) * s \in Nat /\ j * s = i * s + s + (j - i - 1) * s
    OBVIOUS
  <1>2. i * s \in Nat /\ j * s \in Nat
    OBVIOUS
  <1> QED BY <1>1, <1>2

LEMMA Expected ==
    ASSUME NEW a \in Nat, NEW s \in Nat, s > 0
    PROVE  ((a % s) + 1) % s = (a + 1) % s
  <1>1. PICK q \in Nat, r \in 0 .. s - 1 : a % s = r /\ a = q * s + r /\ q * s \in Nat
    BY Divided
  <1>2. CASE r + 1 < s
    <2>1. r + 1 \in 0 .. s - 1 /\ a + 1 = q * s + (r + 1) /\ r + 1 = 0 * s + (r + 1)
      BY <1>1, <1>2
    <2>2. (q * s + (r + 1)) % s = r + 1
      BY <2>1, Remainder
    <2>3. (0 * s + (r + 1)) % s = r + 1
      BY <2>1, Remainder
    <2> QED BY <1>1, <2>1, <2>2, <2>3
  <1>3. CASE r + 1 = s
    <2>1. q + 1 \in Nat /\ 0 \in 0 .. s - 1
      OBVIOUS
    <2>2. a + 1 = (q + 1) * s + 0 /\ r + 1 = 1 * s + 0
      BY <1>1, <1>3
    <2>3. ((q + 1) * s + 0) % s = 0
      BY <2>1, Remainder
    <2>4. (1 * s + 0) % s = 0
      BY <2>1, Remainder
    <2> QED BY <1>1, <2>2, <2>3, <2>4
  <1> QED BY <1>1, <1>2, <1>3

\* What sets the remainders of c and b apart, when c <= b.
LEMMA Remainders ==
    ASSUME NEW c \in Nat, NEW b \in Nat, c <= b, NEW s \in Nat, s > 0
    PROVE  /\ c % s \in 0 .. s - 1 /\ b % s \in 0 .. s - 1
           /\ c \div s = b \div s => (b % s) - (c % s) = b - c
           /\ c \div s # b \div s /\ b - c < s => b % s < c % s
  <1>1. PICK i \in Nat, u \in 0 .. s - 1 :
               c = i * s + u /\ i * s \in Nat /\ u = c % s /\ i = c \div s
    BY Divided
  <1>2. PICK j \in Nat, v \in 0 .. s - 1 :
               b = j * s + v /\ j * s \in Nat /\ v = b % s /\ j = b \div s
    BY Divided
  <1>3. i = j => v - u = b - c
    <2> SUFFICES ASSUME i = j PROVE v - u = b - c
      OBVIOUS
    <2>1. i * s = j * s
      OBVIOUS
    <2> DEFINE m == i * s
               n == j * s
    <2> HIDE DEF m, n
    <2>2. m = n /\ m \in Nat /\ c = m + u /\ b = n + v
      BY <1>1, <1>2, <2>1 DEF m, n
    <2> QED BY <2>2
  <1>4. ASSUME i # j, b - c < s PROVE v < u
    <2> DEFINE m == i * s
               n == j * s
    <2>1. m \in Nat /\ n \in Nat /\ c = m + u /\ b = n + v
      BY <1>1, <1>2
    <2>2. i < j => m + s <= n
      BY Multiples
    <2>3. j < i => n + s <= m
      BY Multiples
    <2> HIDE DEF m, n
    <2>4. m + s <= n \/ n + s <= m
      BY <1>4, <2>2, <2>3
    <2> QED BY <1>4, <2>1, <2>4
  <1> QED BY <1>1, <1>2, <1>3, <1>4, Zenon

\* What a packet that comes after packet a adds to the losses.
LEMMA GapCounts ==
    ASSUME NEW a \in Nat, NEW b \in Nat, a < b
    PROVE  /\ (a + 1) \div SeqSpace = b \div SeqSpace =>
                Gap(a % SeqSpace, b % SeqSpace) = b - (a + 1)
           /\ (a + 1) \div SeqSpace # b \div SeqSpace /\ b - a <= SeqSpace =>
                Gap(a % SeqSpace, b % SeqSpace) = 0
  <1> DEFINE u == (a + 1) % SeqSpace
             v == b % SeqSpace
             same == (a + 1) \div SeqSpace = b \div SeqSpace
  <1>0. SeqSpace \in Nat /\ SeqSpace > 0 /\ a + 1 \in Nat /\ a + 1 <= b
    BY UdpLinkAssumption
  <1>1. /\ u \in 0 .. SeqSpace - 1 /\ v \in 0 .. SeqSpace - 1
        /\ same => v - u = b - (a + 1)
        /\ ~same /\ b - (a + 1) < SeqSpace => v < u
    BY <1>0, Remainders
  <1>2. Gap(a % SeqSpace, v) = IF v > u THEN v - u ELSE 0
    <2>1. a % SeqSpace # None
      BY <1>0 DEF None
    <2>2. ((a % SeqSpace) + 1) % SeqSpace = u
      BY <1>0, Expected
    <2> QED BY <2>1, <2>2 DEF Gap
  <1> HIDE DEF u, v, same
  <1>3. same => Gap(a % SeqSpace, v) = b - (a + 1)
    BY <1>0, <1>1, <1>2
  <1>4. ~same /\ b - a <= SeqSpace => Gap(a % SeqSpace, v) = 0
    BY <1>0, <1>1, <1>2
  <1> QED BY <1>3, <1>4 DEF same, v

\* A duplicate of the last packet adds nothing, unless its number is the largest.
LEMMA DuplicateCounts ==
    ASSUME NEW a \in Nat, (a + 1) % SeqSpace # 0
    PROVE  Gap(a % SeqSpace, a % SeqSpace) = 0
  <1> DEFINE r == a % SeqSpace
  <1>1. r \in 0 .. SeqSpace - 1 /\ SeqSpace \in Nat /\ SeqSpace > 0
    BY UdpLinkAssumption
  <1>2. (r + 1) % SeqSpace # 0
    BY <1>1, Expected
  <1> HIDE DEF r
  <1>3. r + 1 # SeqSpace
    <2>1. SeqSpace % SeqSpace = 0
      BY <1>1
    <2> QED BY <1>2, <2>1
  <1>4. (r + 1) % SeqSpace = r + 1
    BY <1>1, <1>3
  <1> QED BY <1>1, <1>4 DEF Gap, r

\* Before the numbers wrap around, a packet later than the last one and than the
\* latest one adds at least what is missing since the latter.
LEMMA GapBound ==
    ASSUME NEW a \in Nat, NEW m \in Nat, NEW b \in Nat, a <= m, m < b, b < SeqSpace
    PROVE  Gap(a % SeqSpace, b % SeqSpace) >= b - (m + 1)
  <1>0. SeqSpace \in Nat /\ SeqSpace > 0
    BY UdpLinkAssumption
  <1>1. a % SeqSpace = a /\ b % SeqSpace = b /\ (a + 1) % SeqSpace = a + 1
    BY <1>0
  <1>2. Gap(a, b) = IF b > a + 1 THEN b - (a + 1) ELSE 0
    BY <1>1 DEF Gap, None
  <1> QED BY <1>1, <1>2

LEMMA LargestOf ==
    ASSUME NEW T \in SUBSET Nat, T # {}, NEW k \in Nat, \A t \in T : t <= k
    PROVE  \E n \in T : \A t \in T : t <= n
  <1> DEFINE R == {j \in Nat : \E t \in T : j = k - t}
  <1>1. R \in SUBSET Nat /\ R # {}
    <2>1. PICK t \in T : TRUE
      OBVIOUS
    <2>2. k - t \in Nat
      OBVIOUS
    <2> QED BY <2>2
  <1>2. PICK r \in R : \A s \in R : r <= s
    BY <1>1, SmallestOf
  <1>3. PICK n \in T : r = k - n
    BY <1>2
  <1>4. ASSUME NEW t \in T PROVE t <= n
    <2>1. k - t \in R
      OBVIOUS
    <2>2. k - n <= k - t
      BY <1>2, <1>3, <2>1
    <2> QED BY <2>2
  <1> QED BY <1>4

\* m is the largest number of G.
Latest(G, m) == m \in G /\ \A g \in G : g <= m

LEMMA MaxIs ==
    ASSUME NEW T \in SUBSET Nat, NEW m, Latest(T, m)
    PROVE  Max(T) = m
  <1>1. m \in T /\ \A y \in T : m >= y
    BY DEF Latest
  <1>2. \A x \in T : (\A y \in T : x >= y) => x = m
    BY <1>1
  <1> QED BY <1>1, <1>2 DEF Max

LEMMA MinIs ==
    ASSUME NEW T \in SUBSET Nat, NEW m \in T, \A t \in T : m <= t
    PROVE  Min(T) = m
  <1>1. \A y \in T : m <= y
    OBVIOUS
  <1>2. \A x \in T : (\A y \in T : x <= y) => x = m
    BY <1>1
  <1> QED BY <1>1, <1>2 DEF Min

\* The packets that are missing between two of G, apart from those in a gap in which
\* the numbers wrap around.
MissingIn(G) ==
    {n \in Nat : /\ n \notin G
                 /\ \E a, b \in G : a < n /\ n < b
                 /\ ~WrapsInGap(G, n)}

\* A packet later than all the others adds the gap before it.
LEMMA MissingGrows ==
    ASSUME NEW G \in SUBSET Nat, NEW m, Latest(G, m), NEW b \in Nat, m < b
    PROVE  MissingIn(G \cup {b}) =
             MissingIn(G) \cup (IF (m + 1) \div SeqSpace = b \div SeqSpace
                                THEN (m + 1) .. (b - 1) ELSE {})
  <1> DEFINE H == G \cup {b}
             same == (m + 1) \div SeqSpace = b \div SeqSpace
  <1>0. m \in Nat /\ m \in G /\ H \in SUBSET Nat /\ \A g \in G : g <= m
    BY DEF Latest
  <1>h. \A g \in H : g \in Nat /\ (g <= m \/ g = b)
    BY <1>0
  <1>1. ASSUME NEW n \in Nat, n < m, n \notin G
        PROVE  n \in MissingIn(H) <=> n \in MissingIn(G)
    <2>1. n \notin H /\ ((\E x, y \in H : x < n /\ n < y) <=> (\E x, y \in G : x < n /\ n < y))
      BY <1>0, <1>1
    <2>2. {g \in H : g < n} = {g \in G : g < n}
      BY <1>0, <1>1
    <2>3. Min({g \in H : g > n}) = Min({g \in G : g > n})
      <3> DEFINE T == {g \in G : g > n}
                 U == {g \in H : g > n}
      <3>1. T \in SUBSET Nat /\ m \in T /\ U \in SUBSET Nat /\ T \subseteq U
        BY <1>0, <1>1
      <3>2. PICK x \in T : \A t \in T : x <= t
        BY <3>1, SmallestOf
      <3>3. \A t \in U : x <= t
        <4>1. x <= m /\ x < b
          BY <3>1, <3>2, <1>0
        <4> QED BY <3>2, <4>1
      <3>4. Min(T) = x
        BY <3>1, <3>2, MinIs
      <3>5. Min(U) = x
        BY <3>1, <3>3, MinIs
      <3> QED BY <3>4, <3>5
    <2>4. WrapsInGap(H, n) = WrapsInGap(G, n)
      BY <2>2, <2>3 DEF WrapsInGap
    <2> QED BY <1>1, <2>1, <2>4 DEF MissingIn
  <1>2. ASSUME NEW n \in Nat, m < n, n < b
        PROVE  n \notin MissingIn(G) /\ (n \in MissingIn(H) <=> same)
    <2>1. n \notin MissingIn(G)
      BY <1>0, <1>2 DEF MissingIn
    <2>2. n \notin H /\ m \in H /\ b \in H /\ m < n /\ n < b
      BY <1>0, <1>2
    <2>3. Max({g \in H : g < n}) = m
      <3> DEFINE T == {g \in H : g < n}
      <3>1. T \in SUBSET Nat /\ m \in T
        BY <1>0, <1>2
      <3>2. \A g \in T : g <= m
        BY <1>h, <1>2
      <3> HIDE DEF T
      <3>3. Max(T) = m
        BY <3>1, <3>2, MaxIs DEF Latest
      <3> QED BY <3>3 DEF T
    <2>4. Min({g \in H : g > n}) = b
      <3> DEFINE U == {g \in H : g > n}
      <3>1. U \in SUBSET Nat /\ b \in U
        BY <1>0, <1>2
      <3>3. \A t \in U : b <= t
        BY <1>0, <1>h, <1>2
      <3> HIDE DEF U
      <3>2. Min(U) = b
        BY <3>1, <3>3, MinIs
      <3> QED BY <3>2 DEF U
    <2>5. WrapsInGap(H, n) <=> ~same
      BY <2>3, <2>4 DEF WrapsInGap
    <2> QED BY <2>1, <2>2, <2>5 DEF MissingIn
  <1>3. ASSUME NEW n \in Nat, n >= b \/ n \in G
        PROVE  n \notin MissingIn(G) /\ n \notin MissingIn(H)
    BY <1>0, <1>3 DEF MissingIn
  <1>4. MissingIn(G) \in SUBSET Nat /\ MissingIn(H) \in SUBSET Nat
    BY DEF MissingIn
  <1>5. ASSUME NEW n \in Nat
        PROVE  n \in MissingIn(H) <=>
                 n \in MissingIn(G) \/ (same /\ n \in (m + 1) .. (b - 1))
    <2>1. n < m \/ n = m \/ (m < n /\ n < b) \/ n >= b
      BY <1>0
    <2>2. n \in (m + 1) .. (b - 1) <=> m < n /\ n < b
      BY <1>0
    <2>3. CASE n < m
      <3>1. CASE n \in G
        BY <1>0, <1>3, <2>2, <2>3, <3>1
      <3>2. CASE n \notin G
        BY <1>0, <1>1, <2>2, <2>3, <3>2
      <3> QED BY <3>1, <3>2
    <2>4. CASE n = m
      <3>1. n \in G /\ ~(n \in (m + 1) .. (b - 1))
        BY <1>0, <2>4
      <3> QED BY <1>3, <3>1
    <2>5. CASE m < n /\ n < b
      BY <1>2, <2>2, <2>5
    <2>6. CASE n >= b
      <3>1. ~(n \in (m + 1) .. (b - 1))
        BY <1>0, <2>6
      <3> QED BY <1>3, <2>6, <3>1
    <2> QED BY <2>1, <2>3, <2>4, <2>5, <2>6
  <1>6. (m + 1) .. (b - 1) \in SUBSET Nat
    BY <1>0
  <1> HIDE DEF H
  <1>7. MissingIn(H) = MissingIn(G) \cup (IF same THEN (m + 1) .. (b - 1) ELSE {})
    BY <1>4, <1>5, <1>6
  <1> QED BY <1>7 DEF H

LEMMA MissingCount ==
    ASSUME NEW G \in SUBSET Nat, NEW m, Latest(G, m), NEW b \in Nat, m < b
    PROVE  /\ Cardinality(MissingIn(G)) \in Nat
           /\ Cardinality(MissingIn(G \cup {b})) =
                Cardinality(MissingIn(G)) +
                  (IF (m + 1) \div SeqSpace = b \div SeqSpace THEN b - (m + 1) ELSE 0)
  <1> DEFINE M == MissingIn(G)
             gap == (m + 1) .. (b - 1)
  <1>0. m \in Nat /\ \A g \in G : g <= m
    BY DEF Latest
  <1>1. M \in SUBSET Nat /\ \A n \in M : n <= m
    BY <1>0 DEF MissingIn
  <1>2. IsFiniteSet(M) /\ Cardinality(M) \in Nat
    BY <1>0, <1>1, FS_BoundedSetOfNaturals, FS_CardinalityType
  <1>3. IsFiniteSet(gap) /\ Cardinality(gap) = b - (m + 1)
    <2>1. m + 1 \in Int /\ b - 1 \in Int
      BY <1>0
    <2>2. IsFiniteSet(gap) /\ Cardinality(gap) = IF m + 1 > b - 1 THEN 0 ELSE (b - 1) - (m + 1) + 1
      BY <2>1, FS_Interval
    <2> QED BY <1>0, <2>2
  <1>4. M \cap gap = {}
    BY <1>0, <1>1
  <1> HIDE DEF M, gap
  <1>5. Cardinality(M \cup gap) = Cardinality(M) + (b - (m + 1))
    <2>1. Cardinality(M \cup gap) = Cardinality(M) + Cardinality(gap) - Cardinality(M \cap gap)
      BY <1>2, <1>3, FS_Union
    <2>2. Cardinality(M \cap gap) = 0
      BY <1>4, FS_EmptySet
    <2>3. b - (m + 1) \in Nat
      BY <1>0
    <2> QED BY <1>2, <1>3, <2>1, <2>2, <2>3
  <1>6. CASE (m + 1) \div SeqSpace = b \div SeqSpace
    <2>1. MissingIn(G \cup {b}) = M \cup gap
      BY <1>6, MissingGrows DEF M, gap
    <2> QED BY <1>2, <1>5, <1>6, <2>1 DEF M
  <1>7. CASE (m + 1) \div SeqSpace # b \div SeqSpace
    <2>1. MissingIn(G \cup {b}) = M
      BY <1>7, MissingGrows DEF M, gap
    <2> QED BY <1>2, <1>7, <2>1 DEF M
  <1> QED BY <1>6, <1>7

\* The packets between f and the latest one that have not arrived, when one more has.
LEMMA BehindCount ==
    ASSUME NEW G \in SUBSET Nat, NEW f \in G, NEW m, Latest(G, m), NEW b \in Nat
    PROVE  /\ Cardinality((f .. m) \ G) \in Nat
           /\ Cardinality((f .. m) \ (G \cup {b})) <= Cardinality((f .. m) \ G)
           /\ m < b => Cardinality((f .. b) \ (G \cup {b})) =
                         Cardinality((f .. m) \ G) + (b - (m + 1))
  <1> DEFINE A == (f .. m) \ G
             gap == (m + 1) .. (b - 1)
  <1>0. m \in Nat /\ f \in Nat /\ f <= m /\ \A g \in G : g <= m
    BY DEF Latest
  <1>1. IsFiniteSet(A) /\ Cardinality(A) \in Nat
    <2>1. IsFiniteSet(f .. m)
      BY <1>0, FS_Interval
    <2>2. A \in SUBSET (f .. m)
      OBVIOUS
    <2> HIDE DEF A
    <2> QED BY <2>1, <2>2, FS_Subset, FS_CardinalityType
  <1>2. Cardinality((f .. m) \ (G \cup {b})) <= Cardinality(A)
    <2>1. (f .. m) \ (G \cup {b}) \in SUBSET A
      OBVIOUS
    <2> QED BY <1>1, <2>1, FS_Subset
  <1>3. ASSUME m < b
        PROVE  Cardinality((f .. b) \ (G \cup {b})) = Cardinality(A) + (b - (m + 1))
    <2>1. IsFiniteSet(gap) /\ Cardinality(gap) = b - (m + 1)
      <3>1. m + 1 \in Int /\ b - 1 \in Int
        BY <1>0
      <3>2. /\ IsFiniteSet(gap)
            /\ Cardinality(gap) = IF m + 1 > b - 1 THEN 0 ELSE (b - 1) - (m + 1) + 1
        BY <3>1, FS_Interval
      <3> QED BY <1>0, <1>3, <3>2
    <2>2. A \cap gap = {}
      BY <1>0
    <2>3. (f .. b) \ (G \cup {b}) = A \cup gap
      BY <1>0, <1>3
    <2> HIDE DEF A, gap
    <2>4. Cardinality(A \cup gap) = Cardinality(A) + Cardinality(gap) - Cardinality(A \cap gap)
      BY <1>1, <2>1, FS_Union
    <2>5. Cardinality(A \cap gap) = 0
      BY <2>2, FS_EmptySet
    <2>6. b - (m + 1) \in Nat
      BY <1>0, <1>3
    <2>7. Cardinality(A \cup gap) = Cardinality(A) + (b - (m + 1))
      BY <1>1, <2>1, <2>4, <2>5, <2>6
    <2> QED BY <2>3, <2>7, Zenon
  <1> QED BY <1>1, <1>2, <1>3, Zenon DEF A

\* The packets on their way have been sent.  On a path that keeps the order they are
\* in order, and no earlier than those that have arrived.
InOrder(s) == \A i, j \in DOMAIN s : i <= j => s[i] <= s[j]
Below(s, k) == \A i \in DOMAIN s : s[i] < k
After(s, G) == \A g \in G : \A i \in DOMAIN s : g <= s[i]

NetInv(p) ==
    /\ Below(net[Other(p)], seq[Other(p)])
    /\ test.in_order => InOrder(net[Other(p)]) /\ After(net[Other(p)], got[p])

\* What the receiver remembers belongs to packets that have arrived.
GotInv(p) ==
    /\ \A g \in got[p] : g < seq[Other(p)]
    /\ Cardinality(got[p]) <= received[p]
    /\ got[p] = {} => last_seq[p] = None /\ first[p] = None
    /\ got[p] # {} => first[p] \in got[p] /\ \E g \in got[p] : last_seq[p] = g % SeqSpace
    /\ test.in_order => \A m : Latest(got[p], m) => last_seq[p] = m % SeqSpace

\* The two counts of LossCounted.
ExactInv(p) ==
    test.in_order /\ ~DuplicateAtWrap(p) /\ ~SpaceLost(p) =>
      Lost(p) = Cardinality(MissingIn(got[p]))

BoundInv(p) ==
    seq[Other(p)] <= SeqSpace =>
      \A m : Latest(got[p], m) => Lost(p) >= Cardinality((first[p] .. m) \ got[p])

LossInv(p) == NetInv(p) /\ GotInv(p) /\ ExactInv(p) /\ BoundInv(p)

LossesKept == \A p \in Peers : LossInv(p)

LEMMA LostType ==
    ASSUME TypeInv, NEW p \in Peers
    PROVE  Lost(p) \in Nat
  BY DEF TypeInv, CountTypes, StatusTypes, Intervals, Lost

LEMMA HasLatest ==
    ASSUME TypeInv, NEW p \in Peers, GotInv(p), got[p] # {}
    PROVE  \E m \in Nat : Latest(got[p], m) /\ Max(got[p]) = m
  <1>1. got[p] \in SUBSET Nat /\ seq[Other(p)] \in Nat
    BY OtherPeer DEF TypeInv, DataTypes
  <1>2. \A g \in got[p] : g <= seq[Other(p)]
    BY <1>1 DEF GotInv
  <1>3. PICK m \in got[p] : \A g \in got[p] : g <= m
    BY <1>1, <1>2, LargestOf
  <1>4. Latest(got[p], m) /\ m \in Nat
    BY <1>1, <1>3 DEF Latest
  <1> QED BY <1>1, <1>4, MaxIs

LEMMA LossesImply == TypeInv /\ LossesKept => LossCounted
  <1> SUFFICES ASSUME TypeInv, LossesKept, NEW p \in Peers
               PROVE  /\ test.in_order /\ ~DuplicateAtWrap(p) /\ ~SpaceLost(p) =>
                           Lost(p) = Cardinality({n \in 0 .. seq[Other(p)] :
                                                    /\ n \notin got[p]
                                                    /\ \E a, b \in got[p] : a < n /\ n < b
                                                    /\ ~WrapsInGap(got[p], n)})
                      /\ seq[Other(p)] <= SeqSpace /\ got[p] # {} =>
                           Lost(p) >= Cardinality(first[p] .. Max(got[p]) \ got[p])
    BY DEF LossCounted
  <1>0. GotInv(p) /\ ExactInv(p) /\ BoundInv(p)
    BY DEF LossesKept, LossInv
  <1>1. got[p] \in SUBSET Nat /\ seq[Other(p)] \in Nat
    BY OtherPeer DEF TypeInv, DataTypes
  <1>2. {n \in 0 .. seq[Other(p)] : /\ n \notin got[p]
                                    /\ \E a, b \in got[p] : a < n /\ n < b
                                    /\ ~WrapsInGap(got[p], n)} = MissingIn(got[p])
    <2>1. ASSUME NEW n \in Nat, NEW b \in got[p], n < b PROVE n \in 0 .. seq[Other(p)]
      BY <1>0, <1>1, <2>1 DEF GotInv
    <2> QED BY <1>1, <2>1 DEF MissingIn
  <1>3. test.in_order /\ ~DuplicateAtWrap(p) /\ ~SpaceLost(p) =>
          Lost(p) = Cardinality(MissingIn(got[p]))
    BY <1>0 DEF ExactInv
  <1>4. ASSUME seq[Other(p)] <= SeqSpace, got[p] # {}
        PROVE  Lost(p) >= Cardinality(first[p] .. Max(got[p]) \ got[p])
    <2>1. PICK m \in Nat : Latest(got[p], m) /\ Max(got[p]) = m
      BY <1>0, <1>4, HasLatest
    <2>2. Lost(p) >= Cardinality((first[p] .. m) \ got[p])
      BY <1>0, <1>4, <2>1 DEF BoundInv
    <2> QED BY <2>1, <2>2
  <1> QED BY <1>2, <1>3, <1>4, Zenon

LEMMA LossesInit == Init => LossesKept
  <1> SUFFICES ASSUME Init, NEW p \in Peers PROVE LossInv(p)
    BY DEF LossesKept
  <1>1. /\ net[Other(p)] = <<Probe>> \/ net[Other(p)] = <<>>
        /\ seq[Other(p)] = 0 /\ got[p] = {} /\ received[p] = 0
        /\ last_seq[p] = None /\ first[p] = None /\ Lost(p) = 0
    BY OtherPeer DEF Init, Lost, Nothing
  <1>2. NetInv(p)
    BY <1>1 DEF NetInv, Below, InOrder, After, Probe
  <1>3. GotInv(p)
    BY <1>1, FS_EmptySet DEF GotInv, Latest
  <1>4. MissingIn(got[p]) = {}
    BY <1>1 DEF MissingIn
  <1>5. ExactInv(p)
    BY <1>1, <1>4, FS_EmptySet DEF ExactInv
  <1>6. BoundInv(p)
    BY <1>1 DEF BoundInv, Latest
  <1> QED BY <1>2, <1>3, <1>5, <1>6 DEF LossInv

\* A step that leaves what has arrived and the losses counted alone.
LEMMA LossFrame ==
    ASSUME TypeInv, TypeInv', NEW p \in Peers, LossInv(p), test' = test, NetInv(p)',
           seq[Other(p)] <= seq'[Other(p)], got'[p] = got[p],
           received'[p] = received[p], last_seq'[p] = last_seq[p],
           first'[p] = first[p], Lost(p)' = Lost(p)
    PROVE  LossInv(p)'
  <1>0. seq[Other(p)] \in Nat /\ seq'[Other(p)] \in Nat /\ got[p] \in SUBSET Nat
        /\ SeqSpace \in Nat
    BY OtherPeer, UdpLinkAssumption DEF TypeInv, DataTypes
  <1>1. GotInv(p)'
    <2>1. \A g \in got[p] : g < seq'[Other(p)]
      BY <1>0 DEF LossInv, GotInv
    <2> QED BY <2>1 DEF LossInv, GotInv
  <1>2. ExactInv(p)'
    BY DEF LossInv, ExactInv, DuplicateAtWrap, SpaceLost
  <1>3. BoundInv(p)'
    <2>1. seq'[Other(p)] <= SeqSpace => seq[Other(p)] <= SeqSpace
      BY <1>0
    <2> QED BY <2>1 DEF LossInv, BoundInv
  <1> QED BY <1>1, <1>2, <1>3 DEF LossInv

\* Packets drawn from a sequence in its order keep what holds of the sequence.
LEMMA Drawn ==
    ASSUME NEW s, NEW t, NEW at \in [DOMAIN t -> DOMAIN s], NEW k, NEW G,
           \A j \in DOMAIN t : t[j] = s[at[j]],
           \A i, j \in DOMAIN t : i <= j => at[i] <= at[j]
    PROVE  /\ Below(s, k) => Below(t, k)
           /\ InOrder(s) => InOrder(t)
           /\ After(s, G) => After(t, G)
  <1>1. Below(s, k) => Below(t, k)
    BY DEF Below
  <1>2. InOrder(s) => InOrder(t)
    BY DEF InOrder
  <1>3. After(s, G) => After(t, G)
    BY DEF After
  <1> QED BY <1>1, <1>2, <1>3

\* The network loses or duplicates a packet.
LEMMA NetChanges ==
    ASSUME NEW s \in Seq(Packets), NEW k, NEW G, NEW i \in DOMAIN s,
           NEW t \in {RemoveAt(s, i), InsertAt(s, i, s[i])}
    PROVE  /\ Below(s, k) => Below(t, k)
           /\ InOrder(s) => InOrder(t)
           /\ After(s, G) => After(t, G)
  <1>0. DOMAIN s = 1 .. Len(s) /\ Len(s) \in Nat /\ i \in 1 .. Len(s)
    OBVIOUS
  <1>1. CASE t = RemoveAt(s, i)
    <2>1. /\ t \in Seq(Packets) /\ Len(t) = Len(s) - 1
          /\ \A j \in 1 .. Len(s) - 1 : t[j] = IF j < i THEN s[j] ELSE s[j + 1]
      BY <1>0, <1>1, RemoveAtElements
    <2>2. DOMAIN t = 1 .. Len(s) - 1
      BY <2>1
    <2> DEFINE at == [j \in 1 .. Len(s) - 1 |-> IF j < i THEN j ELSE j + 1]
    <2>3. at \in [DOMAIN t -> DOMAIN s]
      BY <1>0, <2>2
    <2>4. \A j \in DOMAIN t : t[j] = s[at[j]]
      BY <2>1, <2>2
    <2>5. \A h, j \in DOMAIN t : h <= j => at[h] <= at[j]
      BY <1>0, <2>2
    <2> HIDE DEF at
    <2> QED BY <2>3, <2>4, <2>5, Drawn
  <1>2. CASE t = InsertAt(s, i, s[i])
    <2>1. /\ t \in Seq(Packets) /\ Len(t) = Len(s) + 1
          /\ \A j \in 1 .. Len(s) + 1 : t[j] = IF j <= i THEN s[j] ELSE s[j - 1]
      BY <1>0, <1>2, InsertAtElements
    <2>2. DOMAIN t = 1 .. Len(s) + 1
      BY <2>1
    <2> DEFINE at == [j \in 1 .. Len(s) + 1 |-> IF j <= i THEN j ELSE j - 1]
    <2>3. at \in [DOMAIN t -> DOMAIN s]
      BY <1>0, <2>2
    <2>4. \A j \in DOMAIN t : t[j] = s[at[j]]
      BY <2>1, <2>2
    <2>5. \A h, j \in DOMAIN t : h <= j => at[h] <= at[j]
      BY <1>0, <2>2
    <2> HIDE DEF at
    <2> QED BY <2>3, <2>4, <2>5, Drawn
  <1> QED BY <1>1, <1>2

\* The sender adds a packet.
LEMMA NetGrows ==
    ASSUME NEW s \in Seq(Packets), NEW k \in Nat, NEW G \in SUBSET Nat, Below(s, k)
    PROVE  /\ Below(Append(s, k), k + 1)
           /\ InOrder(s) => InOrder(Append(s, k))
           /\ After(s, G) /\ (\A g \in G : g < k) => After(Append(s, k), G)
  <1>0. /\ DOMAIN s = 1 .. Len(s) /\ Len(s) \in Nat
        /\ \A i \in 1 .. Len(s) : s[i] \in Int /\ s[i] < k
    <2>1. \A i \in 1 .. Len(s) : s[i] \in Packets
      BY ElementOfSeq
    <2> QED BY <2>1 DEF Packets, Probe, Below
  <1> DEFINE t == Append(s, k)
  <1>1. /\ DOMAIN t = 1 .. Len(s) + 1
        /\ \A j \in 1 .. Len(s) + 1 : t[j] = IF j <= Len(s) THEN s[j] ELSE k
    OBVIOUS
  <1> HIDE DEF t
  <1>2. Below(t, k + 1)
    BY <1>0, <1>1 DEF Below
  <1>3. InOrder(s) => InOrder(t)
    BY <1>0, <1>1 DEF InOrder
  <1>4. After(s, G) /\ (\A g \in G : g < k) => After(t, G)
    BY <1>0, <1>1 DEF After
  <1> QED BY <1>2, <1>3, <1>4 DEF t

\* The receiver takes the first packet.
LEMMA HeadTaken ==
    ASSUME NEW s \in Seq(Packets), 1 \in DOMAIN s, InOrder(s)
    PROVE  After(RemoveAt(s, 1), {s[1]})
  <1> DEFINE t == RemoveAt(s, 1)
  <1>0. DOMAIN s = 1 .. Len(s) /\ Len(s) \in Nat /\ 1 \in 1 .. Len(s)
    OBVIOUS
  <1>1. /\ t \in Seq(Packets) /\ Len(t) = Len(s) - 1
        /\ \A j \in 1 .. Len(s) - 1 : t[j] = IF j < 1 THEN s[j] ELSE s[j + 1]
    BY <1>0, RemoveAtElements
  <1> HIDE DEF t
  <1>2. DOMAIN t = 1 .. Len(s) - 1
    BY <1>1
  <1>3. ASSUME NEW j \in DOMAIN t PROVE s[1] <= t[j]
    <2>1. t[j] = s[j + 1] /\ j + 1 \in DOMAIN s /\ 1 <= j + 1
      BY <1>0, <1>1, <1>2
    <2> QED BY <1>0, <2>1 DEF InOrder
  <1> QED BY <1>3 DEF After, t

LEMMA NetLosses ==
    ASSUME TypeInv, TypeInv', LossesKept, NEW r \in Peers, NEW p \in Peers,
           \/ SendPacket(r) \/ LosePacket(r) \/ DuplicatePacket(r)
           \/ \E i \in 1 .. MaxInFlight : ReceiveProbe(r, i)
    PROVE  LossInv(p)'
  <1> DEFINE o == Other(p)
  <1>0. LossInv(p) /\ NetInv(p) /\ GotInv(p)
    BY DEF LossesKept, LossInv
  <1>1. o \in Peers /\ net[o] \in Seq(Packets) /\ seq[o] \in Nat /\ got[p] \in SUBSET Nat
        /\ net \in [Peers -> Seq(Packets)] /\ seq \in [Peers -> Nat]
    BY OtherPeer DEF TypeInv, NetTypes, DataTypes
  <1>2. /\ Below(net[o], seq[o])
        /\ test.in_order => InOrder(net[o]) /\ After(net[o], got[p])
        /\ \A g \in got[p] : g < seq[o]
    BY <1>0 DEF NetInv, GotInv
  <1>3. CASE SendPacket(r)
    <2>1. /\ net' = [net EXCEPT ![r] = Append(@, seq[r])]
          /\ seq' = [seq EXCEPT ![r] = @ + 1]
          /\ UNCHANGED <<test, got, received, last_seq, first, held, rx_lost_packets,
                         total_lost_packets>>
      BY <1>3 DEF SendPacket, statusVars
    <2>2. Lost(p)' = Lost(p)
      BY <2>1 DEF Lost
    <2>3. CASE r # o
      <3>1. net'[o] = net[o] /\ seq'[o] = seq[o]
        BY <1>1, <2>1, <2>3
      <3>2. NetInv(p)' /\ seq[o] <= seq'[o]
        BY <1>1, <1>2, <2>1, <3>1 DEF NetInv
      <3> QED BY <1>0, <2>1, <2>2, <3>2, LossFrame
    <2>4. CASE r = o
      <3>1. net'[o] = Append(net[o], seq[o]) /\ seq'[o] = seq[o] + 1
        BY <1>1, <2>1, <2>4
      <3>2. /\ Below(Append(net[o], seq[o]), seq[o] + 1)
            /\ InOrder(net[o]) => InOrder(Append(net[o], seq[o]))
            /\ After(net[o], got[p]) => After(Append(net[o], seq[o]), got[p])
        BY <1>1, <1>2, NetGrows
      <3>3. NetInv(p)'
        BY <1>2, <2>1, <3>1, <3>2 DEF NetInv
      <3>4. seq[o] <= seq'[o]
        BY <1>1, <3>1
      <3> QED BY <1>0, <2>1, <2>2, <3>3, <3>4, LossFrame
    <2> QED BY <2>3, <2>4
  <1>4. CASE \/ LosePacket(r) \/ DuplicatePacket(r)
             \/ \E i \in 1 .. MaxInFlight : ReceiveProbe(r, i)
    <2>1. UNCHANGED <<test, seq, got, received, last_seq, first, held, rx_lost_packets,
                      total_lost_packets>>
      BY <1>4 DEF LosePacket, DuplicatePacket, ReceiveProbe, dataVars, statusVars, countVars
    <2>2. Lost(p)' = Lost(p)
      BY <2>1 DEF Lost
    <2>3. PICK q \in Peers : \E i \in DOMAIN net[q] :
            \E t \in {RemoveAt(net[q], i), InsertAt(net[q], i, net[q][i])} :
              net' = [net EXCEPT ![q] = t]
      BY <1>4, OtherPeer DEF LosePacket, DuplicatePacket, ReceiveProbe, Deliver
    <2>0. PICK i \in DOMAIN net[q] :
            \E t \in {RemoveAt(net[q], i), InsertAt(net[q], i, net[q][i])} :
              net' = [net EXCEPT ![q] = t]
      BY <2>3
    <2>4. PICK t \in {RemoveAt(net[q], i), InsertAt(net[q], i, net[q][i])} :
            net' = [net EXCEPT ![q] = t]
      BY <2>0
    <2>5. CASE q # o
      <3>1. net'[o] = net[o]
        BY <1>1, <2>4, <2>5
      <3>2. NetInv(p)' /\ seq[o] <= seq'[o]
        BY <1>1, <1>2, <2>1, <3>1 DEF NetInv
      <3> QED BY <1>0, <2>1, <2>2, <3>2, LossFrame
    <2>6. CASE q = o
      <3>1. net'[o] = t
        BY <1>1, <2>4, <2>6
      <3>2. /\ Below(net[o], seq[o]) => Below(t, seq[o])
            /\ InOrder(net[o]) => InOrder(t)
            /\ After(net[o], got[p]) => After(t, got[p])
        BY <1>1, <2>6, NetChanges
      <3>3. NetInv(p)' /\ seq[o] <= seq'[o]
        BY <1>1, <1>2, <2>1, <3>1, <3>2 DEF NetInv
      <3> QED BY <1>0, <2>1, <2>2, <3>3, LossFrame
    <2> QED BY <2>5, <2>6
  <1> QED BY <1>3, <1>4

\* The latest packet, when one more arrives.
LEMMA LatestGrows ==
    ASSUME NEW G \in SUBSET Nat, NEW n \in Nat, NEW m, Latest(G, m)
    PROVE  /\ m \in Nat
           /\ n <= m => \A k : Latest(G \cup {n}, k) => k = m
           /\ m < n => \A k : Latest(G \cup {n}, k) => k = n
  <1>1. m \in Nat /\ m \in G /\ \A g \in G : g <= m
    BY DEF Latest
  <1>2. ASSUME NEW k, Latest(G \cup {n}, k)
        PROVE  k \in Nat /\ m <= k /\ n <= k /\ (k <= m \/ k = n)
    <2>1. k \in G \cup {n} /\ \A g \in G \cup {n} : g <= k
      BY <1>2 DEF Latest
    <2> QED BY <1>1, <2>1
  <1>3. ASSUME NEW k, Latest(G \cup {n}, k), n <= m PROVE k = m
    BY <1>1, <1>2, <1>3
  <1>4. ASSUME NEW k, Latest(G \cup {n}, k), m < n PROVE k = n
    BY <1>1, <1>2, <1>4
  <1> QED BY <1>1, <1>3, <1>4

LEMMA ReceiveLosses ==
    ASSUME TypeInv, TypeInv', LossesKept, NEW p \in Peers,
           NEW i \in 1 .. MaxInFlight, ReceivePacket(p, i)
    PROVE  LossInv(p)'
  <1> DEFINE o == Other(p)
             n == net[o][i]
             G == got[p]
             H == G \cup {n}
             gap == Gap(last_seq[p], n % SeqSpace)
  <1>0. NetInv(p) /\ GotInv(p) /\ ExactInv(p) /\ BoundInv(p)
    BY DEF LossesKept, LossInv
  <1>t. /\ o \in Peers /\ net[o] \in Seq(Packets) /\ seq[o] \in Nat /\ G \in SUBSET Nat
        /\ net \in [Peers -> Seq(Packets)] /\ received[p] \in Nat
        /\ last_seq[p] \in Nat \cup {None} /\ first[p] \in Nat \cup {None}
        /\ SeqSpace \in Nat /\ SeqSpace > 0
    BY OtherPeer, UdpLinkAssumption DEF TypeInv, NetTypes, DataTypes
  <1>1. /\ i \in DOMAIN net[o] /\ (test.in_order => i = 1) /\ n # Probe
        /\ net'[o] = RemoveAt(net[o], i)
        /\ last_seq'[p] = n % SeqSpace
        /\ first'[p] = IF first[p] = None THEN n ELSE first[p]
        /\ got'[p] = H /\ received'[p] = received[p] + 1
        /\ rx_lost_packets'[p] = rx_lost_packets[p] + gap
        /\ UNCHANGED <<test, seq, held, total_lost_packets>>
    BY <1>t DEF ReceivePacket, Deliver, statusVars, TypeInv, DataTypes, CountTypes
  <1>2. n \in Nat /\ n < seq[o]
    <2>1. n \in Packets
      BY <1>t, <1>1, ElementOfSeq
    <2> QED BY <1>0, <1>1, <2>1 DEF Packets, NetInv, Below
  <1>3. gap \in Nat
    <2>1. n % SeqSpace \in Nat
      BY <1>t, <1>2
    <2> QED BY <1>t, <2>1, GapType
  <1>4. Lost(p)' = Lost(p) + gap /\ Lost(p) \in Nat
    <2>1. /\ total_lost_packets[p] \in Nat /\ held[p].lost \in Nat /\ rx_lost_packets[p] \in Nat
      BY DEF TypeInv, CountTypes, StatusTypes, Intervals
    <2> QED BY <1>1, <1>3, <2>1 DEF Lost
  <1>5. /\ IsFiniteSet(G) /\ Cardinality(G) \in Nat
        /\ Cardinality(H) = IF n \in G THEN Cardinality(G) ELSE Cardinality(G) + 1
    <2>1. \A g \in G : g <= seq[o]
      BY <1>0, <1>t DEF GotInv
    <2>2. IsFiniteSet(G)
      BY <1>t, <2>1, FS_BoundedSetOfNaturals
    <2> QED BY <2>2, FS_CardinalityType, FS_AddElement
  <1>6. test.in_order => \A g \in G : g <= n
    BY <1>0, <1>1 DEF NetInv, After
  <1>7. NetInv(p)'
    <2>1. /\ Below(RemoveAt(net[o], i), seq[o])
          /\ test.in_order => InOrder(RemoveAt(net[o], i)) /\ After(RemoveAt(net[o], i), G)
      BY <1>0, <1>t, <1>1, NetChanges DEF NetInv
    <2>2. test.in_order => After(RemoveAt(net[o], i), {n})
      BY <1>0, <1>t, <1>1, HeadTaken DEF NetInv
    <2>3. test.in_order => After(RemoveAt(net[o], i), H)
      BY <2>1, <2>2 DEF After
    <2> QED BY <1>1, <2>1, <2>3 DEF NetInv
  <1> HIDE DEF n, gap
  <1>8. GotInv(p)'
    <2>1. \A g \in H : g < seq[o]
      BY <1>0, <1>2 DEF GotInv
    <2>2. Cardinality(H) <= received[p] + 1
      BY <1>0, <1>t, <1>5 DEF GotInv
    <2>3. first'[p] \in H
      <3>1. CASE G = {}
        BY <1>0, <1>1, <3>1 DEF GotInv
      <3>2. CASE G # {}
        <4>1. first[p] \in G /\ first[p] # None
          BY <1>0, <1>t, <3>2 DEF GotInv, None
        <4> QED BY <1>1, <4>1
      <3> QED BY <3>1, <3>2
    <2>4. ASSUME test.in_order, NEW m, Latest(H, m) PROVE m = n
      <3>1. m \in H /\ n <= m
        BY <2>4 DEF Latest
      <3>2. m <= n
        BY <1>2, <1>6, <2>4, <3>1
      <3> QED BY <1>t, <1>2, <3>1, <3>2
    <2>5. H # {} /\ n \in H
      OBVIOUS
    <2> HIDE DEF H
    <2> QED BY <1>1, <2>1, <2>2, <2>3, <2>4, <2>5 DEF GotInv
  <1>9. ExactInv(p)'
    <2> SUFFICES ASSUME test.in_order, ~DuplicateAtWrap(p)', ~SpaceLost(p)'
                 PROVE  Lost(p)' = Cardinality(MissingIn(H))
      BY <1>1 DEF ExactInv
    <2>0. /\ ~(received[p] + 1 > Cardinality(H) /\ \E g \in H : (g + 1) % SeqSpace = 0)
          /\ ~(\E a, b \in H : b - a > SeqSpace /\ \A g \in H : g <= a \/ g >= b)
      BY <1>1 DEF DuplicateAtWrap, SpaceLost
    <2>1. CASE G = {}
      <3>1. last_seq[p] = None
        BY <1>0, <2>1 DEF GotInv
      <3>2. gap = 0
        BY <3>1 DEF Gap, gap
      <3>3. MissingIn(G) = {} /\ MissingIn(H) = {}
        BY <1>2, <2>1 DEF MissingIn
      <3>4. Lost(p) = 0
        BY <1>0, <2>1, <3>3, FS_EmptySet DEF ExactInv, DuplicateAtWrap, SpaceLost
      <3> QED BY <1>4, <3>2, <3>3, <3>4, FS_EmptySet
    <2>2. CASE G # {}
      <3>1. PICK m \in Nat : Latest(G, m)
        BY <1>0, <2>2, HasLatest
      <3>2. m \in G /\ (\A g \in G : g <= m) /\ last_seq[p] = m % SeqSpace /\ m <= n
        BY <1>0, <1>6, <3>1 DEF Latest, GotInv
      <3>3. CASE m = n
        <4>1. H = G /\ n \in G
          BY <3>2, <3>3
        <4>2. received[p] + 1 > Cardinality(H)
          BY <1>0, <1>t, <1>5, <4>1 DEF GotInv
        <4>3. \A g \in G : (g + 1) % SeqSpace # 0
          BY <2>0, <4>1, <4>2
        <4>4. gap = 0
          BY <1>2, <3>2, <3>3, <4>1, <4>3, DuplicateCounts DEF gap
        <4>5. ~DuplicateAtWrap(p) /\ ~SpaceLost(p)
          BY <2>0, <4>1, <4>3 DEF DuplicateAtWrap, SpaceLost
        <4>6. Lost(p) = Cardinality(MissingIn(G))
          BY <1>0, <4>5 DEF ExactInv
        <4> QED BY <1>4, <4>1, <4>4, <4>6
      <3>4. CASE m < n
        <4>1. n \notin G
          BY <1>2, <3>2, <3>4
        <4>2. ~DuplicateAtWrap(p)
          <5>1. Cardinality(H) = Cardinality(G) + 1
            BY <1>5, <4>1
          <5>2. received[p] > Cardinality(G) => received[p] + 1 > Cardinality(H)
            BY <1>t, <1>5, <5>1
          <5> QED BY <2>0, <5>2 DEF DuplicateAtWrap
        <4>3. ~SpaceLost(p)
          <5> SUFFICES ASSUME NEW a \in G, NEW b \in G, b - a > SeqSpace,
                              \A g \in G : g <= a \/ g >= b
                       PROVE  FALSE
            BY DEF SpaceLost
          <5>1. n >= b
            <6>1. b \in Nat /\ b <= m
              BY <1>t, <3>2
            <6> QED BY <1>2, <3>4, <6>1
          <5> QED BY <2>0, <5>1
        <4>4. n - m <= SeqSpace
          <5> SUFFICES ASSUME n - m > SeqSpace PROVE FALSE
            BY <1>t, <1>2
          <5>1. \A g \in H : g <= m \/ g >= n
            BY <1>2, <3>2
          <5> QED BY <2>0, <3>2, <5>1
        <4>5. Lost(p) = Cardinality(MissingIn(G))
          BY <1>0, <4>2, <4>3 DEF ExactInv
        <4>6. /\ Cardinality(MissingIn(G)) \in Nat
              /\ Cardinality(MissingIn(H)) = Cardinality(MissingIn(G)) +
                   (IF (m + 1) \div SeqSpace = n \div SeqSpace THEN n - (m + 1) ELSE 0)
          BY <1>t, <1>2, <3>1, <3>4, MissingCount
        <4>7. gap = IF (m + 1) \div SeqSpace = n \div SeqSpace THEN n - (m + 1) ELSE 0
          BY <1>2, <3>2, <3>4, <4>4, GapCounts DEF gap
        <4> QED BY <1>4, <4>5, <4>6, <4>7
      <3> QED BY <1>2, <3>2, <3>3, <3>4
    <2> QED BY <2>1, <2>2
  <1>10. BoundInv(p)'
    <2> SUFFICES ASSUME seq[o] <= SeqSpace, NEW k, Latest(H, k)
                 PROVE  Lost(p)' >= Cardinality((first'[p] .. k) \ H)
      BY <1>1 DEF BoundInv
    <2>1. CASE G = {}
      <3>1. first'[p] = n /\ k = n
        BY <1>0, <1>1, <2>1 DEF GotInv, Latest
      <3>2. (n .. n) \ H = {}
        BY <1>2
      <3>3. Cardinality((first'[p] .. k) \ H) = 0
        BY <3>1, <3>2, FS_EmptySet, Zenon
      <3> HIDE DEF H
      <3> QED BY <1>3, <1>4, <3>3
    <2>2. CASE G # {}
      <3>1. PICK m \in Nat : Latest(G, m)
        BY <1>0, <2>2, HasLatest
      <3>2. first[p] \in G /\ first'[p] = first[p]
        <4>1. first[p] \in G /\ first[p] # None
          BY <1>0, <1>t, <2>2 DEF GotInv, None
        <4> QED BY <1>1, <4>1
      <3>3. PICK a \in G : last_seq[p] = a % SeqSpace
        BY <1>0, <2>2 DEF GotInv
      <3>4. Lost(p) >= Cardinality((first[p] .. m) \ G)
        BY <1>0, <3>1 DEF BoundInv
      <3>5. /\ Cardinality((first[p] .. m) \ G) \in Nat
            /\ Cardinality((first[p] .. m) \ H) <= Cardinality((first[p] .. m) \ G)
            /\ m < n => Cardinality((first[p] .. n) \ H) =
                          Cardinality((first[p] .. m) \ G) + (n - (m + 1))
        <4> HIDE DEF G
        <4>1. G \in SUBSET Nat /\ first[p] \in G /\ Latest(G, m) /\ n \in Nat
          BY <1>t, <1>2, <3>1, <3>2 DEF G
        <4> QED BY <4>1, BehindCount
      <3>6. CASE n <= m
        <4>1. k = m
          BY <1>t, <1>2, <3>1, <3>6, LatestGrows
        <4>2. Cardinality((first[p] .. m) \ H) \in Nat
          <5>1. IsFiniteSet(first[p] .. m)
            <6>1. first[p] \in Int /\ m \in Int
              BY <1>t, <3>2
            <6> QED BY <6>1, FS_Interval
          <5>2. (first[p] .. m) \ H \in SUBSET (first[p] .. m)
            OBVIOUS
          <5> QED BY <5>1, <5>2, FS_Subset, FS_CardinalityType, Zenon
        <4> QED BY <1>3, <1>4, <3>2, <3>4, <3>5, <4>1, <4>2
      <3>7. CASE m < n
        <4>1. k = n
          BY <1>t, <1>2, <3>1, <3>7, LatestGrows
        <4>2. a \in Nat /\ a <= m /\ n < SeqSpace
          BY <1>t, <1>2, <3>1, <3>3 DEF Latest
        <4>3. gap >= n - (m + 1)
          BY <1>2, <3>3, <3>7, <4>2, GapBound DEF gap
        <4> QED BY <1>2, <1>3, <1>4, <3>2, <3>4, <3>5, <3>7, <4>1, <4>3
      <3> QED BY <1>2, <3>6, <3>7
    <2> QED BY <2>1, <2>2
  <1> QED BY <1>7, <1>8, <1>9, <1>10 DEF LossInv

\* An interval is taken, recorded or kept, and the losses in it with it.
LEMMA StatusLosses ==
    ASSUME TypeInv, TypeInv', IntervalsKept, LossesKept, NEW r \in Peers, NEW p \in Peers,
           \/ ReadWord(r) \/ ReadTimeout(r) \/ TakeInterval(r)
           \/ \E cpu_load \in CpuLoads : SendStatus(r, cpu_load)
           \/ SendFails(r) \/ ReadFails(r) \/ Stop(r)
    PROVE  LossInv(p)'
  <1>0. LossInv(p) /\ NetInv(p) /\ IntervalInv(r)
    BY DEF LossesKept, LossInv, IntervalsKept
  <1>1. UNCHANGED <<test, net, seq, got, received, last_seq, first>>
    BY DEF ReadWord, ReadTimeout, TakeInterval, SendStatus, SendFails, ReadFails, Stop,
       netVars, dataVars
  <1>2. NetInv(p)' /\ seq[Other(p)] <= seq'[Other(p)]
    <2>1. seq[Other(p)] \in Nat
      BY OtherPeer DEF TypeInv, DataTypes
    <2> QED BY <1>0, <1>1, <2>1 DEF NetInv
  <1>t. /\ held \in [Peers -> Intervals] /\ total_lost_packets \in [Peers -> Nat]
        /\ rx_lost_packets \in [Peers -> Nat]
        /\ \A q \in Peers : held[q].lost \in Nat
    BY DEF TypeInv, StatusTypes, CountTypes, Intervals
  <1>3. Lost(p)' = Lost(p)
    <2>1. CASE ReadWord(r) \/ ReadTimeout(r) \/ ReadFails(r) \/ Stop(r)
      <3>1. UNCHANGED <<held, total_lost_packets, rx_lost_packets>>
        BY <2>1 DEF ReadWord, ReadTimeout, ReadFails, Stop, countVars, statusVars
      <3> QED BY <3>1 DEF Lost
    <2>2. CASE TakeInterval(r)
      <3>1. held[r] = Nothing
        BY <1>0, <2>2, HoldsNothing DEF TakeInterval
      <3>2. /\ total_lost_packets' = total_lost_packets
            /\ rx_lost_packets' = [rx_lost_packets EXCEPT ![r] = 0]
            /\ held' = [held EXCEPT ![r] = [tx |-> tx_bytes[r], rx |-> rx_bytes[r],
                                            lost |-> rx_lost_packets[r]]]
        BY <2>2 DEF TakeInterval
      <3>3. CASE p = r
        BY <1>t, <3>1, <3>2, <3>3 DEF Lost, Nothing
      <3>4. CASE p # r
        BY <1>t, <3>2, <3>4 DEF Lost
      <3> QED BY <3>3, <3>4
    <2>3. CASE \/ \E cpu_load \in CpuLoads : SendStatus(r, cpu_load)
               \/ SendFails(r) /\ r = "client"
      <3>1. /\ rx_lost_packets' = rx_lost_packets
            /\ total_lost_packets' = [total_lost_packets EXCEPT ![r] = @ + held[r].lost]
            /\ held' = [held EXCEPT ![r] = Nothing]
        BY <2>3 DEF SendStatus, SendFails, record_interval
      <3>3. CASE p = r
        BY <1>t, <3>1, <3>3 DEF Lost, Nothing
      <3>4. CASE p # r
        BY <1>t, <3>1, <3>4 DEF Lost
      <3> QED BY <3>3, <3>4
    <2>4. CASE SendFails(r) /\ r # "client"
      <3>1. UNCHANGED <<held, total_lost_packets, rx_lost_packets>>
        BY <2>4 DEF SendFails
      <3> QED BY <3>1 DEF Lost
    <2> QED BY <2>1, <2>2, <2>3, <2>4
  <1> QED BY <1>0, <1>1, <1>2, <1>3, LossFrame

LEMMA LossesStep ==
    TypeInv /\ TypeInv' /\ IntervalsKept /\ LossesKept /\ [Next]_vars => LossesKept'
  <1> SUFFICES ASSUME TypeInv, TypeInv', IntervalsKept, LossesKept, [Next]_vars,
                      NEW p \in Peers
               PROVE  LossInv(p)'
    BY DEF LossesKept
  <1>0. LossInv(p) /\ NetInv(p)
    BY DEF LossesKept, LossInv
  <1>1. ASSUME UNCHANGED <<test, net, seq, got, received, last_seq, first, held,
                           total_lost_packets, rx_lost_packets>>
        PROVE  LossInv(p)'
    <2>1. seq[Other(p)] \in Nat
      BY OtherPeer DEF TypeInv, DataTypes
    <2>2. NetInv(p)' /\ seq[Other(p)] <= seq'[Other(p)]
      BY <1>0, <1>1, <2>1 DEF NetInv
    <2>3. Lost(p)' = Lost(p)
      BY <1>1 DEF Lost
    <2> QED BY <1>0, <1>1, <2>2, <2>3, LossFrame
  <1>2. CASE Break \/ UNCHANGED vars
    BY <1>1, <1>2 DEF Break, vars, netVars, dataVars, statusVars, countVars
  <1>3. ASSUME NEW r \in Peers, NEW i \in 1 .. MaxInFlight, ReceivePacket(r, i)
        PROVE  LossInv(p)'
    <2>1. CASE r = p
      BY <1>3, <2>1, ReceiveLosses
    <2>2. CASE r # p
      <3>1. Other(r) # Other(p)
        BY <2>2, OtherPeer
      <3>2. /\ net'[Other(p)] = net[Other(p)] /\ last_seq'[p] = last_seq[p]
            /\ first'[p] = first[p] /\ got'[p] = got[p] /\ received'[p] = received[p]
            /\ rx_lost_packets'[p] = rx_lost_packets[p]
            /\ UNCHANGED <<test, seq, held, total_lost_packets>>
        BY <1>3, <2>2, <3>1, OtherPeer
           DEF ReceivePacket, Deliver, statusVars, TypeInv, NetTypes, DataTypes, CountTypes
      <3>3. seq[Other(p)] \in Nat
        BY OtherPeer DEF TypeInv, DataTypes
      <3>4. NetInv(p)' /\ seq[Other(p)] <= seq'[Other(p)]
        BY <1>0, <3>2, <3>3 DEF NetInv
      <3>5. Lost(p)' = Lost(p)
        BY <3>2 DEF Lost
      <3> QED BY <1>0, <3>2, <3>4, <3>5, LossFrame
    <2> QED BY <2>1, <2>2
  <1> QED BY <1>2, <1>3, NetLosses, StatusLosses DEF Next, Terminated

\* On a path that keeps packets in order, duplicates or not, the losses counted are
\* exactly the packets missing between two that arrived, apart from the gaps in which
\* the numbers wrap around; on any path no loss after the first packet goes uncounted
\* before they do.  Holds for every number of packets, of packets in flight and of
\* copies, and every size of the sequence space (udp_rx_loop of server.rs and client.rs).
THEOREM LossCountedHolds == Spec => []LossCounted
  <1>1. Init => IntervalsKept /\ LossesKept
    BY IntervalsInit, LossesInit
  <1>2. TypeInv /\ TypeInv' /\ IntervalsKept /\ LossesKept /\ [Next]_vars =>
          IntervalsKept' /\ LossesKept'
    BY IntervalsStep, LossesStep
  <1>3. TypeInv /\ LossesKept => LossCounted
    BY LossesImply
  <1> QED BY <1>1, <1>2, <1>3, TypeInvariant, PTL DEF Spec
=============================================================================
