------------------------ MODULE LedsPWMDMA_proofs ---------------------------
(***************************************************************************)
(* Proofs about LedsPWMDMA, for any ports, modules, buffer and latency.    *)
(***************************************************************************)
EXTENDS LedsPWMDMA, TLAPS

LEMMA BufferSize ==
  /\ Biter \in Nat \ {0} /\ Data \in Nat \ {0} /\ Front \in Nat
  /\ PortCount \in Nat \ {0}
BY DriverAssumption DEF Biter

(* Two ports of one module have different submodules (ledpwm.cpp:55).      *)
LEMMA UniqueSub ==
  ASSUME NEW c \in Ports, NEW d \in Ports, c # d, Module[c] = Module[d]
  PROVE  Sub[c] # Sub[d]
BY DriverAssumption

LEMMA TypeInit == Init => TypeOK
BY BufferSize DEF Init, TypeOK, Ports, Modules

LEMMA TypeStep == TypeOK /\ [Next]_vars => TypeOK'
<1> SUFFICES ASSUME TypeOK, [Next]_vars PROVE TypeOK'
  OBVIOUS
<1> USE BufferSize DEF TypeOK
<1>1. ASSUME NEW c \in Ports, Element(c) PROVE TypeOK'
  <2>1. citer' \in [Ports -> 1..Biter] /\ saddr' \in [Ports -> Int] /\ int' \in [Ports -> BOOLEAN]
    <3>1. CASE citer[c] = 1
      <4>1. /\ citer' = [citer EXCEPT ![c] = Biter] /\ saddr' = [saddr EXCEPT ![c] = @ + 1 - Biter]
            /\ int' = [int EXCEPT ![c] = TRUE]
        BY <1>1, <3>1 DEF Element
      <4>2. Biter \in 1..Biter /\ saddr[c] + 1 - Biter \in Int
        OBVIOUS
      <4>3. QED
        BY <4>1, <4>2
    <3>2. CASE citer[c] # 1
      <4>1. citer' = [citer EXCEPT ![c] = @ - 1] /\ saddr' = [saddr EXCEPT ![c] = @ + 1] /\ int' = int
        BY <1>1, <3>2 DEF Element
      <4>2. citer[c] - 1 \in 1..Biter /\ saddr[c] + 1 \in Int
        BY <3>2
      <4>3. QED
        BY <4>1, <4>2
    <3>3. QED
      BY <3>1, <3>2
  <2>2. sent' \in [Ports -> 0..Data]
    BY <1>1 DEF Element, IsData
  <2>3. junk' \in [Ports -> BOOLEAN]
    BY <1>1 DEF Element
  <2>4. QED
    BY <1>1, <2>1, <2>2, <2>3 DEF Element, main
<1>2. ASSUME NEW c \in Ports, DMA_IRQHandler(c) PROVE TypeOK'
  BY <1>2 DEF DMA_IRQHandler, main, history, Modules
<1>3. CASE Begin
  BY <1>3 DEF Begin, channel, history, Ports
<1>4. CASE SetMux
  BY <1>4 DEF SetMux, channel
<1>5. CASE SetSADDR
  BY <1>5 DEF SetSADDR, history
<1>6. CASE SetERQ
  BY <1>6 DEF SetERQ, channel, history
<1>7. CASE LoadMCTRL
  BY <1>7 DEF LoadMCTRL, channel, history, Modules
<1>8. CASE StoreMCTRL
  <2>1. pc' \in {"idle", "mux"} /\ port' \in Ports /\ currentPage' = 0
    <3>1. currentPage' = currentPage \/ currentPage' = currentPage % 1
      BY <1>8 DEF StoreMCTRL, NextPort
    <3>2. 0 % 1 = 0
      OBVIOUS
    <3>3. currentPage' = 0
      BY <3>1, <3>2
    <3>4. pc' \in {"idle", "mux"} /\ port' \in Ports
      <4>1. \/ port < PortCount - 1 /\ pc' = "mux" /\ port' = port + 1
            \/ pc' = "idle" /\ port' = 0
        BY <1>8 DEF StoreMCTRL, NextPort
      <4>2. port \in 0..PortCount - 1 /\ 0 \in 0..PortCount - 1
        BY DEF Ports
      <4>3. port < PortCount - 1 => port + 1 \in 0..PortCount - 1
        BY <4>2
      <4>4. port' \in 0..PortCount - 1
        BY <4>1, <4>2, <4>3, Zenon
      <4>5. QED
        BY <4>1, <4>4, Zenon DEF Ports
    <3>5. QED
      BY <3>3, <3>4
  <2>2. run' \in [Modules -> SUBSET {Sub[c] : c \in Ports}]
    BY <1>8 DEF StoreMCTRL, Modules
  <2>3. QED
    BY <1>8, <2>1, <2>2 DEF StoreMCTRL, channel, history
<1>9. CASE UNCHANGED vars
  BY <1>9 DEF vars, channel, main, history
<1>10. QED
  BY <1>1, <1>2, <1>3, <1>4, <1>5, <1>6, <1>7, <1>8, <1>9 DEF Next, Transfer

-----------------------------------------------------------------------------
LEMMA DriverInvInit == Init => DriverInv
<1> SUFFICES ASSUME Init PROVE DriverInv
  OBVIOUS
<1>1. Requested /\ PinIsTaken /\ NoClockIsLost
  BY DEF Init, Requested, PinIsTaken, NoClockIsLost
<1>2. ArmedPortIsDriven
  BY DEF Init, ArmedPortIsDriven, Running, Modules
<1>3. QED
  BY <1>1, <1>2, TypeInit DEF DriverInv

LEMMA DriverInvStep == DriverInv /\ [Next]_vars => DriverInv'
<1> SUFFICES ASSUME DriverInv, [Next]_vars PROVE DriverInv'
  OBVIOUS
<1>t. TypeOK'
  BY TypeStep DEF DriverInv
<1> USE DEF DriverInv, TypeOK
<1>1. ASSUME NEW c \in Ports, Element(c) PROVE DriverInv'
  <2>1. UNCHANGED <<mux, erq, run, pc, port, mctrl, clean>>
    BY <1>1 DEF Element, main
  <2>2. Requested'
    BY <1>1, <2>1 DEF Element, Requested
  <2>3. PinIsTaken' /\ NoClockIsLost' /\ ArmedPortIsDriven'
    BY <2>1 DEF PinIsTaken, NoClockIsLost, ArmedPortIsDriven, Arming, Running
  <2>4. QED
    BY <1>t, <2>2, <2>3
<1>2. ASSUME NEW c \in Ports, DMA_IRQHandler(c) PROVE DriverInv'
  <2> USE <1>2 DEF DMA_IRQHandler, main, history
  <2>1. Requested'
    BY DEF Requested
  <2>2. PinIsTaken'
    BY DEF PinIsTaken, Requested
  <2>3. NoClockIsLost'
    BY DEF NoClockIsLost
  <2>4. ArmedPortIsDriven'
    <3> SUFFICES ASSUME NEW d \in Ports, clean[d], erq'[d], ~Arming(d)
                 PROVE  mux'[d] = "pwm" /\ Sub[d] \in run'[Module[d]]
      BY DEF ArmedPortIsDriven, Arming, Running
    <3>1. d # c /\ erq[d]
      OBVIOUS
    <3>2. mux[d] = "pwm" /\ Sub[d] \in run[Module[d]]
      BY <3>1 DEF ArmedPortIsDriven, Running
    <3>3. Module[d] \in Modules /\ Module[c] \in Modules
      BY DEF Modules
    <3>4. QED
      BY <3>1, <3>2, <3>3, UniqueSub
  <2>5. QED
    BY <1>t, <2>1, <2>2, <2>3, <2>4
<1>3. CASE Begin
  BY <1>t, <1>3 DEF Begin, channel, history, Requested, PinIsTaken, NoClockIsLost, ArmedPortIsDriven,
     Arming, Running
<1>4. CASE SetMux
  <2> USE <1>4 DEF SetMux, channel
  <2>1. Requested' /\ NoClockIsLost'
    BY DEF Requested, NoClockIsLost
  <2>2. PinIsTaken'
    BY DEF PinIsTaken
  <2>3. ArmedPortIsDriven'
    BY DEF ArmedPortIsDriven, Arming, Running
  <2>4. QED
    BY <1>t, <2>1, <2>2, <2>3
<1>5. CASE SetSADDR
  <2> USE <1>5 DEF SetSADDR, history
  <2>1. Requested' /\ NoClockIsLost' /\ PinIsTaken'
    BY DEF Requested, NoClockIsLost, PinIsTaken
  <2>2. ArmedPortIsDriven'
    BY DEF ArmedPortIsDriven, Arming, Running
  <2>3. QED
    BY <1>t, <2>1, <2>2
<1>6. CASE SetERQ
  <2> USE <1>6 DEF SetERQ, channel, history
  <2>1. Requested' /\ NoClockIsLost' /\ PinIsTaken'
    BY DEF Requested, NoClockIsLost, PinIsTaken
  <2>2. ArmedPortIsDriven'
    BY DEF ArmedPortIsDriven, Arming, Running
  <2>3. QED
    BY <1>t, <2>1, <2>2
<1>7. CASE LoadMCTRL
  <2> USE <1>7 DEF LoadMCTRL, channel, history
  <2>1. Requested' /\ PinIsTaken'
    BY DEF Requested, PinIsTaken
  <2>2. NoClockIsLost'
    BY DEF NoClockIsLost, ArmedPortIsDriven, Arming, Running
  <2>3. ArmedPortIsDriven'
    BY DEF ArmedPortIsDriven, Arming, Running
  <2>4. QED
    BY <1>t, <2>1, <2>2, <2>3
<1>8. CASE StoreMCTRL
  <2>1. UNCHANGED <<mux, erq, int, clean>> /\ pc = "store" /\ pc' \in {"idle", "mux"}
    BY <1>8 DEF StoreMCTRL, channel, history, NextPort
  <2>2. Requested' /\ PinIsTaken' /\ NoClockIsLost'
    BY <2>1 DEF Requested, PinIsTaken, NoClockIsLost
  <2>3. ArmedPortIsDriven'
    <3> SUFFICES ASSUME NEW d \in Ports, clean[d], erq[d]
                 PROVE  mux[d] = "pwm" /\ Sub[d] \in run'[Module[d]]
      BY <2>1 DEF ArmedPortIsDriven, Running
    <3>1. Module[d] \in Modules /\ Module[port] \in Modules
      BY DEF Modules
    <3>2. run' = [run EXCEPT ![Module[port]] = mctrl \cup {Sub[port]}]
      BY <1>8 DEF StoreMCTRL
    <3>3. CASE d = port
      BY <2>1, <3>1, <3>2, <3>3 DEF PinIsTaken
    <3>4. CASE d # port
      <4>1. mux[d] = "pwm" /\ Sub[d] \in run[Module[d]]
        BY <3>4 DEF ArmedPortIsDriven, Arming, Running
      <4>2. Module[d] = Module[port] => Sub[d] \in mctrl
        BY <2>1, <3>4 DEF NoClockIsLost
      <4>3. QED
        BY <3>1, <3>2, <4>1, <4>2
    <3>5. QED
      BY <3>3, <3>4
  <2>4. QED
    BY <1>t, <2>2, <2>3
<1>9. CASE UNCHANGED vars
  BY <1>t, <1>9 DEF vars, channel, main, history, Requested, PinIsTaken, NoClockIsLost,
     ArmedPortIsDriven, Arming, Running
<1>10. QED
  BY <1>1, <1>2, <1>3, <1>4, <1>5, <1>6, <1>7, <1>8, <1>9 DEF Next, Transfer

(* Types, the progress of transfer(), and the RUN bits of MCTRL.           *)
THEOREM DriverSafety == Spec => []DriverInv
BY DriverInvInit, DriverInvStep, PTL DEF Spec

(* An armed port has its pin and its clock, although transfer() (ledpwm.cpp*)
(* 95-103) and the interrupt handlers (74-86) both change MCTRL.           *)
THEOREM PortsAreDriven == Spec => []ArmedPortIsDriven
<1>1. DriverInv => ArmedPortIsDriven
  BY DEF DriverInv
<1>2. QED
  BY <1>1, DriverSafety, PTL

-----------------------------------------------------------------------------
(* What is on the wire.                                                    *)

LEMMA DataInvInit == Init => DataInv
<1> SUFFICES ASSUME Init PROVE DataInv
  OBVIOUS
<1> USE BufferSize, DriverAssumption DEF Init
<1>1. LoopIsNearlyWhole /\ ArmedFromTheStart /\ OnlyOwnDataIsSent
  BY DEF LoopIsNearlyWhole, ArmedFromTheStart, OnlyOwnDataIsSent
<1>2. SendsInOrder
  BY DEF SendsInOrder, SentSoFar
<1>3. QED
  BY <1>1, <1>2 DEF DataInv

(* An element of a port that was idle when it was armed: it continues the  *)
(* port's data, or lies in a padding, or, behind a short loop, before the  *)
(* buffer, where only port 0 has no zeros.                                 *)
LEMMA ElementIsOwn ==
  ASSUME DriverInv, DataInv, NEW c \in Ports, Element(c), clean[c]
  PROVE  /\ saddr'[c] + citer'[c] = Biter - short[c]
         /\ ~int'[c] => saddr'[c] >= 0
         /\ sent'[c] = SentSoFar(c)'
         /\ junk'[c] => c = 0 /\ short[c] > 0
<1> USE BufferSize, DriverAssumption
<1>1. /\ erq[c] /\ mux[c] = "pwm" /\ saddr[c] \in Int /\ citer[c] \in 1..Biter
      /\ short[c] \in Nat /\ int[c] \in BOOLEAN
      /\ DOMAIN saddr = Ports /\ DOMAIN citer = Ports /\ DOMAIN int = Ports
      /\ DOMAIN sent = Ports /\ DOMAIN junk = Ports
  <2>1. erq[c] /\ TypeOK
    BY DEF Element, DriverInv
  <2>2. mux[c] = "pwm"
    <3>1. CASE Arming(c)
      BY <2>1, <3>1 DEF DriverInv, PinIsTaken, Arming
    <3>2. CASE ~Arming(c)
      BY <2>1, <3>2 DEF DriverInv, ArmedPortIsDriven
    <3>3. QED
      BY <3>1, <3>2
  <2>3. QED
    BY <2>1, <2>2 DEF TypeOK
<1>2. /\ saddr[c] + citer[c] = Biter - short[c] /\ short[c] <= MaxLate
      /\ ~int[c] => saddr[c] >= 0
      /\ sent[c] = SentSoFar(c)
      /\ junk[c] => c = 0 /\ short[c] > 0
  BY <1>1 DEF DataInv, SendsInOrder, OnlyOwnDataIsSent
<1>3. /\ citer'[c] = IF citer[c] = 1 THEN Biter ELSE citer[c] - 1
      /\ saddr'[c] = IF citer[c] = 1 THEN saddr[c] + 1 - Biter ELSE saddr[c] + 1
      /\ int'[c] = IF citer[c] = 1 THEN TRUE ELSE int[c]
      /\ int[c] => Biter - citer[c] < MaxLate
  BY <1>1 DEF Element
<1>4. /\ sent'[c] = IF saddr[c] = Front + sent[c] /\ IsData(saddr[c])
                    THEN sent[c] + 1 ELSE sent[c]
      /\ junk'[c] = IF \/ IsForeign(c, saddr[c])
                       \/ IsData(saddr[c]) /\ saddr[c] # Front + sent[c]
                    THEN TRUE ELSE junk[c]
  BY <1>1 DEF Element
<1>5. Biter = Front + Data + Tail /\ MaxLate <= Tail /\ MaxLate <= Front
      /\ Front \in Nat /\ Data \in Nat /\ Tail \in Nat /\ MaxLate \in Nat /\ Data >= 1
  BY DEF Biter
<1>6. saddr'[c] + citer'[c] = Biter - short[c]
  BY <1>1, <1>2, <1>3, <1>5
(* the first loop *)
<1>7. CASE ~int[c]
  <2>1. sent[c] = IF saddr[c] > Front + Data THEN Data
                  ELSE IF saddr[c] > Front THEN saddr[c] - Front ELSE 0
    BY <1>2, <1>7 DEF SentSoFar
  <2>2. ~IsForeign(c, saddr[c])
    BY <1>1, <1>2, <1>7 DEF IsForeign
  <2>3. IsData(saddr[c]) <=> Front <= saddr[c] /\ saddr[c] < Front + Data
    BY <1>1, <1>5 DEF IsData
  <2>4. IsData(saddr[c]) => saddr[c] = Front + sent[c]
    BY <1>1, <1>5, <2>1, <2>3
  <2>5. junk'[c] = junk[c]
    BY <1>4, <2>2, <2>4, Zenon
  <2>6. sent'[c] = IF Front <= saddr[c] /\ saddr[c] < Front + Data
                   THEN sent[c] + 1 ELSE sent[c]
    BY <1>4, <2>3, <2>4
  <2>7. CASE citer[c] = 1
    <3>1. saddr[c] >= Front + Data - 1
      BY <1>1, <1>2, <1>5, <2>7
    <3>2. sent'[c] = Data
      BY <1>1, <1>5, <2>1, <2>6, <3>1
    <3>3. int'[c]
      BY <1>3, <2>7
    <3>4. QED
      BY <1>2, <1>6, <2>5, <3>2, <3>3, Zenon DEF SentSoFar
  <2>8. CASE citer[c] # 1
    <3>1. saddr'[c] = saddr[c] + 1 /\ int'[c] = int[c]
      BY <1>3, <2>8
    <3>2. saddr'[c] >= 0
      BY <1>1, <1>2, <1>7, <3>1
    <3>3. sent'[c] = IF saddr'[c] > Front + Data THEN Data
                     ELSE IF saddr'[c] > Front THEN saddr'[c] - Front ELSE 0
      BY <1>1, <1>5, <2>1, <2>6, <3>1
    <3>4. ~int'[c]
      BY <1>7, <3>1
    <3>5. sent'[c] = SentSoFar(c)'
      BY <3>3, <3>4 DEF SentSoFar
    <3>6. QED
      BY <1>2, <1>6, <2>5, <3>2, <3>5, Zenon
  <2>9. QED
    BY <2>7, <2>8
(* the next one, before its interrupt is taken *)
<1>8. CASE int[c]
  <2>1. sent[c] = Data
    BY <1>2, <1>8 DEF SentSoFar
  <2>2. Biter - citer[c] < MaxLate
    BY <1>3, <1>8
  <2>3. saddr[c] < Front /\ saddr[c] >= -short[c]
    BY <1>1, <1>2, <1>5, <2>2
  <2>4. ~IsData(saddr[c])
    BY <1>1, <1>5, <2>3 DEF IsData
  <2>5. sent'[c] = Data
    BY <1>4, <2>1, <2>4
  <2>6. int'[c]
    BY <1>3, <1>8
  <2>7. IsForeign(c, saddr[c]) => c = 0 /\ short[c] > 0
    <3>1. ~IsData(saddr[c] + Biter)
      BY <1>1, <1>2, <1>5, <2>3 DEF IsData
    <3>2. saddr[c] < 0 => short[c] > 0
      BY <1>1, <2>3
    <3>3. QED
      BY <3>1, <3>2 DEF IsForeign
  <2>8. junk'[c] => c = 0 /\ short[c] > 0
    BY <1>2, <1>4, <2>4, <2>7
  <2>9. QED
    BY <1>6, <2>5, <2>6, <2>8, Zenon DEF SentSoFar
<1>9. QED
  BY <1>7, <1>8

LEMMA ElementData ==
  ASSUME DriverInv, DataInv, NEW c \in Ports, Element(c)
  PROVE  DataInv'
<1> USE BufferSize, DriverAssumption
<1>1. /\ UNCHANGED <<mux, erq, run, pc, port, mctrl, clean, short>> /\ erq[c] /\ TypeOK
      /\ \A d \in Ports \ {c} : /\ saddr'[d] = saddr[d] /\ citer'[d] = citer[d] /\ int'[d] = int[d]
                                /\ sent'[d] = sent[d] /\ junk'[d] = junk[d]
  <2>1. UNCHANGED <<mux, erq, run, pc, port, mctrl, clean, short>> /\ erq[c] /\ TypeOK
    BY DEF Element, main, DriverInv
  <2>2. ASSUME NEW d \in Ports \ {c}
        PROVE  /\ saddr'[d] = saddr[d] /\ citer'[d] = citer[d] /\ int'[d] = int[d]
               /\ sent'[d] = sent[d] /\ junk'[d] = junk[d]
    BY <2>1 DEF Element, TypeOK
  <2>3. QED
    BY <2>1, <2>2
<1>2. LoopIsNearlyWhole'
  <2> SUFFICES ASSUME NEW d \in Ports, int'[d] \/ ~erq[d]
               PROVE  Biter - citer'[d] <= MaxLate
    BY <1>1 DEF LoopIsNearlyWhole
  <2>1. CASE d = c
    <3>1. /\ citer'[c] = IF citer[c] = 1 THEN Biter ELSE citer[c] - 1
          /\ int'[c] = IF citer[c] = 1 THEN TRUE ELSE int[c]
          /\ int[c] => Biter - citer[c] < MaxLate
          /\ citer[c] \in 1..Biter
      BY <1>1 DEF Element, TypeOK
    <3>2. QED
      BY <1>1, <2>1, <3>1
  <2>2. CASE d # c
    BY <1>1, <2>2 DEF DataInv, LoopIsNearlyWhole
  <2>3. QED
    BY <2>1, <2>2
<1>3. ArmedFromTheStart'
  <2>1. pc \in {"saddr", "serq"} /\ clean[port] => port \in Ports \ {c}
    BY <1>1 DEF DriverInv, PinIsTaken, TypeOK
  <2>2. QED
    BY <1>1, <2>1 DEF DataInv, ArmedFromTheStart
<1>4. SendsInOrder'
  <2> SUFFICES ASSUME NEW d \in Ports, clean[d], erq[d]
               PROVE  /\ saddr'[d] + citer'[d] = Biter - short[d] /\ short[d] <= MaxLate
                      /\ ~int'[d] => saddr'[d] >= 0
                      /\ sent'[d] = SentSoFar(d)'
    BY <1>1 DEF SendsInOrder
  <2>1. short[d] <= MaxLate
    BY DEF DataInv, SendsInOrder
  <2>2. CASE d = c
    BY <2>1, <2>2, ElementIsOwn
  <2>3. CASE d # c
    BY <1>1, <2>3 DEF DataInv, SendsInOrder, SentSoFar
  <2>4. QED
    BY <2>2, <2>3
<1>5. OnlyOwnDataIsSent'
  <2> SUFFICES ASSUME NEW d \in Ports, clean[d], junk'[d]
               PROVE  d = 0 /\ short[d] > 0
    BY <1>1 DEF OnlyOwnDataIsSent
  <2>1. CASE d = c
    BY <2>1, ElementIsOwn
  <2>2. CASE d # c
    BY <1>1, <2>2 DEF DataInv, OnlyOwnDataIsSent
  <2>3. QED
    BY <2>1, <2>2
<1>6. QED
  BY <1>2, <1>3, <1>4, <1>5 DEF DataInv

(* The interrupt disarms the port, and transfer() arms it again. *)
LEMMA DataInvStep == DriverInv /\ DataInv /\ [Next]_vars => DataInv'
<1> SUFFICES ASSUME DriverInv, DataInv, [Next]_vars PROVE DataInv'
  OBVIOUS
<1> USE BufferSize, DriverAssumption
<1>t. TypeOK
  BY DEF DriverInv
<1>i. LoopIsNearlyWhole /\ ArmedFromTheStart /\ SendsInOrder /\ OnlyOwnDataIsSent
  BY DEF DataInv
<1>1. ASSUME NEW c \in Ports, Element(c) PROVE DataInv'
  BY <1>1, ElementData
<1>2. ASSUME NEW c \in Ports, DMA_IRQHandler(c) PROVE DataInv'
  <2> USE <1>2, <1>t, <1>i DEF DMA_IRQHandler, main, history, TypeOK
  <2>1. LoopIsNearlyWhole'
    BY DEF LoopIsNearlyWhole
  <2>2. ArmedFromTheStart' /\ OnlyOwnDataIsSent'
    BY DEF ArmedFromTheStart, OnlyOwnDataIsSent
  <2>3. SendsInOrder'
    <3> SUFFICES ASSUME NEW d \in Ports, clean[d], erq'[d]
                 PROVE  /\ saddr[d] + citer[d] = Biter - short[d] /\ short[d] <= MaxLate
                        /\ ~int'[d] => saddr[d] >= 0
                        /\ sent[d] = SentSoFar(d)'
      BY DEF SendsInOrder
    <3>1. d # c /\ erq[d] /\ int'[d] = int[d]
      OBVIOUS
    <3>2. QED
      BY <3>1 DEF SendsInOrder, SentSoFar
  <2>4. QED
    BY <2>1, <2>2, <2>3 DEF DataInv
<1>3. CASE Begin
  <2> USE <1>3, <1>i DEF Begin, channel, history
  <2>1. LoopIsNearlyWhole' /\ ArmedFromTheStart' /\ OnlyOwnDataIsSent'
    BY DEF LoopIsNearlyWhole, ArmedFromTheStart, OnlyOwnDataIsSent
  <2>2. SendsInOrder'
    BY DEF SendsInOrder, SentSoFar
  <2>3. QED
    BY <2>1, <2>2 DEF DataInv
<1>4. CASE SetMux
  <2> USE <1>4, <1>t, <1>i DEF SetMux, channel, TypeOK
  <2>1. LoopIsNearlyWhole' /\ OnlyOwnDataIsSent'
    BY DEF LoopIsNearlyWhole, OnlyOwnDataIsSent
  <2>2. ArmedFromTheStart'
    BY DEF ArmedFromTheStart, LoopIsNearlyWhole
  <2>3. SendsInOrder'
    <3> SUFFICES ASSUME NEW d \in Ports, clean'[d], erq[d]
                 PROVE  /\ saddr[d] + citer[d] = Biter - short'[d] /\ short'[d] <= MaxLate
                        /\ ~int[d] => saddr[d] >= 0
                        /\ sent'[d] = SentSoFar(d)'
      BY DEF SendsInOrder
    <3>1. d # port
      OBVIOUS
    <3>2. clean[d] /\ short'[d] = short[d] /\ sent'[d] = sent[d]
      BY <3>1
    <3>3. QED
      BY <3>2 DEF SendsInOrder, SentSoFar
  <2>4. QED
    BY <2>1, <2>2, <2>3 DEF DataInv
<1>5. CASE SetSADDR
  <2> USE <1>5, <1>t, <1>i DEF SetSADDR, history, TypeOK
  <2>1. LoopIsNearlyWhole' /\ OnlyOwnDataIsSent'
    BY DEF LoopIsNearlyWhole, OnlyOwnDataIsSent
  <2>2. ArmedFromTheStart'
    BY DEF ArmedFromTheStart
  <2>3. SendsInOrder'
    <3> SUFFICES ASSUME NEW d \in Ports, clean[d], erq[d]
                 PROVE  /\ saddr'[d] + citer[d] = Biter - short[d] /\ short[d] <= MaxLate
                        /\ ~int[d] => saddr'[d] >= 0
                        /\ sent[d] = SentSoFar(d)'
      BY DEF SendsInOrder
    <3>1. d # port
      BY DEF DriverInv, PinIsTaken
    <3>2. saddr'[d] = saddr[d]
      BY <3>1
    <3>3. QED
      BY <3>2 DEF SendsInOrder, SentSoFar
  <2>4. QED
    BY <2>1, <2>2, <2>3 DEF DataInv
<1>6. CASE SetERQ
  <2> USE <1>6, <1>t, <1>i DEF SetERQ, channel, history, TypeOK
  <2>1. LoopIsNearlyWhole' /\ OnlyOwnDataIsSent' /\ ArmedFromTheStart'
    BY DEF LoopIsNearlyWhole, OnlyOwnDataIsSent, ArmedFromTheStart
  <2>2. SendsInOrder'
    <3> SUFFICES ASSUME NEW d \in Ports, clean[d], erq'[d]
                 PROVE  /\ saddr[d] + citer[d] = Biter - short[d] /\ short[d] <= MaxLate
                        /\ ~int[d] => saddr[d] >= 0
                        /\ sent[d] = SentSoFar(d)
      BY DEF SendsInOrder, SentSoFar
    <3>1. CASE d = port
      <4>1. saddr[d] = 0 /\ citer[d] = Biter - short[d] /\ short[d] <= MaxLate /\ sent[d] = 0
        BY <3>1 DEF ArmedFromTheStart
      <4>2. ~int[d]
        BY <3>1 DEF DriverInv, PinIsTaken, Requested
      <4>3. QED
        BY <4>1, <4>2 DEF SentSoFar
    <3>2. CASE d # port
      BY <3>2 DEF SendsInOrder
    <3>3. QED
      BY <3>1, <3>2
  <2>3. QED
    BY <2>1, <2>2 DEF DataInv
<1>7. CASE LoadMCTRL
  <2> USE <1>7, <1>i DEF LoadMCTRL, channel, history
  <2>1. LoopIsNearlyWhole' /\ ArmedFromTheStart' /\ OnlyOwnDataIsSent'
    BY DEF LoopIsNearlyWhole, ArmedFromTheStart, OnlyOwnDataIsSent
  <2>2. SendsInOrder'
    BY DEF SendsInOrder, SentSoFar
  <2>3. QED
    BY <2>1, <2>2 DEF DataInv
<1>8. CASE StoreMCTRL
  <2> USE <1>8, <1>i DEF StoreMCTRL, channel, history, NextPort
  <2>1. LoopIsNearlyWhole' /\ ArmedFromTheStart' /\ OnlyOwnDataIsSent'
    BY DEF LoopIsNearlyWhole, ArmedFromTheStart, OnlyOwnDataIsSent
  <2>2. SendsInOrder'
    BY DEF SendsInOrder, SentSoFar
  <2>3. QED
    BY <2>1, <2>2 DEF DataInv
<1>9. CASE UNCHANGED vars
  <2> USE <1>9, <1>i DEF vars, channel, main, history
  <2>1. LoopIsNearlyWhole' /\ ArmedFromTheStart' /\ OnlyOwnDataIsSent'
    BY DEF LoopIsNearlyWhole, ArmedFromTheStart, OnlyOwnDataIsSent
  <2>2. SendsInOrder'
    BY DEF SendsInOrder, SentSoFar
  <2>3. QED
    BY <2>1, <2>2 DEF DataInv
<1>10. QED
  BY <1>1, <1>2, <1>3, <1>4, <1>5, <1>6, <1>7, <1>8, <1>9 DEF Next, Transfer

LEMMA DataSafety == Spec => []DataInv
BY DataInvInit, DataInvStep, DriverSafety, PTL DEF Spec

(* For every number of ports and every size of the paddings, a frame of an *)
(* idle port puts nothing but its own data on the wire, although transfer()*)
(* leaves CITER alone (ledpwm.cpp:95) and handlers are late; only port 0,  *)
(* with no row before its own, may after a late interrupt.                 *)
THEOREM OwnDataOnly == Spec => []OnlyOwnDataIsSent
<1>1. DataInv => OnlyOwnDataIsSent
  BY DEF DataInv
<1>2. QED
  BY <1>1, DataSafety, PTL

(* The pin of such a frame is taken away (ledpwm.cpp:82) only when all of  *)
(* its data is out.                                                        *)
THEOREM WholeFrames == Spec => WholeFrameIsSent
<1> DEFINE Whole == \A c \in Ports : clean[c] /\ mux[c] = "pwm" /\ mux'[c] = "gpio" => sent[c] = Data
<1>1. DriverInv /\ DataInv /\ [Next]_vars => [Whole]_vars
  <2> SUFFICES ASSUME DriverInv, DataInv, Next, NEW c \in Ports,
                      clean[c], mux[c] = "pwm", mux'[c] = "gpio"
               PROVE  sent[c] = Data
    OBVIOUS
  <2>1. int[c]
    <3>1. ASSUME NEW d \in Ports, Element(d) PROVE FALSE
      BY <3>1 DEF Element
    <3>2. ASSUME NEW d \in Ports, DMA_IRQHandler(d) PROVE int[c]
      BY <3>2 DEF DMA_IRQHandler, DriverInv, TypeOK
    <3>3. ~Transfer
      BY DEF Transfer, Begin, SetMux, SetSADDR, SetERQ, LoadMCTRL, StoreMCTRL, DriverInv, TypeOK
    <3>4. QED
      BY <3>1, <3>2, <3>3 DEF Next
  <2>2. erq[c]
    BY <2>1 DEF DriverInv, Requested
  <2>3. QED
    BY <2>1, <2>2 DEF DataInv, SendsInOrder, SentSoFar
<1>2. Spec => [][Whole]_vars
  BY <1>1, DriverSafety, DataSafety, PTL DEF Spec
<1>3. QED
  BY <1>2 DEF WholeFrameIsSent
=============================================================================
