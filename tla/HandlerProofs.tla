---------------------------- MODULE HandlerProofs ----------------------------
(* Proofs about Handler, for any number of clients, batch size,            *)
(* timer_loops and cache size: the timer policy, and whom a batch leaves   *)
(* waiting.                                                                *)
EXTENDS Handler, ListProofs, FiniteSetTheorems

(* The inductive invariant.  TimingIsTimer is not inductive by itself: the *)
(* expiry that ends timing must be the only one there is (OneTimer).       *)
Inv ==
    /\ TypeOK
    /\ TimingIsTimer
    /\ OneTimer
    /\ DirtyHasTimer
    /\ StallsCostFrags

LEMMA InitInv == Init => Inv
<1> SUFFICES ASSUME Init PROVE Inv
  OBVIOUS
<1>0. /\ 0 \in 0..MaxDirty /\ 0 \in 0..timer_loops /\ Batch \in -1..Batch
      /\ 0 \in Nat
  BY BatchAssumption, LoopsAssumption, DirtyAssumption
<1>1. TypeOK
  <2>1. port \in Seq(Client)
    BY DEF Init
  <2> QED  BY <1>0, <2>1, Zenon DEF Init, TypeOK, Signal
<1>2. TimingIsTimer /\ OneTimer
  BY DEF Init, TimingIsTimer, TimerPending, OneTimer
<1>3. DirtyHasTimer /\ StallsCostFrags
  BY DEF Init, DirtyHasTimer, StallsCostFrags
<1> QED  BY <1>1, <1>2, <1>3 DEF Inv

(* The clients and the devices.                                            *)
LEMMA EnvironmentInv == Inv /\ Environment => Inv'
<1> SUFFICES ASSUME Inv, Environment PROVE Inv'
  OBVIOUS
<1>1. ASSUME NEW c \in Client, Send(c) PROVE Inv'
  BY <1>1 DEF Send, Inv, TypeOK, Signal, TimingIsTimer, TimerPending, OneTimer,
              DirtyHasTimer, StallsCostFrags
<1>2. CASE Expire
  BY <1>2 DEF Expire, Inv, TypeOK, Signal, TimingIsTimer, TimerPending, OneTimer,
              DirtyHasTimer, StallsCostFrags
<1>3. CASE DiskInterrupt
  BY <1>3 DEF DiskInterrupt, Inv, TypeOK, Signal, TimingIsTimer, TimerPending, OneTimer,
              DirtyHasTimer, StallsCostFrags
<1> QED  BY <1>1, <1>2, <1>3 DEF Environment

(* The policy of handler.c:230-246 when the timer's signal was received.   *)
LEMMA SignalsInv == Inv /\ Signals => Inv'
<1> SUFFICES ASSUME Inv, Signals PROVE Inv'
  OBVIOUS
<1> USE BatchAssumption, LoopsAssumption, DirtyAssumption
<1>1. UNCHANGED <<port, waiting, sigs, got, pack, receiving_packets>>
  BY DEF Signals
<1>2. /\ pc = "signals"
      /\ pc' \in {"wait", "batch"}
      /\ msgtype' \in -1..Batch
      /\ motor_is_on' \in BOOLEAN
  BY DEF Signals, ln_Type, Inv, TypeOK
<1>3. /\ cache_item_dirty' \in 0..MaxDirty
      /\ "timer" \in got /\ ~PutOff => cache_item_dirty' = 0
      /\ cache_item_dirty' # 0 => cache_item_dirty' = cache_item_dirty
  BY DEF Signals, Inv, TypeOK
<1>4. CASE "timer" \notin got
  <2>1. UNCHANGED <<timing, write_items, write_delay, timer, stalls>>
    BY <1>4 DEF Signals
  <2> QED
    BY <1>1, <1>2, <1>3, <1>4, <2>1
    DEF Inv, TypeOK, TimingIsTimer, TimerPending, OneTimer, DirtyHasTimer, StallsCostFrags
<1>5. CASE "timer" \in got /\ PutOff
  <2>1. /\ write_items' = cache_item_dirty
        /\ write_delay' = write_delay - 1
        /\ timer' = "armed"
        /\ stalls' = stalls + 1
        /\ timing' = timing
    BY <1>5 DEF Signals, TimerExpired
  <2>2. timing
    BY <1>2, <1>5 DEF Inv, TimingIsTimer, TimerPending
  <2>3. /\ write_delay' \in 0..timer_loops /\ write_items' \in 0..MaxDirty
        /\ stalls' \in Nat /\ stalls' <= write_items'
    BY <1>5, <2>1, <2>2 DEF PutOff, Inv, TypeOK, StallsCostFrags
  <2>4. "timer" \notin sigs
    BY <1>2, <1>5 DEF Inv, OneTimer
  <2>5. TypeOK'
    BY <1>1, <1>2, <1>3, <2>1, <2>3 DEF Inv, TypeOK
  <2>6. TimingIsTimer' /\ OneTimer'
    BY <1>1, <1>2, <2>1, <2>2, <2>4 DEF TimingIsTimer, TimerPending, OneTimer
  <2> QED
    BY <2>1, <2>2, <2>3, <2>5, <2>6 DEF Inv, DirtyHasTimer, StallsCostFrags
<1>6. CASE "timer" \in got /\ ~PutOff
  <2>1. /\ timing' = FALSE
        /\ stalls' = 0
        /\ UNCHANGED <<write_items, write_delay, timer>>
    BY <1>6 DEF Signals, TimerExpired
  <2>2. timer = "idle" /\ "timer" \notin sigs
    BY <1>2, <1>6 DEF Inv, OneTimer
  <2>3. TypeOK'
    BY <1>1, <1>2, <1>3, <2>1 DEF Inv, TypeOK
  <2>4. TimingIsTimer' /\ OneTimer'
    BY <1>1, <1>2, <2>1, <2>2 DEF TimingIsTimer, TimerPending, OneTimer
  <2>5. DirtyHasTimer' /\ StallsCostFrags'
    BY <1>3, <1>6, <2>1 DEF DirtyHasTimer, StallsCostFrags
  <2> QED  BY <2>3, <2>4, <2>5 DEF Inv
<1> QED  BY <1>4, <1>5, <1>6

(* The rest of the loop.                                                   *)
LEMMA LoopInv ==
    Inv /\ (Wait \/ TakePacket \/ EndBatch \/ ShutDown \/ TakeDead \/ Refuse)
        => Inv'
<1> SUFFICES ASSUME Inv,
                    Wait \/ TakePacket \/ EndBatch \/ ShutDown \/ TakeDead \/ Refuse
             PROVE  Inv'
  OBVIOUS
<1> USE BatchAssumption DEF Inv, TypeOK, Signal, TimingIsTimer, TimerPending,
                            OneTimer, DirtyHasTimer, StallsCostFrags
<1>1. CASE Wait
  BY <1>1 DEF Wait
<1>2. Fewer(msgtype) \in -1..Batch
  BY DEF Fewer
<1>3. ASSUME port # <<>> PROVE Head(port) \in Client /\ Tail(port) \in Seq(Client)
  BY <1>3
<1>4. CASE TakePacket
  BY <1>2, <1>3, <1>4 DEF TakePacket
<1>5. CASE EndBatch
  BY <1>2, <1>5 DEF EndBatch
<1>6. CASE ShutDown
  <2>0. 0 \in 0..MaxDirty
    BY DirtyAssumption
  <2>1. TypeOK'
    BY <1>6, <2>0 DEF ShutDown
  <2>2. TimingIsTimer' /\ OneTimer' /\ DirtyHasTimer' /\ StallsCostFrags'
    BY <1>6 DEF ShutDown
  <2> QED  BY <2>1, <2>2
<1>7. CASE TakeDead
  BY <1>3, <1>7 DEF TakeDead
<1>8. CASE Refuse
  BY <1>8 DEF Refuse
<1> QED  BY <1>1, <1>4, <1>5, <1>6, <1>7, <1>8

(* A packet, and the endpack part of the loop.                             *)
LEMMA ServeInv ==
    ASSUME Inv, NEW dirty \in 0..MaxDirty, NEW motor \in BOOLEAN,
           NEW stop \in BOOLEAN, Serve(dirty, motor, stop)
    PROVE  Inv'
<1> USE LoopsAssumption, DirtyAssumption
<1>1. /\ UNCHANGED <<port, sigs, got, pack, msgtype>>
      /\ pc = "packet" /\ pc' = "batch"
      /\ waiting' \subseteq waiting
      /\ cache_item_dirty' = dirty
      /\ motor_is_on' \in BOOLEAN /\ receiving_packets' \in BOOLEAN
  BY DEF Serve, endpack
<1>2. CASE (motor \/ dirty > 0) /\ ~timing
  <2>1. /\ write_delay' = timer_loops /\ timing' = TRUE
        /\ write_items' = dirty /\ timer' = "armed" /\ stalls' = 0
    BY <1>2 DEF Serve, endpack
  <2>2. "timer" \notin sigs
    BY <1>1, <1>2 DEF Inv, TimingIsTimer, TimerPending
  <2> QED
    BY <1>1, <2>1, <2>2 DEF Inv, TypeOK, TimingIsTimer, TimerPending, OneTimer,
                            DirtyHasTimer, StallsCostFrags
<1>3. CASE (motor \/ dirty > 0) /\ timing
  <2>1. /\ write_delay' = timer_loops
        /\ UNCHANGED <<timing, write_items, timer, stalls>>
    BY <1>3 DEF Serve, endpack
  <2> QED
    BY <1>1, <1>3, <2>1 DEF Inv, TypeOK, TimingIsTimer, TimerPending, OneTimer,
                            DirtyHasTimer, StallsCostFrags
<1>4. CASE ~(motor \/ dirty > 0)
  <2>1. UNCHANGED <<timing, write_items, write_delay, timer, stalls>>
    BY <1>4 DEF Serve, endpack
  <2> QED
    BY <1>1, <1>4, <2>1 DEF Inv, TypeOK, TimingIsTimer, TimerPending, OneTimer,
                            DirtyHasTimer, StallsCostFrags
<1> QED  BY <1>2, <1>3, <1>4

(* The four parts of the invariant hold in every state of a handler that   *)
(* is not brought back, for any number of clients and dirty frags.         *)
THEOREM Invariance == Spec => []Inv
<1>1. ASSUME Inv, Next PROVE Inv'
  BY <1>1, EnvironmentInv, SignalsInv, LoopInv, ServeInv DEF Next, handler
<1>2. Inv /\ UNCHANGED vars => Inv'
  BY DEF vars, Inv, TypeOK, TimingIsTimer, TimerPending, OneTimer,
         DirtyHasTimer, StallsCostFrags
<1> QED  BY <1>1, <1>2, InitInv, PTL DEF Spec

(* timing is true exactly while a timer runs or its reply is pending.      *)
THEOREM TimingExact == Spec => []TimingIsTimer
<1>1. Inv => TimingIsTimer
  BY DEF Inv
<1> QED  BY <1>1, Invariance, PTL

(* The timer request is never sent while it is in use.                     *)
THEOREM TimerNeverDoubled == Spec => []OneTimer
<1>1. Inv => OneTimer
  BY DEF Inv
<1> QED  BY <1>1, Invariance, PTL

(* No state of the loop leaves dirty frags without a timer.                *)
THEOREM NoDirtyWithoutTimer == Spec => []DirtyHasTimer
<1>1. Inv => DirtyHasTimer
  BY DEF Inv
<1> QED  BY <1>1, Invariance, PTL

(* However many packets arrive, write-back is put off at most as often as  *)
(* there are dirty frags.                                                  *)
THEOREM StallsBounded == Spec => []StallsCostFrags
<1>1. Inv => StallsCostFrags
  BY DEF Inv
<1> QED  BY <1>1, Invariance, PTL

-----------------------------------------------------------------------------
(* Whom a batch leaves waiting.  A client that has its reply and did not   *)
(* send again is spare.  Without a signal, nobody sent anything since      *)
(* Wait(), so every packet of the batch that was served left one spare.    *)
InHand == IF pc \in {"packet", "refuse"} THEN {pack} ELSE {}

Spare == Client \ waiting

(* The port holds one packet of each client that waits, except the one     *)
(* whose packet is in hand.                                                *)
PortHolds == InHand \subseteq waiting /\ Listing(port, waiting \ InHand, Client)

Served ==
    /\ pc \in {"batch", "packet"} => msgtype >= 0
    /\ "dos" \notin sigs =>
          /\ pc = "batch"  => Cardinality(Spare) >= Batch - msgtype
          /\ pc = "packet" => Cardinality(Spare) >= Batch - msgtype - 1
          /\ pc = "wait"   => port = <<>> \/ Cardinality(Spare) >= Batch

ExcessInv == PortHolds /\ Served

LEMMA SpareCount == IsFiniteSet(Spare) /\ Cardinality(Spare) \in Nat
<1>1. IsFiniteSet(Spare)
  BY ClientAssumption, FS_Subset DEF Spare
<1> QED  BY <1>1, FS_CardinalityType

LEMMA InitExcess == Init => ExcessInv
<1> SUFFICES ASSUME Init PROVE ExcessInv
  OBVIOUS
<1>1. PortHolds
  BY DEF Init, PortHolds, InHand, Listing, NoRepeats, Elems
<1>2. Served
  BY SpareCount, BatchAssumption DEF Init, Served
<1> QED  BY <1>1, <1>2 DEF ExcessInv

(* A new packet sets the signal; a reply makes one more client spare.      *)
LEMMA SendExcess ==
    ASSUME TypeOK, ExcessInv, NEW c \in Client, Send(c)
    PROVE  ExcessInv'
<1>1. InHand' = InHand
  BY DEF Send, InHand
<1>2. c \notin waiting \ InHand
  BY DEF Send
<1>3. Listing(port', (waiting \ InHand) \cup {c}, Client)
  BY <1>2, ListingAppend DEF Send, ExcessInv, PortHolds
<1>4. /\ waiting' = waiting \cup {c}
      /\ waiting' \ InHand = (waiting \ InHand) \cup {c}
  BY DEF Send, ExcessInv, PortHolds
<1>5. PortHolds'
  BY <1>1, <1>3, <1>4 DEF ExcessInv, PortHolds
<1>6. Served'
  BY DEF Send, ExcessInv, Served
<1> QED  BY <1>5, <1>6 DEF ExcessInv

LEMMA TakeExcess ==
    ASSUME TypeOK, ExcessInv, TakePacket \/ TakeDead
    PROVE  ExcessInv'
<1>1. /\ port # <<>> /\ pack' = Head(port) /\ port' = Tail(port)
      /\ InHand = {} /\ InHand' = {pack'} /\ waiting' = waiting
  BY DEF TakePacket, TakeDead, InHand
<1>2. Listing(port, waiting, Client)
  BY <1>1 DEF ExcessInv, PortHolds
<1>3. Head(port) \in waiting /\ Listing(Tail(port), waiting \ {Head(port)}, Client)
  BY <1>1, <1>2, ListingTail
<1>4. PortHolds'
  BY <1>1, <1>3 DEF PortHolds
<1>5. Served'
  <2>1. CASE TakePacket
    <3>1. msgtype \in Nat /\ msgtype # 0 /\ msgtype' = msgtype - 1
      BY <2>1 DEF TakePacket, Fewer, TypeOK, ExcessInv, Served
    <3>2. Spare' = Spare /\ sigs' = sigs /\ pc = "batch" /\ pc' = "packet"
      BY <2>1 DEF TakePacket, Spare
    <3> QED
      BY <3>1, <3>2, SpareCount, BatchAssumption DEF ExcessInv, Served
  <2>2. CASE TakeDead
    BY <2>2 DEF TakeDead, Served
  <2> QED  BY <2>1, <2>2
<1> QED  BY <1>4, <1>5 DEF ExcessInv

LEMMA ReplyExcess ==
    ASSUME TypeOK, ExcessInv,
           pc \in {"packet", "refuse"}, pc' \in {"batch", "quiescent"},
           waiting' = waiting \ {pack},
           UNCHANGED <<port, sigs, msgtype>>,
           pc' = "batch" => pc = "packet"
    PROVE  ExcessInv'
<1>1. InHand = {pack} /\ InHand' = {} /\ pack \in waiting
  BY DEF InHand, ExcessInv, PortHolds
<1>2. PortHolds'
  BY <1>1 DEF ExcessInv, PortHolds
<1>3. Spare' = Spare \cup {pack} /\ pack \notin Spare
  BY <1>1 DEF Spare, TypeOK
<1>4. Cardinality(Spare') = Cardinality(Spare) + 1
  BY <1>3, SpareCount, FS_AddElement
<1>5. Served'
  <2>1. CASE pc' = "batch"
    BY <1>4, <2>1, SpareCount, BatchAssumption DEF ExcessInv, Served, TypeOK
  <2>2. CASE pc' = "quiescent"
    BY <2>2 DEF Served
  <2> QED  BY <2>1, <2>2
<1> QED  BY <1>2, <1>5 DEF ExcessInv

(* Everything else leaves the packets and the clients where they are.      *)
LEMMA OtherExcess ==
    ASSUME TypeOK, ExcessInv, UNCHANGED <<port, waiting>>,
           \/ Expire \/ DiskInterrupt \/ Wait \/ Signals \/ EndBatch \/ ShutDown
    PROVE  ExcessInv'
<1> USE SpareCount, BatchAssumption
<1>0. Spare' = Spare
  BY DEF Spare
<1>1. InHand' = InHand
  BY DEF Expire, DiskInterrupt, Wait, Signals, EndBatch, ShutDown, InHand
<1>2. PortHolds'
  BY <1>1 DEF ExcessInv, PortHolds
<1>3. CASE Expire \/ DiskInterrupt
  BY <1>0, <1>2, <1>3 DEF Expire, DiskInterrupt, ExcessInv, Served
<1>4. CASE Wait
  BY <1>2, <1>4 DEF Wait, ExcessInv, Served
<1>5. CASE Signals
  <2>1. pc' = "wait" => port' = <<>>
    BY <1>5 DEF Signals
  <2>2. pc' = "batch" => msgtype' = Batch
    BY <1>5 DEF Signals, ln_Type
  <2>3. pc' \in {"wait", "batch"}
    BY <1>5 DEF Signals
  <2> QED  BY <1>0, <1>2, <2>1, <2>2, <2>3 DEF ExcessInv, Served
<1>6. CASE EndBatch
  <2>1. pc = "batch" /\ pc' = "wait" /\ (msgtype = 0 \/ port = <<>>) /\ sigs' = sigs
    BY <1>6 DEF EndBatch
  <2> QED  BY <1>0, <1>2, <2>1 DEF ExcessInv, Served
<1>7. CASE ShutDown
  BY <1>2, <1>7 DEF ShutDown, ExcessInv, Served
<1> QED  BY <1>3, <1>4, <1>5, <1>6, <1>7

LEMMA NextExcess == TypeOK /\ ExcessInv /\ [Next]_vars => ExcessInv'
<1> SUFFICES ASSUME TypeOK, ExcessInv, [Next]_vars PROVE ExcessInv'
  OBVIOUS
<1>1. CASE \E c \in Client : Send(c)
  BY <1>1, SendExcess
<1>2. CASE Expire \/ DiskInterrupt \/ Wait \/ Signals \/ EndBatch \/ ShutDown
  <2>1. UNCHANGED <<port, waiting>>
    BY <1>2 DEF Expire, DiskInterrupt, Wait, Signals, EndBatch, ShutDown
  <2> QED  BY <1>2, <2>1, OtherExcess
<1>3. CASE TakePacket \/ TakeDead
  BY <1>3, TakeExcess
<1>4. ASSUME NEW dirty, NEW motor, NEW stop, Serve(dirty, motor, stop)
      PROVE  ExcessInv'
  <2>1. /\ pc = "packet" /\ pc' = "batch" /\ waiting' = waiting \ {pack}
        /\ UNCHANGED <<port, sigs, msgtype>>
    BY <1>4 DEF Serve, endpack
  <2> QED  BY <2>1, ReplyExcess
<1>5. CASE Refuse
  <2>1. /\ pc = "refuse" /\ pc' = "quiescent" /\ waiting' = waiting \ {pack}
        /\ UNCHANGED <<port, sigs, msgtype>>
    BY <1>5 DEF Refuse
  <2> QED  BY <2>1, ReplyExcess
<1>6. CASE UNCHANGED vars
  BY <1>6 DEF vars, ExcessInv, PortHolds, Served, InHand, Spare
<1> QED  BY <1>1, <1>2, <1>3, <1>4, <1>5, <1>6 DEF Next, Environment, handler

(* Packets wait without a signal only when a whole batch of other clients  *)
(* was served and is quiet: with Batch clients or fewer, never.            *)
THEOREM OnlyExcessLeft == Spec => []OnlyExcessWaits
<1>1. TypeOK /\ ExcessInv => OnlyExcessWaits
  <2> SUFFICES ASSUME TypeOK, ExcessInv, Unsignalled
               PROVE  Cardinality(waiting) + Batch <= Cardinality(Client)
    BY DEF OnlyExcessWaits
  <2>1. Cardinality(Spare) >= Batch
    BY DEF Unsignalled, ExcessInv, Served
  <2>2. /\ Spare \subseteq Client
        /\ waiting = Client \ Spare
    BY DEF Spare, TypeOK
  <2>3. Cardinality(waiting) = Cardinality(Client) - Cardinality(Client \cap Spare)
    BY <2>2, ClientAssumption, FS_Difference
  <2>4. Client \cap Spare = Spare
    BY <2>2
  <2>5. Cardinality(Client) \in Nat
    BY ClientAssumption, FS_CardinalityType
  <2>6. Cardinality(waiting) = Cardinality(Client) - Cardinality(Spare)
    BY <2>3, <2>4, Zenon
  <2>7. Batch \in Nat /\ Cardinality(Spare) \in Nat
    BY SpareCount, BatchAssumption
  <2> HIDE DEF Spare
  <2> QED  BY <2>1, <2>5, <2>6, <2>7
<1>2. Inv => TypeOK
  BY DEF Inv
<1> QED  BY <1>1, <1>2, Invariance, InitExcess, NextExcess, PTL DEF Spec
=============================================================================
