------------------------------- MODULE Handler -------------------------------
(***************************************************************************)
(* The main loop of the file system process (fs/handler.c) against its     *)
(* clients, the timer device and the disk change interrupt.  The loop      *)
(* sleeps in Wait() on three signal bits, serves at most Batch packets per *)
(* wake-up, and delays the write-back of dirty frags with a timer.         *)
(*                                                                         *)
(*   port     packets at DosPort, by their sender (external: exec)         *)
(*   waiting  clients that sent a packet and have no reply yet             *)
(*   sigs     signal bits set and not yet taken by Wait() (external)       *)
(*   timer    timerIO: "armed" between SendIO() and its reply (external)   *)
(*   pc       "wait" at Wait(), "signals" after it, "batch" at the inner   *)
(*            loop, "packet" with a packet in hand; "quiescent" and        *)
(*            "refuse" are the two of the loop that says no to everything  *)
(*   got      receivedsignal                                               *)
(*   pack     the packet in hand, by its sender                            *)
(*   stalls   history variable: how often write-back was put off since the *)
(*            timer was started                                            *)
(*                                                                         *)
(* What a packet does to the volume is left to the other modules: here it  *)
(* changes cache_item_dirty and motor_is_on in any way.                    *)
(***************************************************************************)
EXTENDS Integers, Sequences, FiniteSets

CONSTANTS
    Client,         \* processes that send packets, one at a time
    Batch,          \* NT_MESSAGE, the ln_Type of a packet: 5
    timer_loops,    \* config.c: 12
    MaxDirty        \* dirty frags the cache can hold

ASSUME ClientAssumption == Client # {} /\ IsFiniteSet(Client)
ASSUME BatchAssumption  == Batch \in Nat \ {0}
ASSUME LoopsAssumption  == timer_loops \in Nat
ASSUME DirtyAssumption  == MaxDirty \in Nat

VARIABLES port, waiting, sigs, timer, pc, got, pack, msgtype,
          receiving_packets, timing, motor_is_on, cache_item_dirty,
          write_items, write_delay, stalls

vars == <<port, waiting, sigs, timer, pc, got, pack, msgtype,
          receiving_packets, timing, motor_is_on, cache_item_dirty,
          write_items, write_delay, stalls>>

Signal == {"dos", "timer", "dc"}

-----------------------------------------------------------------------------
(* The world around the handler.                                           *)

(* PutMsg(): the packet is queued and the port's signal bit set.           *)
Send(c) ==
    /\ c \notin waiting
    /\ waiting' = waiting \cup {c}
    /\ port' = Append(port, c)
    /\ sigs' = sigs \cup {"dos"}
    /\ UNCHANGED <<timer, pc, got, pack, msgtype, receiving_packets, timing,
                   motor_is_on, cache_item_dirty, write_items, write_delay,
                   stalls>>

(* timer.device replies to timerIO.                                        *)
Expire ==
    /\ timer = "armed"
    /\ timer' = "idle"
    /\ sigs' = sigs \cup {"timer"}
    /\ UNCHANGED <<port, waiting, pc, got, pack, msgtype, receiving_packets,
                   timing, motor_is_on, cache_item_dirty, write_items,
                   write_delay, stalls>>

(* IntHandler: the medium was taken out or put in.                         *)
DiskInterrupt ==
    /\ sigs' = sigs \cup {"dc"}
    /\ UNCHANGED <<port, waiting, timer, pc, got, pack, msgtype,
                   receiving_packets, timing, motor_is_on, cache_item_dirty,
                   write_items, write_delay, stalls>>

-----------------------------------------------------------------------------
(* The main loop.                                                          *)

(* Wait() takes all the bits that are set.                                 *)
Wait ==
    /\ pc = "wait" /\ receiving_packets
    /\ sigs # {}
    /\ got' = sigs
    /\ sigs' = {}
    /\ pc' = "signals"
    /\ UNCHANGED <<port, waiting, timer, pack, msgtype, receiving_packets,
                   timing, motor_is_on, cache_item_dirty, write_items,
                   write_delay, stalls>>

(* The timer expired.  Write-back is put off once more when frags became   *)
(* dirty since the last time and write_delay has not run out; otherwise    *)
(* PFlush() writes everything.                                             *)
PutOff == cache_item_dirty > write_items /\ write_delay > 0

(* (Mutant: write_items keeps its value.)                                  *)
ItemsNotNoted ==
    IF PutOff
    THEN /\ write_delay' = write_delay - 1
         /\ timer' = "armed"
         /\ stalls' = stalls + 1
         /\ UNCHANGED <<timing, write_items>>
    ELSE /\ timing' = FALSE
         /\ stalls' = 0
         /\ UNCHANGED <<write_items, write_delay, timer>>

TimerExpired ==
    IF PutOff
    THEN /\ write_items' = cache_item_dirty
         /\ write_delay' = write_delay - 1
         /\ timer' = "armed"
         /\ stalls' = stalls + 1
         /\ UNCHANGED timing
    ELSE /\ timing' = FALSE
         /\ stalls' = 0
         /\ UNCHANGED <<write_items, write_delay, timer>>

(* How many packets to serve: the ln_Type of the first one, if any.        *)
(* (Mutant: one at a time.)                                                *)
OnePacket == IF port = <<>> THEN 0 ELSE 1
ln_Type   == IF port = <<>> THEN 0 ELSE Batch

(* The two signals besides the packets', then the motor when there are     *)
(* none.  PFlush() and PDiskChange() both leave nothing dirty.             *)
Signals ==
    LET flush == "timer" \in got /\ ~PutOff
    IN  /\ pc = "signals"
        /\ IF "timer" \in got THEN TimerExpired
                              ELSE UNCHANGED <<timing, write_items,
                                               write_delay, timer, stalls>>
        /\ cache_item_dirty' =
               IF flush \/ "dc" \in got THEN 0 ELSE cache_item_dirty
        /\ msgtype' = ln_Type
        /\ \E m \in {motor_is_on, flush \/ motor_is_on,
                     "dc" \notin got /\ motor_is_on} :
              motor_is_on' = (m /\ ~(port = <<>> /\ ~timing'))
        /\ pc' = IF port = <<>> THEN "wait" ELSE "batch"
        /\ UNCHANGED <<port, waiting, sigs, got, pack, receiving_packets>>

(* while (msgtype-- && there is a packet): WaitPkt() need not wait, and so *)
(* leaves the signal bit alone.  A negative msgtype never runs out.        *)
Fewer(n) == IF n < 0 THEN n ELSE n - 1

TakePacket ==
    /\ pc = "batch"
    /\ msgtype # 0 /\ port # <<>>
    /\ msgtype' = Fewer(msgtype)
    /\ pack' = Head(port)
    /\ port' = Tail(port)
    /\ pc' = "packet"
    /\ UNCHANGED <<waiting, sigs, timer, got, receiving_packets, timing,
                   motor_is_on, cache_item_dirty, write_items, write_delay,
                   stalls>>

EndBatch ==
    /\ pc = "batch"
    /\ msgtype = 0 \/ port = <<>>
    /\ msgtype' = Fewer(msgtype)
    /\ pc' = "wait"
    /\ UNCHANGED <<port, waiting, sigs, timer, got, pack, receiving_packets,
                   timing, motor_is_on, cache_item_dirty, write_items,
                   write_delay, stalls>>

(* endpack: with the motor on or frags dirty the timer must run.           *)
(* (Mutant: the timer is for the motor only.)                              *)
endpack_motor(dirty, motor) ==
    /\ cache_item_dirty' = dirty
    /\ motor_is_on' = motor
    /\ IF motor /\ ~timing
       THEN /\ write_delay' = timer_loops
            /\ timing' = TRUE
            /\ write_items' = dirty
            /\ timer' = "armed"
            /\ stalls' = 0
       ELSE UNCHANGED <<timing, write_items, write_delay, timer, stalls>>
    /\ waiting' = waiting \ {pack}
    /\ pc' = "batch"

(* (Mutant: the timer is started again by every packet.)                   *)
endpack_restart(dirty, motor) ==
    /\ cache_item_dirty' = dirty
    /\ motor_is_on' = (motor \/ dirty > 0)
    /\ IF motor \/ dirty > 0
       THEN /\ write_delay' = timer_loops
            /\ timing' = TRUE
            /\ write_items' = dirty
            /\ timer' = "armed"
            /\ stalls' = 0
       ELSE UNCHANGED <<timing, write_items, write_delay, timer, stalls>>
    /\ waiting' = waiting \ {pack}
    /\ pc' = "batch"

endpack(dirty, motor) ==
    /\ cache_item_dirty' = dirty
    /\ motor_is_on' = (motor \/ dirty > 0)
    /\ IF motor \/ dirty > 0
       THEN /\ write_delay' = timer_loops
            /\ IF timing
               THEN UNCHANGED <<timing, write_items, timer, stalls>>
               ELSE /\ timing' = TRUE
                    /\ write_items' = dirty
                    /\ timer' = "armed"
                    /\ stalls' = 0
       ELSE UNCHANGED <<timing, write_items, write_delay, timer, stalls>>
    /\ waiting' = waiting \ {pack}
    /\ pc' = "batch"

(* A packet is served and replied to.  PDie(), and the checks of the cache *)
(* that find it corrupted, stop the loop.                                  *)
Serve(dirty, motor, stop) ==
    /\ pc = "packet"
    /\ endpack(dirty, motor)
    /\ receiving_packets' = (receiving_packets /\ ~stop)
    /\ UNCHANGED <<port, sigs, got, pack, msgtype>>

-----------------------------------------------------------------------------
(* After the loop.  close_filesystem() writes everything back, and         *)
(* close_timer() waits for a timer that is still running.                  *)
(* (Mutant: it waits for the signal of a timer whether one runs or not.)   *)
ShutDownWaits ==
    /\ pc = "wait" /\ ~receiving_packets
    /\ timer = "idle" /\ "timer" \in sigs
    /\ cache_item_dirty' = 0
    /\ motor_is_on' = FALSE
    /\ sigs' = sigs \ {"timer"}
    /\ pc' = "quiescent"
    /\ UNCHANGED <<port, waiting, timer, got, pack, msgtype,
                   receiving_packets, timing, write_items, write_delay,
                   stalls>>

ShutDown ==
    /\ pc = "wait" /\ ~receiving_packets
    /\ timer = "idle"
    /\ cache_item_dirty' = 0
    /\ motor_is_on' = FALSE
    /\ sigs' = sigs \ {"timer"}
    /\ pc' = "quiescent"
    /\ UNCHANGED <<port, waiting, timer, got, pack, msgtype,
                   receiving_packets, timing, write_items, write_delay,
                   stalls>>

(* WaitPkt() clears the signal bit if it had to wait.                      *)
TakeDead ==
    /\ pc = "quiescent"
    /\ port # <<>>
    /\ pack' = Head(port)
    /\ port' = Tail(port)
    /\ sigs' \in {sigs, sigs \ {"dos"}}
    /\ pc' = "refuse"
    /\ UNCHANGED <<waiting, timer, got, msgtype, receiving_packets, timing,
                   motor_is_on, cache_item_dirty, write_items, write_delay,
                   stalls>>

Refuse ==
    /\ pc = "refuse"
    /\ waiting' = waiting \ {pack}
    /\ pc' = "quiescent"
    /\ UNCHANGED <<port, sigs, timer, got, pack, msgtype, receiving_packets,
                   timing, motor_is_on, cache_item_dirty, write_items,
                   write_delay, stalls>>

(* The startup packet is in hand; without a timer it is refused.           *)
Init ==
    /\ port = <<>>
    /\ sigs = {}
    /\ timer = "idle"
    /\ pack \in Client
    /\ waiting = {pack}
    /\ got = {}
    /\ msgtype = Batch
    /\ \/ pc = "packet" /\ receiving_packets = TRUE
       \/ pc = "refuse" /\ receiving_packets = FALSE
    /\ timing = FALSE
    /\ motor_is_on = FALSE
    /\ cache_item_dirty = 0
    /\ write_items = 0
    /\ write_delay = 0
    /\ stalls = 0

Environment ==
    \/ \E c \in Client : Send(c)
    \/ Expire
    \/ DiskInterrupt

handler ==
    \/ Wait
    \/ Signals
    \/ TakePacket
    \/ EndBatch
    \/ \E dirty \in 0..MaxDirty, motor, stop \in BOOLEAN :
          Serve(dirty, motor, stop)
    \/ ShutDown
    \/ TakeDead
    \/ Refuse

(* exec schedules the handler whenever it can run, and the timer device    *)
(* answers.  Nobody has to send packets or change the medium.              *)
Fairness == WF_vars(handler) /\ WF_vars(Expire)

Next == Environment \/ handler

Spec == Init /\ [][Next]_vars /\ Fairness

-----------------------------------------------------------------------------
(* Every variable keeps its type.                                          *)
TypeOK ==
    /\ port \in Seq(Client) /\ waiting \subseteq Client
    /\ sigs \subseteq Signal /\ got \subseteq Signal
    /\ timer \in {"idle", "armed"}
    /\ pc \in {"wait", "signals", "batch", "packet", "quiescent", "refuse"}
    /\ pack \in Client
    /\ msgtype \in -1..Batch
    /\ receiving_packets \in BOOLEAN /\ timing \in BOOLEAN
    /\ motor_is_on \in BOOLEAN
    /\ cache_item_dirty \in 0..MaxDirty /\ write_items \in 0..MaxDirty
    /\ write_delay \in 0..timer_loops
    /\ stalls \in Nat

(* timing says whether the timer runs or its reply is still to be looked   *)
(* at, so frags never wait for a timer that does not run                   *)
(* (handler.c:230-246, 296-305).                                           *)
TimerPending ==
    \/ timer = "armed"
    \/ "timer" \in sigs
    \/ pc = "signals" /\ "timer" \in got

TimingIsTimer == pc \notin {"quiescent", "refuse"} => (timing <=> TimerPending)

(* The one timerIO is in one place at a time: SendIO() is never given a    *)
(* request that the device still holds or whose reply was not looked at    *)
(* (handler.c:45-47, 239, 302).                                            *)
OneTimer ==
    /\ "timer" \in sigs => timer = "idle"
    /\ pc = "signals" /\ "timer" \in got
          => timer = "idle" /\ "timer" \notin sigs

(* While the loop runs, dirty frags have a timer that ends the wait for    *)
(* their write-back, whatever turned the motor on or off in the meantime   *)
(* (handler.c:230-255, 296-305).                                           *)
DirtyHasTimer ==
    pc \notin {"quiescent", "refuse"} /\ cache_item_dirty > 0 => timing

(* Write-back is put off only as often as frags became dirty: every time   *)
(* takes one more of them than the last (handler.c:231-240).               *)
StallsCostFrags == timing => stalls <= write_items

(* Dirty frags are written back in the end, whatever packets arrive.       *)
WrittenBack == cache_item_dirty > 0 ~> cache_item_dirty = 0

(* A batch leaves packets behind without a signal to come back for them    *)
(* only when there were more than it may serve: "spin to receive max five  *)
(* (msgtype) packets at a time".  So many clients wait no longer than the  *)
(* batch served (handler.c:257-308).                                       *)
Unsignalled == pc = "wait" /\ "dos" \notin sigs /\ port # <<>>

OnlyExcessWaits ==
    Unsignalled => Cardinality(waiting) + Batch <= Cardinality(Client)

(* Every packet gets its reply, unless the handler oversleeps what a batch *)
(* left behind: there is no signal, the timer does not run, and nobody     *)
(* sends anything again (handler.c:219, 257-308).                          *)
Overslept == /\ Unsignalled /\ receiving_packets
             /\ sigs = {} /\ timer = "idle"

EveryPacketReplied ==
    \A c \in Client : (c \in waiting ~> c \notin waiting) \/ <>[]Overslept
=============================================================================
