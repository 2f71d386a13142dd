--------------------------- MODULE LivePushProofs ---------------------------
(***************************************************************************)
(* No event is lost on any number of subscribed connections, however short *)
(* their queues: what a connection was sent last was built after the last  *)
(* event unless another one is in its queue or it is about to build a      *)
(* state.  Nothing is said of those the removal of the game unsubscribes.  *)
(***************************************************************************)
EXTENDS LivePush, TLAPS

Places == {"closed", "accept", "check", "build", "send", "wait"}

Typed ==
  /\ socket \in [Sockets -> Places]
  /\ queue \in [Sockets -> Nat]
  /\ pushed \in [Sockets -> [over : BOOLEAN, latest : BOOLEAN]]
  /\ over \in BOOLEAN
  /\ subscribed \subseteq Sockets

(* A state that is on its way counts as much as one that was sent.         *)
NothingMissed ==
  \A s \in subscribed :
    socket[s] \in {"send", "wait"} /\ queue[s] = 0 => pushed[s].latest

LiveInv == Typed /\ NothingMissed

(* Init establishes the invariant: nobody is subscribed.                   *)
LEMMA InitLive == Init => LiveInv
<1> SUFFICES ASSUME Init PROVE LiveInv
  OBVIOUS
<1>1. Nothing \in [over : BOOLEAN, latest : BOOLEAN]
  BY DEF Nothing
<1>2. subscribed = {}
  BY DEF Init
<1>3. Typed
  BY <1>1 DEF Init, Typed, Places
<1> QED  BY <1>2, <1>3 DEF LiveInv, NothingMissed

(* An event leaves something in the queue of every connection that is      *)
(* subscribed: a queue has room for at least one (event_bus.py:79-85).     *)
LEMMA PublishLive ==
  ASSUME LiveInv, Publish, UNCHANGED subscribed
  PROVE  /\ queue' \in [Sockets -> Nat]
         /\ pushed' \in [Sockets -> [over : BOOLEAN, latest : BOOLEAN]]
         /\ NothingMissed'
<1>1. \A t \in Sockets : Least(queue[t] + 1, QueueSize) \in Nat \ {0}
  BY QueueAssumption DEF LiveInv, Typed, Least
<1>2. queue' \in [Sockets -> Nat]
  BY <1>1 DEF Publish, LiveInv, Typed
<1>3. pushed' \in [Sockets -> [over : BOOLEAN, latest : BOOLEAN]]
  BY DEF Publish, LiveInv, Typed
<1>4. ASSUME NEW t \in subscribed'
      PROVE  queue'[t] # 0
  <2>1. t \in Sockets /\ Subscribed(t)
    BY <1>4 DEF Subscribed, LiveInv, Typed
  <2> QED  BY <1>1, <2>1 DEF Publish
<1> QED  BY <1>2, <1>3, <1>4 DEF NothingMissed

(* Each step of a call keeps the invariant.                                *)
LEMMA CallLive ==
  ASSUME LiveInv, NEW c, CallStep(c) \/ Request(c)
  PROVE  LiveInv'
<1>1. CASE EndGame(c) \/ Return(c)
  BY <1>1 DEF EndGame, Return, LiveInv, Typed, NothingMissed
<1>2. CASE Report(c) \/ GameOver(c) \/ Request(c)
  <2>1. Publish /\ UNCHANGED <<socket, subscribed>> /\ over' \in BOOLEAN
    BY <1>2 DEF Report, GameOver, Request, Begin, LiveInv, Typed
  <2>2. NothingMissed' /\ Typed'
    BY <2>1, PublishLive DEF LiveInv, Typed
  <2> QED  BY <2>2 DEF LiveInv
<1> QED  BY <1>1, <1>2 DEF CallStep

(* The removal of the game keeps the invariant: it leaves nobody in the    *)
(* bus.                                                                    *)
LEMMA CleanupLive ==
  ASSUME LiveInv, Cleanup
  PROVE  LiveInv'
BY DEF Cleanup, LiveInv, Typed, NothingMissed

(* Each step of a connection keeps the invariant.                          *)
LEMMA SocketLive ==
  ASSUME LiveInv, NEW s \in Sockets,
         \/ Connect(s) \/ Subscribe(s) \/ Receive(s) \/ InTime(s)
         \/ FoldLate(s) \/ Build(s) \/ Sent(s) \/ Close(s)
  PROVE  LiveInv'
<1> USE DEF LiveInv, Typed, NothingMissed, Places, Moves
<1>1. CASE Connect(s)
  BY <1>1 DEF Connect
<1>2. CASE Receive(s)
  BY <1>2 DEF Receive
<1>3. CASE InTime(s)
  BY <1>3 DEF InTime
<1>4. CASE FoldLate(s)
  <2>1. /\ Publish /\ UNCHANGED <<over, subscribed>>
        /\ socket' = [socket EXCEPT ![s] = "build"]
    BY <1>4 DEF FoldLate, Begin
  <2>2. NothingMissed' /\ Typed'
    BY <2>1, PublishLive
  <2> QED  BY <2>2
<1>5. CASE Build(s)
  BY <1>5 DEF Build
<1>6. CASE Sent(s)
  BY <1>6 DEF Sent
<1>7. CASE Close(s)
  BY <1>7 DEF Close, Nothing
<1>8. CASE Subscribe(s)
  BY <1>8 DEF Subscribe
<1> QED  BY <1>1, <1>2, <1>3, <1>4, <1>5, <1>6, <1>7, <1>8

(* A connection of the bus that waits with nothing in its queue was sent a *)
(* state built after the last event, for any number of connections and     *)
(* requests, any size of the queues, and wherever the removal of the game  *)
(* comes in (event_bus.py:72-94, ws_router.py:72-105).                     *)
THEOREM LastEventShown == Spec => []LastEventIsShown
<1>1. LiveInv /\ [Next]_vars => LiveInv'
  <2> SUFFICES ASSUME LiveInv, [Next]_vars PROVE LiveInv'
    OBVIOUS
  <2>1. CASE Next
    BY <2>1, CallLive, CleanupLive, SocketLive DEF Next
  <2>2. CASE UNCHANGED vars
    BY <2>2 DEF vars, LiveInv, Typed, NothingMissed
  <2> QED  BY <2>1, <2>2
<1>2. LiveInv => LastEventIsShown
  BY DEF LiveInv, NothingMissed, LastEventIsShown
<1> QED  BY InitLive, <1>1, <1>2, PTL DEF Spec
=============================================================================
