------------------------------ MODULE LivePush ------------------------------
(***************************************************************************)
(* How a game reaches the web sockets connected to it (core/event_bus.py,  *)
(* game_api/ws_router.py).  Calls of the game publish events while they    *)
(* change it, in threads of their own; each connection has a bounded queue *)
(* of them, and a coroutine of the one event loop that takes an event from *)
(* the queue, applies the turn clock, builds the state and sends it.       *)
(*                                                                         *)
(* An event only says that something happened, for the state sent is built *)
(* after it was taken: so a queue is as good as its length.  What a        *)
(* connection was sent last is represented by what is asked about it:      *)
(* whether it shows the end of the game, and whether an event has been     *)
(* published since it was built.                                           *)
(***************************************************************************)
EXTENDS Totals

CONSTANTS
  Sockets,   \* bound: so many web sockets, of players and of spectators
  Requests,  \* bound: so many HTTP requests that change the game at a time
  QueueSize  \* max_queue_size of GameEventBus

ASSUME QueueAssumption == QueueSize \in Nat \ {0}

VARIABLES
  over,     \* game_over
  calling,  \* the requests and connections in the middle of a call
  ending,   \* those of them that have ended the game and not yet said so
  socket,   \* by connection: what its coroutine does
  subscribed, \* _subscribers: the connections events are put to
  kept,     \* whether the manager still has the game
  queue,    \* by connection: the number of events in its queue
  pushed    \* by connection: the state it built last

vars == <<over, calling, ending, socket, subscribed, kept, queue, pushed>>

Nothing == [over |-> FALSE, latest |-> FALSE]

Init ==
  /\ over = FALSE
  /\ calling = {}
  /\ ending = {}
  /\ socket = [s \in Sockets |-> "closed"]
  /\ subscribed = {}
  /\ kept = TRUE
  /\ queue = [s \in Sockets |-> 0]
  /\ pushed = [s \in Sockets |-> Nothing]

-----------------------------------------------------------------------------
(* The bus.                                                                *)

(* Seeded fault: a connection subscribes once its first state is sent.     *)
SubscribedLate(s) == s \in subscribed /\ socket[s] = "wait"

Subscribed(s) == s \in subscribed

(* publish: the event is dropped where the queue is full.                  *)
Publish ==
  /\ queue' = [s \in Sockets |->
                 IF Subscribed(s) THEN Least(queue[s] + 1, QueueSize)
                 ELSE queue[s]]
  /\ pushed' = [s \in Sockets |-> [pushed[s] EXCEPT !.latest = FALSE]]

-----------------------------------------------------------------------------
(* A call of the game by c: an action, a resignation, a start, a join, or  *)
(* the fold of a player whose time is up.                                  *)

(* Its first change and the event that reports it.                         *)
Begin(c) ==
  /\ c \notin calling
  /\ calling' = calling \cup {c}
  /\ Publish
  /\ UNCHANGED <<over, ending, subscribed, kept>>

(* Another one: a street, the end of a hand, the next hand.                *)
Report(c) ==
  /\ c \in calling \ ending
  /\ Publish
  /\ UNCHANGED <<over, calling, ending, socket, subscribed, kept>>

(* game_over is set; the game is recorded and settled ...  An end that two *)
(* calls find counts as one, and as a report of the other call.            *)
EndGame(c) ==
  /\ c \in calling \ ending
  /\ ~over
  /\ over' = TRUE
  /\ ending' = ending \cup {c}
  /\ UNCHANGED <<calling, socket, subscribed, kept, queue, pushed>>

(* Seeded fault: the event is not passed on to the bus.                    *)
GameOverUnpublished(c) ==
  /\ c \in ending
  /\ ending' = ending \ {c}
  /\ UNCHANGED <<over, calling, socket, subscribed, kept, queue, pushed>>

(* ... before the event reaches the bus.                                   *)
GameOver(c) ==
  /\ c \in ending
  /\ ending' = ending \ {c}
  /\ Publish
  /\ UNCHANGED <<over, calling, socket, subscribed, kept>>

(* cleanup_completed, at the end of a game: of this one, before its event  *)
(* is published, or of a later one.  It drops the completed games but the  *)
(* last five of the list, and whoever is connected to them from the bus.   *)
(* Which games are older is not modelled: this one may be.                 *)
Cleanup ==
  /\ over
  /\ kept
  /\ kept' = FALSE
  /\ subscribed' = {}
  /\ UNCHANGED <<over, calling, ending, socket, queue, pushed>>

Return(c) ==
  /\ c \in calling \ ending
  /\ calling' = calling \ {c}
  /\ UNCHANGED <<over, ending, socket, subscribed, kept, queue, pushed>>

(* Chat goes on after the end of the game, and a request may have found    *)
(* the game before it was removed.                                         *)
Request(r) == Begin(r) /\ UNCHANGED socket

-----------------------------------------------------------------------------
(* The connections.  Between two awaits a coroutine has the loop to itself *)
(* but not the game.                                                       *)

LoopIsFree == \A s \in Sockets : socket[s] \notin {"check", "build"}

Moves(s, place) == socket' = [socket EXCEPT ![s] = place]

(* The game is found, and the connection is accepted ...                   *)
Connect(s) ==
  /\ socket[s] = "closed"
  /\ kept
  /\ LoopIsFree
  /\ Moves(s, "accept")
  /\ UNCHANGED <<over, calling, ending, subscribed, kept, queue, pushed>>

(* ... before it subscribes, and goes on to the first state.               *)
Subscribe(s) ==
  /\ socket[s] = "accept"
  /\ LoopIsFree
  /\ subscribed' = subscribed \cup {s}
  /\ Moves(s, "check")
  /\ UNCHANGED <<over, calling, ending, kept, queue, pushed>>

(* _event_listener takes an event.                                         *)
Receive(s) ==
  /\ socket[s] = "wait"
  /\ queue[s] > 0
  /\ LoopIsFree
  /\ queue' = [queue EXCEPT ![s] = @ - 1]
  /\ Moves(s, "check")
  /\ UNCHANGED <<over, calling, ending, subscribed, kept, pushed>>

(* _check_timeout, in time or too late                                     *)
InTime(s) ==
  /\ socket[s] = "check"
  /\ Moves(s, "build")
  /\ UNCHANGED <<over, calling, ending, subscribed, kept, queue, pushed>>

FoldLate(s) ==
  /\ socket[s] = "check"
  /\ ~over
  /\ Begin(s)
  /\ Moves(s, "build")

Build(s) ==
  /\ socket[s] = "build"
  /\ s \notin calling
  /\ pushed' = [pushed EXCEPT ![s] = [over |-> over, latest |-> TRUE]]
  /\ Moves(s, "send")
  /\ UNCHANGED <<over, calling, ending, subscribed, kept, queue>>

Sent(s) ==
  /\ socket[s] = "send"
  /\ Moves(s, "wait")
  /\ UNCHANGED <<over, calling, ending, subscribed, kept, queue, pushed>>

(* The client goes away or a send fails.                                   *)
Close(s) ==
  /\ socket[s] \in {"accept", "send", "wait"}
  /\ Moves(s, "closed")
  /\ subscribed' = subscribed \ {s}
  /\ queue' = [queue EXCEPT ![s] = 0]
  /\ pushed' = [pushed EXCEPT ![s] = Nothing]
  /\ UNCHANGED <<over, calling, ending, kept>>

CallStep(c) == Report(c) \/ EndGame(c) \/ GameOver(c) \/ Return(c)

Next ==
  \/ \E r \in Requests : Request(r)
  \/ \E c \in Requests \cup Sockets : CallStep(c)
  \/ Cleanup
  \/ \E s \in Sockets :
       \/ Connect(s)
       \/ Subscribe(s)
       \/ Receive(s)
       \/ InTime(s)
       \/ FoldLate(s)
       \/ Build(s)
       \/ Sent(s)
       \/ Close(s)

Spec == Init /\ [][Next]_vars

(* Calls return; a coroutine that has the loop goes on, a send comes to an *)
(* end, and the loop lets every coroutine that is ready run in its turn.   *)
Fairness ==
  /\ \A c \in Requests \cup Sockets :
       /\ WF_vars(GameOver(c))
       /\ WF_vars(Return(c))
  /\ \A s \in Sockets :
       /\ SF_vars(Subscribe(s))
       /\ WF_vars(InTime(s) \/ FoldLate(s))
       /\ WF_vars(Build(s))
       /\ WF_vars(Sent(s))
       /\ SF_vars(Receive(s))

FairSpec == Spec /\ Fairness

-----------------------------------------------------------------------------
(* A connection of the bus that waits with nothing in its queue was sent a *)
(* state built after the last event, although events come while it         *)
(* connects, builds or sends, while other connections have the loop, and   *)
(* get lost when its queue is full (event_bus.py:72-90;                    *)
(* ws_router.py:72-105, 163).                                              *)
LastEventIsShown ==
  \A s \in subscribed :
    socket[s] = "wait" /\ queue[s] = 0 => pushed[s].latest

(* Whoever is still subscribed when the end of the game has been           *)
(* published, or subscribes later, is shown that it is over, however slow  *)
(* he was until then, and although the removal of the game takes him from  *)
(* the bus the next moment (poker/game.py:423-431, ws_router.py:72-105,    *)
(* 165-173, event_bus.py:92-94).                                           *)
GameOverIsShown ==
  \A s \in Sockets :
    over /\ ending = {} /\ s \in subscribed
      ~> socket[s] = "closed" \/ pushed[s].over
=============================================================================
