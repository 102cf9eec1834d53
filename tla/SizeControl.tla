----------------------------- MODULE SizeControl -----------------------------
(***************************************************************************)
(* Several browser tabs share the size of one session.  At most one user   *)
(* has the adaptive lock (web/application/adaptive_lock) and resizes the   *)
(* session at will; the handlers of the event loop (handlers/size_mode,    *)
(* handlers/session) take, release and clear it, resize the session on a   *)
(* pool thread and tell the tabs (event_publisher); each tab keeps what it *)
(* was told (static/js/application/messageHandlers) and offers its user    *)
(* the buttons that go with it.                                            *)
(*                                                                         *)
(* A handler runs on the loop up to its await, and what it broadcasts and  *)
(* answers enters the queue of every tab in the order of the calls, so     *)
(* both are one step.  A queue that is full drops them; output fills the   *)
(* queues too, and is not modelled, so any queue may be full at any time.  *)
(* Handlers of different connections interleave at the await of a resize.  *)
(* Every message about the lock sets what the tab believes of the owner,   *)
(* and that is all a message carries here; of the messages about the size  *)
(* alone only the resize itself is modelled.                               *)
(***************************************************************************)
EXTENDS Integers, Sequences, FiniteSets

CONSTANTS
  Conns,       \* connections, one per tab
  Users,       \* client_uid: what the tabs of one browser have in common
  User,        \* whose each connection is
  Sizes,
  FirstSize,
  Reader,      \* the thread that reads the output of the session
  MaxChoices   \* bound: what all users, and the program, ask for

NoOne == "no one"
Someone == "someone"   \* there is an owner, the message does not say who

ASSUME SizeControlAssumption ==
  /\ User \in [Conns -> Users]
  /\ NoOne \notin Users /\ Someone \notin Users
  /\ Reader \notin Conns
  /\ FirstSize \in Sizes
  /\ MaxChoices \in Nat

VARIABLES
  owner,       \* AdaptiveLockService._owners
  open,        \* WebServer._connections
  subscribed,  \* the connections that are subscribed to the session
  task,        \* the handler of each connection that awaits a resize
  thread,      \* the pool thread of each connection, and the reader, in Session.resize
  screen, pty, \* the size of the terminal model and of the terminal itself
  up,          \* requests on their way, in order
  down,        \* messages on their way to the tab, in order
  view,        \* adaptiveOwnerActive, adaptiveOwnerUid and localAdaptiveOwnerUids of a tab
  wanted,      \* tabs that have the session in their tab bar
  shown,       \* those that were told of it, and show it
  choices,
  abandoned,   \* history: an owner unsubscribed and stayed the owner
  untold,      \* history: connections that were not told, or told wrong, when word last was
               \* due: their queue was full, a request for a fixed size failed after it had
               \* given up the lock, or the lock was taken, or the connection lost, during one
  whole        \* history: the newest resize ran alone, and no part of it has failed

serverVars == <<owner, open, subscribed, task>>
sizeVars == <<thread, screen, pty, whole>>
tabVars == <<view, wanted, shown>>
history == <<abandoned, untold>>
vars == <<serverVars, sizeVars, up, down, tabVars, choices, history>>

Idle == [at |-> "none", size |-> FirstSize]
Requests == [type : {"subscribe", "unsubscribe", "adaptive", "fixed", "sizeless", "default",
                     "takeover", "resize"}, size : Sizes]
Request(type) == [type |-> type, size |-> FirstSize]
SizeRequest(type, size) == [type |-> type, size |-> size]
Beliefs == Users \cup {NoOne, Someone}

Init ==
  /\ owner = NoOne
  /\ open = Conns
  /\ subscribed = {}
  /\ task = [c \in Conns |-> "none"]
  /\ thread = [c \in Conns \cup {Reader} |-> Idle]
  /\ screen = FirstSize /\ pty = FirstSize
  /\ up = [c \in Conns |-> <<Request("subscribe")>>]
  /\ down = [c \in Conns |-> <<>>]
  /\ view = [c \in Conns |-> NoOne]
  /\ wanted = Conns /\ shown = {}
  /\ choices = 0
  /\ abandoned = FALSE /\ untold = {} /\ whole = TRUE

Message(who) == [owner |-> who, opens |-> FALSE]
\* ws_subscribed says who has the lock.
Subscribed == [owner |-> owner, opens |-> TRUE]
-----------------------------------------------------------------------------
(* The tab.                                                                *)
Locked(c) == view[c] \notin {NoOne, User[c]}

Ask(c, requests) ==
  /\ c \in open \cap shown /\ choices < MaxChoices
  /\ choices' = choices + 1
  /\ up' = [up EXCEPT ![c] = @ \o requests]
  /\ UNCHANGED <<serverVars, sizeVars, down, view, history>>

\* Fitting the terminal to its frame sends a resize if it changes the size.
ChooseAdaptive(c, size) ==
  /\ ~Locked(c) /\ UNCHANGED <<wanted, shown>>
  /\ \/ Ask(c, <<Request("adaptive")>>)
     \/ Ask(c, <<Request("adaptive"), SizeRequest("resize", size)>>)

\* A fixed or custom size is sent with the mode, and again as a resize.
ChooseFixed(c, size) ==
  /\ ~Locked(c) /\ UNCHANGED <<wanted, shown>>
  /\ Ask(c, <<SizeRequest("fixed", size), SizeRequest("resize", size)>>)

\* A client that leaves the size out, as this tab never does.
AskSizeless(c) ==
  /\ Ask(c, <<Request("sizeless")>>)
  /\ UNCHANGED <<wanted, shown>>

\* The default is the size the tab was last told.
ChooseDefault(c, size) ==
  /\ ~Locked(c) /\ UNCHANGED <<wanted, shown>>
  /\ Ask(c, <<Request("default"), SizeRequest("resize", size)>>)

\* A frame that changes in adaptive mode.
Fit(c, size) ==
  /\ ~Locked(c) /\ UNCHANGED <<wanted, shown>>
  /\ Ask(c, <<SizeRequest("resize", size)>>)

AskTakeover(c) ==
  /\ Locked(c) /\ UNCHANGED <<wanted, shown>>
  /\ Ask(c, <<Request("takeover")>>)

CloseTab(c) ==
  /\ Ask(c, <<Request("unsubscribe")>>)
  /\ shown' = shown \ {c}
  /\ wanted' = wanted \ {c}

\* A session that was closed is asked for again.
OpenTab(c) ==
  /\ c \in open \ wanted /\ choices < MaxChoices
  /\ wanted' = wanted \cup {c}
  /\ choices' = choices + 1
  /\ up' = [up EXCEPT ![c] = Append(@, Request("subscribe"))]
  /\ UNCHANGED <<serverVars, sizeVars, down, view, shown, history>>

\* handleSubscribed, handleSizeModeChanged, handleSizeModeAck, handleTakeoverAck.  What
\* was asked for before the session was closed does not open it again.
Receive(c) ==
  /\ down[c] # <<>> /\ UNCHANGED wanted
  /\ down' = [down EXCEPT ![c] = Tail(@)]
  /\ shown' = IF Head(down[c]).opens THEN shown \cup ({c} \cap wanted) ELSE shown
  /\ view' = [view EXCEPT ![c] = IF c \in shown' THEN Head(down[c]).owner ELSE @]
  /\ UNCHANGED <<serverVars, sizeVars, up, choices, history>>
-----------------------------------------------------------------------------
(* The handlers on the loop.                                               *)
Serving(c, type) ==
  /\ c \in open /\ task[c] = "none"
  /\ up[c] # <<>> /\ Head(up[c]).type = type
  /\ up' = [up EXCEPT ![c] = Tail(@)]

\* publish_size_mode_changed to the subscribers but one, and the answer to that one.  A
\* queue that is full takes nothing; one with room for the first of two equal messages
\* leaves the tab as wise as both would.
Put(told, message, c, answer, full) ==
  down' = [d \in Conns |->
             IF d \in full THEN down[d]
             ELSE LET news == IF d \in told THEN Append(down[d], message) ELSE down[d]
                  IN IF d = c THEN Append(news, answer) ELSE news]

Tell(told, message, c, answer) ==
  \E full \in SUBSET (told \cup {c}) :
    /\ Put(told, message, c, answer, full)
    /\ untold' = (untold \ (told \cup {c})) \cup full

\* SubscribeSessionHandler: what it says of the lock, be it the first time or not.
Subscribe(c) ==
  /\ Serving(c, "subscribe")
  /\ subscribed' = subscribed \cup {c}
  /\ Tell({}, Message(NoOne), c, Subscribed)
  /\ UNCHANGED <<owner, open, task, sizeVars, tabVars, choices, abandoned>>

\* The lock stays with its owner.
Unsubscribe(c) ==
  /\ Serving(c, "unsubscribe")
  /\ subscribed' = subscribed \ {c}
  /\ abandoned' = (abandoned \/ owner = User[c])
  /\ untold' = untold \ {c}
  /\ UNCHANGED <<owner, open, task, sizeVars, down, tabVars, choices>>

\* The lock is cleared; everybody is told, and the new one chooses a mode next.
Takeover(c) ==
  /\ Serving(c, "takeover")
  /\ owner' = NoOne
  /\ Tell(subscribed, Message(NoOne), c, Message(NoOne))
  /\ UNCHANGED <<open, subscribed, task, sizeVars, tabVars, choices, abandoned>>

SetAdaptive(c) ==
  /\ Serving(c, "adaptive")
  /\ owner' = User[c]
  /\ Tell(subscribed \ {c}, Message(User[c]), c, Message(User[c]))
  /\ UNCHANGED <<open, subscribed, task, sizeVars, tabVars, choices, abandoned>>

\* An answer that names the error; the tab shows it and changes nothing.
Refused(c) ==
  /\ \E type \in {"fixed", "sizeless", "default", "resize"} : Serving(c, type)
  /\ owner \notin {NoOne, User[c]}
  /\ UNCHANGED <<serverVars, sizeVars, down, tabVars, choices, history>>

SetDefault(c) ==
  /\ Serving(c, "default")
  /\ owner \in {NoOne, User[c]}
  /\ owner' = NoOne
  /\ Tell(subscribed \ {c}, Message(NoOne), c, Message(NoOne))
  /\ UNCHANGED <<open, subscribed, task, sizeVars, tabVars, choices, abandoned>>

\* A call of Session.resize on the thread of key k.
StartResize(k, size) ==
  /\ thread' = [thread EXCEPT ![k] = [at |-> "screen", size |-> size]]
  /\ whole' = ~\E j \in DOMAIN thread : thread[j].at \in {"screen", "pty"}
  /\ UNCHANGED <<screen, pty>>

\* set_size_mode: the lock is given up before the resize and the others are told after it.
SetFixed(c) ==
  /\ Serving(c, "fixed")
  /\ owner \in {NoOne, User[c]}
  /\ owner' = NoOne
  /\ task' = [task EXCEPT ![c] = "fixed"]
  /\ StartResize(c, Head(up[c]).size)
  /\ UNCHANGED <<open, subscribed, down, tabVars, choices, history>>

\* Without a size there is an error, and the lock has been given up all the same.
SetSizeless(c) ==
  /\ Serving(c, "sizeless")
  /\ owner \in {NoOne, User[c]}
  /\ owner' = NoOne
  /\ untold' = IF owner = NoOne THEN untold ELSE untold \cup subscribed
  /\ UNCHANGED <<open, subscribed, task, sizeVars, down, tabVars, choices, abandoned>>

Resize(c) ==
  /\ Serving(c, "resize")
  /\ owner \in {NoOne, User[c]}
  /\ task' = [task EXCEPT ![c] = "resize"]
  /\ StartResize(c, Head(up[c]).size)
  /\ UNCHANGED <<owner, open, subscribed, down, tabVars, choices, history>>

\* After the await.
Resumes(c) ==
  /\ task[c] # "none" /\ thread[c].at \in {"done", "raised"}
  /\ task' = [task EXCEPT ![c] = "none"]
  /\ thread' = [thread EXCEPT ![c] = Idle]
  /\ UNCHANGED <<owner, open, subscribed, screen, pty, whole, up, tabVars, choices, abandoned>>

\* Mutant: the others are told only that the size has changed.
FinishTellsSize(c) ==
  /\ Resumes(c) /\ task[c] = "fixed" /\ thread[c].at = "done"
  /\ Tell({}, Message(NoOne), c, Message(NoOne))

\* For a fixed size the others are told whether somebody has the lock by now, and never
\* who; the tab that asked takes the answer to mean that nobody has.
Finish(c) ==
  /\ Resumes(c) /\ task[c] = "fixed" /\ thread[c].at = "done"
  /\ \/ owner = NoOne /\ Tell(subscribed \ {c}, Message(NoOne), c, Message(NoOne))
     \/ /\ owner # NoOne
        /\ \E full \in SUBSET (subscribed \cup {c}) :
             Put(subscribed \ {c}, Message(Someone), c, Message(NoOne), full)
        /\ untold' = untold \cup subscribed \cup {c}

\* The resize raised: an answer that names the error, and nobody is told of the lock.
FinishFailed(c) ==
  /\ Resumes(c) /\ task[c] = "fixed" /\ thread[c].at = "raised"
  /\ untold' = untold \cup subscribed
  /\ UNCHANGED down

\* ResizeHandler.
Resized(c) ==
  /\ Resumes(c) /\ task[c] = "resize"
  /\ UNCHANGED <<down, untold>>
-----------------------------------------------------------------------------
(* Session.resize (session/output.py), which takes no lock.                *)
\* Nobody waits for the reader's thread, or for one whose handler was cancelled, and
\* ResizeHandler tells nobody of the lock whether it raised or not.
Ends(k, how) ==
  thread' = [thread EXCEPT ![k] = IF k = Reader \/ task[k] = "none" THEN Idle
                                   ELSE [Idle EXCEPT !.at = IF task[k] = "fixed" THEN how ELSE "done"]]

\* A terminal model that fails is passed over; what follows one that does not may raise.
ResizeScreen(k) ==
  /\ thread[k].at = "screen"
  /\ \/ /\ thread' = [thread EXCEPT ![k].at = "pty"]
        /\ screen' \in {screen, thread[k].size}
        /\ whole' = (whole /\ screen' = thread[k].size)
     \/ Ends(k, "raised") /\ screen' = thread[k].size /\ whole' = FALSE
  /\ UNCHANGED <<serverVars, pty, up, down, tabVars, choices, history>>

\* Mutant: a resize whose handler was cancelled stops half way.
ResizePtyIfAwaited(k) ==
  /\ thread[k].at = "pty"
  /\ pty' = IF k = Reader \/ task[k] # "none" THEN thread[k].size ELSE pty
  /\ Ends(k, "done")
  /\ UNCHANGED <<serverVars, screen, whole, up, down, tabVars, choices, history>>

\* So is a terminal that fails.
ResizePty(k) ==
  /\ thread[k].at = "pty"
  /\ pty' \in {pty, thread[k].size}
  /\ whole' = (whole /\ pty' = thread[k].size)
  /\ Ends(k, "done") \/ Ends(k, "raised")
  /\ UNCHANGED <<serverVars, screen, up, down, tabVars, choices, history>>

\* The program asks for a size of its own (CSI 8 t), and the reader applies it.
ProgramResizes(size) ==
  /\ thread[Reader].at = "none" /\ size # screen
  /\ choices < MaxChoices
  /\ choices' = choices + 1
  /\ StartResize(Reader, size)
  /\ UNCHANGED <<serverVars, up, down, tabVars, history>>
-----------------------------------------------------------------------------
(* The end of a connection.                                                *)

\* _has_other_active_subscriber, once the connection's own subscription is gone.
Inherited(c) == \E d \in (open \cap subscribed) \ {c} : User[d] = User[c]

\* A tab that lives on does so with another connection.
TabGone(c) ==
  /\ view' = [view EXCEPT ![c] = NoOne]
  /\ shown' = shown \ {c}
  /\ wanted' = wanted \ {c}

\* Mutant: a lock that another connection of the user could inherit stays in any case.
CleanupKeepsLock(c, missed) ==
  /\ subscribed' = subscribed \ {c}
  /\ open' = open \ {c}
  /\ up' = [up EXCEPT ![c] = <<>>]
  /\ task' = [task EXCEPT ![c] = "none"]
  /\ TabGone(c)
  /\ down' = [down EXCEPT ![c] = <<>>]
  /\ untold' = (untold \cup missed) \ {c}
  /\ IF c \in subscribed /\ owner = User[c] /\ ~\E d \in open \ {c} : User[d] = User[c]
     THEN owner' = NoOne
     ELSE UNCHANGED owner

\* WebSocketController._cleanup; the connections missed are those that a handler still had
\* to tell.
Cleanup(c, missed) ==
  /\ subscribed' = subscribed \ {c}
  /\ open' = open \ {c}
  /\ up' = [up EXCEPT ![c] = <<>>]
  /\ task' = [task EXCEPT ![c] = "none"]
  /\ TabGone(c)
  /\ IF c \in subscribed /\ owner = User[c] /\ ~Inherited(c)
     THEN /\ owner' = NoOne
          /\ \E full \in SUBSET subscribed' :
               /\ down' = [d \in Conns |->
                             IF d = c THEN <<>>
                             ELSE IF d \in subscribed \ full THEN Append(down[d], Message(NoOne))
                             ELSE down[d]]
               /\ untold' = full
     ELSE /\ down' = [down EXCEPT ![c] = <<>>]
          /\ untold' = (untold \cup missed) \ {c}
          /\ UNCHANGED owner

\* The consumer finds the connection closed between two requests.
Leaves(c) ==
  /\ c \in open /\ task[c] = "none"
  /\ Cleanup(c, {})
  /\ UNCHANGED <<sizeVars, choices, abandoned>>

\* The producer cannot send, and the consumer is cancelled where it awaits a resize.
\* What it had to tell the others is not told.
CutOff(c) ==
  /\ c \in open /\ task[c] # "none" /\ down[c] # <<>>
  /\ Cleanup(c, IF task[c] = "fixed" THEN subscribed ELSE {})
  /\ thread' = [thread EXCEPT ![c] = IF @.at \in {"done", "raised"} THEN Idle ELSE @]
  /\ UNCHANGED <<screen, pty, whole, choices, abandoned>>
-----------------------------------------------------------------------------
Tab(c) ==
  \/ \E size \in Sizes : ChooseAdaptive(c, size) \/ ChooseFixed(c, size)
                           \/ ChooseDefault(c, size) \/ Fit(c, size)
  \/ AskSizeless(c) \/ AskTakeover(c) \/ OpenTab(c) \/ CloseTab(c) \/ Receive(c)

Handler(c) ==
  \/ Subscribe(c) \/ Unsubscribe(c) \/ Takeover(c) \/ SetAdaptive(c) \/ Refused(c)
  \/ SetDefault(c) \/ SetFixed(c) \/ SetSizeless(c) \/ Resize(c)
  \/ Finish(c) \/ FinishFailed(c) \/ Resized(c)

Next ==
  \/ \E c \in Conns : Tab(c) \/ Handler(c) \/ Leaves(c) \/ CutOff(c)
  \/ \E k \in Conns \cup {Reader} : ResizeScreen(k) \/ ResizePty(k)
  \/ \E size \in Sizes : ProgramResizes(size)

Spec == Init /\ [][Next]_vars
-----------------------------------------------------------------------------
\* Every variable has a value of its kind, and requests come only from open tabs.
TypeOK ==
  /\ owner \in Users \cup {NoOne}
  /\ open \subseteq Conns /\ subscribed \subseteq open
  /\ task \in [Conns -> {"none", "fixed", "resize"}]
  /\ thread \in [Conns \cup {Reader} -> [at : {"none", "screen", "pty", "done", "raised"}, size : Sizes]]
  /\ screen \in Sizes /\ pty \in Sizes
  /\ up \in [Conns -> Seq(Requests)]
  /\ down \in [Conns -> Seq([owner : Beliefs, opens : BOOLEAN])]
  /\ view \in [Conns -> Beliefs] /\ shown \subseteq wanted /\ wanted \subseteq Conns
  /\ choices \in 0..MaxChoices
  /\ {abandoned, whole} \subseteq BOOLEAN /\ untold \subseteq Conns

Resizing == \E k \in DOMAIN thread : thread[k].at # "none"
AtRest == ~Resizing /\ \A c \in open : up[c] = <<>> /\ down[c] = <<>> /\ task[c] = "none"

\* When nothing is on its way, every tab that shows the session believes of the owner of
\* the lock what is so: it offers to resize, or to take over, exactly when it may
\* (handlers/size_mode.py, messageHandlers.js).  Excepted is a tab until the next word that
\* reaches it, when the last was lost to a full queue, was kept from it by a request for a
\* fixed size that failed or was cut off, or was wrong because the lock was taken while
\* such a request awaited its resize.
BeliefAgrees == AtRest => \A c \in (shown \cap subscribed) \ untold : view[c] = owner

\* The lock has an owner who can use it: some connection of that user is subscribed, so
\* nobody is locked out by a user who is gone.  Excepted are owners who unsubscribe and
\* keep the lock (websocket_controller.py _cleanup).
OwnerHasConnection ==
  owner # NoOne /\ ~abandoned => \E c \in subscribed : User[c] = owner

\* Whatever crossed or failed before, the terminal model has the size of the terminal after
\* the next resize that runs alone and fails in no part, even when nobody waits for it any
\* more: what the tabs are shown is laid out as the program writes it (session/output.py
\* resize).
ScreenIsTerminal == ~Resizing /\ whole => screen = pty

\* The same without exceptions.  They do not hold.
BeliefAlwaysAgrees ==
  AtRest => \A c \in shown \cap subscribed : view[c] = owner
LockNeedsConnection == owner # NoOne => \E c \in open : User[c] = owner
ScreenIsAlwaysTerminal == ~Resizing => screen = pty
=============================================================================
