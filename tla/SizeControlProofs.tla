-------------------------- MODULE SizeControlProofs ---------------------------
(***************************************************************************)
(* Proofs about SizeControl for any tabs, users and sizes, and any number  *)
(* of choices.                                                             *)
(***************************************************************************)
EXTENDS SizeControl, SequenceTheorems, TLAPS

Messages == [owner : Beliefs, opens : BOOLEAN]
Keys == Conns \cup {Reader}
LastOf(s) == s[Len(s)]
HasNews(c) == down[c] # <<>>
Newest(c) == LastOf(down[c])

\* What a tab believes once it has read what is on its way.
Latest(c) == IF HasNews(c) THEN Newest(c).owner ELSE view[c]

\* A handler that sets a fixed size has given up the lock and told nobody.
FixedPending == \E c \in Conns : task[c] = "fixed"

Informed ==
  /\ \A c \in Conns : task[c] # "none" => c \in open
  /\ ~FixedPending =>
       \A c \in subscribed \ untold : HasNews(c) \/ c \in shown => Latest(c) = owner

\* Among the first i of the requests q the last word is to subscribe, if c is one of the
\* subscribed now.
Follows(c, q, here, i) ==
  /\ \A j \in 1..i : q[j].type = "unsubscribe" => \E k \in (j + 1)..i : q[k].type = "subscribe"
  /\ c \in here \/ \E k \in 1..i : q[k].type = "subscribe"

\* Whatever is asked is asked by one who is subscribed by the time it is heard.
Sound(c, q, here, wants) ==
  /\ c \in wants => Follows(c, q, here, Len(q))
  /\ \A i \in 1..Len(q) : q[i].type # "subscribe" => Follows(c, q, here, i - 1)

Orderly == \A c \in open : Sound(c, up[c], subscribed, wanted)

Running == {"screen", "pty"}

\* A resize that is alone takes the model along first and the terminal next.
Surfaces ==
  whole =>
    /\ \A j, k \in Keys : thread[j].at \in Running /\ thread[k].at \in Running => j = k
    /\ (\A k \in Keys : thread[k].at \notin Running) => screen = pty
    /\ \A k \in Keys : thread[k].at = "pty" => screen = thread[k].size
-----------------------------------------------------------------------------
(* What steps do to the queues.                                            *)

\* Requests and messages are of their types.
LEMMA MessageTypes ==
  /\ \A type \in {"subscribe", "unsubscribe", "adaptive", "fixed", "sizeless", "default", "takeover",
               "resize"} :
       /\ Request(type) \in Requests
       /\ \A size \in Sizes : SizeRequest(type, size) \in Requests
  /\ \A who \in Beliefs : Message(who) \in Messages /\ Message(who).owner = who
  /\ TypeOK => Subscribed \in Messages /\ Subscribed.owner = owner
  /\ NoOne \in Beliefs /\ Someone \in Beliefs /\ Users \subseteq Beliefs
  /\ \A c \in Conns : User[c] \in Users
BY SizeControlAssumption
   DEF Request, SizeRequest, Requests, Message, Messages, Subscribed, Beliefs, TypeOK

\* Only the queues of those who are told or answered change.
LEMMA PutFacts ==
  ASSUME TypeOK, NEW told, NEW message \in Messages, NEW c \in Conns, NEW answer \in Messages,
         NEW full, Put(told, message, c, answer, full)
  PROVE  /\ down' \in [Conns -> Seq(Messages)]
         /\ \A d \in Conns : d # c /\ d \notin told => down'[d] = down[d]
<1> DEFINE news(d) == IF d \in told THEN Append(down[d], message) ELSE down[d]
<1>1. /\ \A d \in Conns : down[d] \in Seq(Messages)
      /\ down' = [d \in Conns |-> IF d \in full THEN down[d]
                                  ELSE IF d = c THEN Append(news(d), answer) ELSE news(d)]
  BY DEF TypeOK, Put, Messages
<1>2. \A d \in Conns : Append(down[d], message) \in Seq(Messages)
  BY <1>1, AppendProperties
<1>3. \A d \in Conns : news(d) \in Seq(Messages)
  BY <1>1, <1>2
<1> HIDE DEF news
<1>4. Append(news(c), answer) \in Seq(Messages)
  BY <1>3, AppendProperties
<1> QED BY <1>1, <1>3, <1>4 DEF news

\* Who is told, and who is noted as untold.
LEMMA TellFacts ==
  ASSUME TypeOK, NEW told, NEW message \in Messages, NEW c \in Conns, NEW answer \in Messages,
         Tell(told, message, c, answer)
  PROVE  /\ down' \in [Conns -> Seq(Messages)] /\ untold' \subseteq untold \cup told \cup {c}
         /\ \A d \in Conns : d # c /\ d \notin told =>
              down'[d] = down[d] /\ (d \in untold' <=> d \in untold)
<1>1. PICK full \in SUBSET (told \cup {c}) : /\ Put(told, message, c, answer, full)
                                           /\ untold' = (untold \ (told \cup {c})) \cup full
  BY DEF Tell
<1>2. /\ down' \in [Conns -> Seq(Messages)]
      /\ \A d \in Conns : d # c /\ d \notin told => down'[d] = down[d]
  BY <1>1, PutFacts
<1> QED BY <1>1, <1>2

\* The same of one who is told.
LEMMA TellNews ==
  ASSUME TypeOK, NEW told, NEW message \in Messages, NEW c \in Conns, NEW answer \in Messages,
         Tell(told, message, c, answer), NEW d \in Conns, d # c, d \in told, d \notin untold'
  PROVE  HasNews(d)' /\ Newest(d)' = message
<1>1. PICK full \in SUBSET (told \cup {c}) : /\ Put(told, message, c, answer, full)
                                           /\ untold' = (untold \ (told \cup {c})) \cup full
  BY DEF Tell
<1>2. d \notin full
  BY <1>1
<1>3. down[d] \in Seq(Messages) /\ down'[d] = Append(down[d], message)
  BY <1>1, <1>2 DEF Put, TypeOK, Messages
<1>4. Append(down[d], message) # <<>> /\ LastOf(Append(down[d], message)) = message
  BY <1>3, AppendProperties DEF LastOf
<1> QED BY <1>3, <1>4 DEF HasNews, Newest

\* And of the one who is answered.
LEMMA TellAnswer ==
  ASSUME TypeOK, NEW told, NEW message \in Messages, NEW c \in Conns, NEW answer \in Messages,
         Tell(told, message, c, answer), c \notin untold'
  PROVE  HasNews(c)' /\ Newest(c)' = answer
<1>1. PICK full \in SUBSET (told \cup {c}) : /\ Put(told, message, c, answer, full)
                                           /\ untold' = (untold \ (told \cup {c})) \cup full
  BY DEF Tell
<1>2. PICK news \in {down[c], Append(down[c], message)} : down'[c] = Append(news, answer)
  <2>1. c \notin full
    BY <1>1
  <2>2. down'[c] = Append(IF c \in told THEN Append(down[c], message) ELSE down[c], answer)
    BY <1>1, <2>1 DEF Put
  <2> QED BY <2>2
<1>3. news \in Seq(Messages)
  <2>1. down[c] \in Seq(Messages)
    BY DEF TypeOK, Messages
  <2>2. Append(down[c], message) \in Seq(Messages)
    BY <2>1, AppendProperties
  <2> QED BY <1>2, <2>1, <2>2
<1>4. Append(news, answer) # <<>> /\ LastOf(Append(news, answer)) = answer
  BY <1>3, AppendProperties DEF LastOf
<1> QED BY <1>2, <1>4 DEF HasNews, Newest

\* A request is taken from the head of its queue.
LEMMA ServingFacts ==
  ASSUME TypeOK, NEW c \in Conns, NEW type, Serving(c, type)
  PROVE  /\ up' \in [Conns -> Seq(Requests)]
         /\ Len(up[c]) \in Nat /\ Len(up[c]) > 0 /\ up[c][1].type = type /\ Head(up[c]).size \in Sizes
         /\ Len(up'[c]) = Len(up[c]) - 1
         /\ \A i \in 1..Len(up'[c]) : up'[c][i] = up[c][i + 1]
         /\ \A d \in Conns : d # c => up'[d] = up[d]
         /\ c \in open /\ task[c] = "none"
<1>1. up[c] \in Seq(Requests) /\ up[c] # <<>> /\ Head(up[c]).type = type /\ c \in open /\ task[c] = "none"
  BY DEF TypeOK, Serving
<1>2. up' = [up EXCEPT ![c] = Tail(up[c])]
  BY DEF Serving
<1>3. /\ Tail(up[c]) \in Seq(Requests) /\ Head(up[c]) \in Requests /\ Len(Tail(up[c])) = Len(up[c]) - 1
      /\ \A i \in 1..Len(Tail(up[c])) : Tail(up[c])[i] = up[c][i + 1]
  BY <1>1, HeadTailProperties
<1>4. Len(up[c]) \in Nat \ {0} /\ Head(up[c]) = up[c][1]
  BY <1>1, EmptySeq
<1>5. Head(up[c]).size \in Sizes
  BY <1>3 DEF Requests
<1> QED BY <1>1, <1>2, <1>3, <1>4, <1>5 DEF TypeOK

\* What tabs ask for: a change of size or of the lock while they show the session, the end
\* of the subscription, or a new one.
Modest == {"adaptive", "fixed", "sizeless", "default", "takeover", "resize"}

LEMMA TabAsks ==
  ASSUME TypeOK, NEW c \in Conns, Tab(c), ~Receive(c)
  PROVE  /\ c \in open /\ choices' \in 0..MaxChoices
         /\ UNCHANGED <<serverVars, sizeVars, down, view, history>>
         /\ \E requests \in Seq(Requests) :
              /\ up' = [up EXCEPT ![c] = @ \o requests]
              /\ \/ /\ c \in shown /\ UNCHANGED <<wanted, shown>>
                    /\ \A i \in 1..Len(requests) : requests[i].type \in Modest
                 \/ /\ requests = <<Request("unsubscribe")>>
                    /\ c \in shown /\ shown' = shown \ {c} /\ wanted' = wanted \ {c}
                 \/ /\ requests = <<Request("subscribe")>>
                    /\ shown' = shown /\ wanted' = wanted \cup {c}
<1> USE SizeControlAssumption
<1>0. choices \in Nat /\ MaxChoices \in Nat
  BY DEF TypeOK
<1>1. ASSUME NEW q \in Seq(Requests), Ask(c, q), UNCHANGED <<wanted, shown>>,
             \A i \in 1..Len(q) : q[i].type \in Modest
      PROVE  /\ c \in open /\ choices' \in 0..MaxChoices
             /\ UNCHANGED <<serverVars, sizeVars, down, view, history, wanted, shown>>
             /\ c \in shown
             /\ up' = [up EXCEPT ![c] = @ \o q]
  BY <1>0, <1>1 DEF Ask
<1>2. ASSUME NEW x \in Requests, NEW y \in Requests
      PROVE  /\ <<x>> \in Seq(Requests) /\ Len(<<x>>) = 1 /\ <<x>>[1] = x
             /\ <<x, y>> \in Seq(Requests) /\ Len(<<x, y>>) = 2 /\ <<x, y>>[1] = x /\ <<x, y>>[2] = y
  OBVIOUS
<1>3. ASSUME NEW type \in Modest, Ask(c, <<Request(type)>>), UNCHANGED <<wanted, shown>>
      PROVE  /\ <<Request(type)>> \in Seq(Requests)
             /\ \A i \in 1..Len(<<Request(type)>>) : <<Request(type)>>[i].type \in Modest
  BY <1>2, <1>3, MessageTypes DEF Modest, Request
<1>4. ASSUME NEW size \in Sizes
      PROVE  /\ SizeRequest("resize", size) \in Requests /\ SizeRequest("fixed", size) \in Requests
             /\ SizeRequest("resize", size).type = "resize" /\ SizeRequest("fixed", size).type = "fixed"
             /\ \A type \in Modest : Request(type) \in Requests /\ Request(type).type = type
  BY MessageTypes DEF Modest, SizeRequest, Request
<1>5. ASSUME NEW x \in Requests, NEW y \in Requests, x.type \in Modest, y.type \in Modest
      PROVE  /\ \A i \in 1..Len(<<x>>) : <<x>>[i].type \in Modest
             /\ \A i \in 1..Len(<<x, y>>) : <<x, y>>[i].type \in Modest
  BY <1>2, <1>5
<1>6. ASSUME NEW size \in Sizes,
             \/ ChooseAdaptive(c, size) \/ ChooseFixed(c, size) \/ ChooseDefault(c, size)
             \/ Fit(c, size) \/ AskTakeover(c) \/ AskSizeless(c)
      PROVE  \E q \in Seq(Requests) : /\ Ask(c, q) /\ UNCHANGED <<wanted, shown>>
                                      /\ \A i \in 1..Len(q) : q[i].type \in Modest
  <2> USE <1>2, <1>4, <1>5
  <2>0. {"adaptive", "fixed", "sizeless", "default", "takeover", "resize"} = Modest
    BY DEF Modest
  <2>1. CASE ChooseAdaptive(c, size)
    <3>1. CASE Ask(c, <<Request("adaptive")>>)
      <4>1. Ask(c, <<Request("adaptive")>>) /\ UNCHANGED <<wanted, shown>>
        BY <2>1, <3>1 DEF ChooseAdaptive
      <4>2. /\ <<Request("adaptive")>> \in Seq(Requests)
            /\ \A i \in 1..Len(<<Request("adaptive")>>) : <<Request("adaptive")>>[i].type \in Modest
        BY <2>0
      <4> QED BY <4>1, <4>2
    <3>2. CASE Ask(c, <<Request("adaptive"), SizeRequest("resize", size)>>)
      BY <2>0, <2>1, <3>2 DEF ChooseAdaptive
    <3> QED BY <2>1, <3>1, <3>2 DEF ChooseAdaptive
  <2>2. CASE ChooseFixed(c, size)
    BY <2>0, <2>2 DEF ChooseFixed
  <2>3. CASE ChooseDefault(c, size)
    BY <2>0, <2>3 DEF ChooseDefault
  <2>4. CASE Fit(c, size)
    <3>1. Ask(c, <<SizeRequest("resize", size)>>) /\ UNCHANGED <<wanted, shown>>
      BY <2>4 DEF Fit
    <3>2. /\ <<SizeRequest("resize", size)>> \in Seq(Requests)
          /\ \A i \in 1..Len(<<SizeRequest("resize", size)>>) : <<SizeRequest("resize", size)>>[i].type \in Modest
      BY <2>0
    <3> QED BY <3>1, <3>2
  <2>5. CASE AskTakeover(c)
    <3>1. Ask(c, <<Request("takeover")>>) /\ UNCHANGED <<wanted, shown>>
      BY <2>5 DEF AskTakeover
    <3>2. /\ <<Request("takeover")>> \in Seq(Requests)
          /\ \A i \in 1..Len(<<Request("takeover")>>) : <<Request("takeover")>>[i].type \in Modest
      BY <2>0
    <3> QED BY <3>1, <3>2
  <2>6. CASE AskSizeless(c)
    <3>1. Ask(c, <<Request("sizeless")>>) /\ UNCHANGED <<wanted, shown>>
      BY <2>6 DEF AskSizeless
    <3>2. /\ <<Request("sizeless")>> \in Seq(Requests)
          /\ \A i \in 1..Len(<<Request("sizeless")>>) : <<Request("sizeless")>>[i].type \in Modest
      BY <2>0
    <3> QED BY <3>1, <3>2
  <2> QED BY <1>6, <2>1, <2>2, <2>3, <2>4, <2>5, <2>6
<1>7. CASE \E size \in Sizes :
             \/ ChooseAdaptive(c, size) \/ ChooseFixed(c, size) \/ ChooseDefault(c, size)
             \/ Fit(c, size) \/ AskTakeover(c) \/ AskSizeless(c)
  <2>1. PICK q \in Seq(Requests) : /\ Ask(c, q) /\ UNCHANGED <<wanted, shown>>
                                   /\ \A i \in 1..Len(q) : q[i].type \in Modest
    BY <1>6, <1>7
  <2> QED BY <1>1, <2>1
<1>8. CASE CloseTab(c)
  <2>1. Request("unsubscribe") \in Requests
    BY MessageTypes
  <2>2. /\ Ask(c, <<Request("unsubscribe")>>) /\ shown' = shown \ {c} /\ wanted' = wanted \ {c}
    BY <1>8 DEF CloseTab
  <2>3. /\ up' = [up EXCEPT ![c] = @ \o <<Request("unsubscribe")>>]
        /\ c \in open /\ c \in shown /\ choices' \in 0..MaxChoices
        /\ UNCHANGED <<serverVars, sizeVars, down, view, history>>
    BY <1>0, <2>2 DEF Ask
  <2>4. <<Request("unsubscribe")>> \in Seq(Requests)
    BY <1>2, <2>1
  <2> QED BY <2>2, <2>3, <2>4
<1>9. CASE OpenTab(c)
  <2>1. Request("subscribe") \in Requests /\ up[c] \in Seq(Requests)
    BY MessageTypes DEF TypeOK
  <2>2. Append(up[c], Request("subscribe")) = up[c] \o <<Request("subscribe")>>
    BY <2>1, AppendIsConcat
  <2>3. /\ up' = [up EXCEPT ![c] = @ \o <<Request("subscribe")>>]
        /\ c \in open /\ choices' \in 0..MaxChoices /\ shown' = shown /\ wanted' = wanted \cup {c}
        /\ UNCHANGED <<serverVars, sizeVars, down, view, history>>
    <3>1. /\ up' = [up EXCEPT ![c] = Append(up[c], Request("subscribe"))]
          /\ c \in open /\ choices < MaxChoices /\ choices' = choices + 1
          /\ shown' = shown /\ wanted' = wanted \cup {c}
          /\ UNCHANGED <<serverVars, sizeVars, down, view, history>>
      BY <1>9 DEF OpenTab
    <3>2. choices' \in 0..MaxChoices
      BY <1>0, <3>1
    <3>3. up' = [up EXCEPT ![c] = @ \o <<Request("subscribe")>>]
      BY <2>2, <3>1, Zenon
    <3> QED BY <3>1, <3>2, <3>3
  <2>4. <<Request("subscribe")>> \in Seq(Requests)
    BY <1>2, <2>1
  <2> QED BY <2>3, <2>4
<1> QED BY <1>7, <1>8, <1>9, SizeControlAssumption DEF Tab
-----------------------------------------------------------------------------
(* Types.                                                                  *)

\* TypeOK in parts that steps disturb together.
ServerTypes ==
  /\ owner \in Users \cup {NoOne}
  /\ open \subseteq Conns /\ subscribed \subseteq open
  /\ task \in [Conns -> {"none", "fixed", "resize"}]

SizeTypes ==
  /\ thread \in [Keys -> [at : {"none", "screen", "pty", "done", "raised"}, size : Sizes]]
  /\ screen \in Sizes /\ pty \in Sizes /\ whole \in BOOLEAN

TabTypes == view \in [Conns -> Beliefs] /\ shown \subseteq wanted /\ wanted \subseteq Conns

RestTypes == choices \in 0..MaxChoices /\ abandoned \in BOOLEAN /\ untold \subseteq Conns

\* The parts are the whole, before a step and after it.
LEMMA TypeParts ==
  /\ TypeOK <=> /\ ServerTypes /\ SizeTypes /\ TabTypes /\ RestTypes
                /\ up \in [Conns -> Seq(Requests)] /\ down \in [Conns -> Seq(Messages)]
  /\ TypeOK' <=> /\ ServerTypes' /\ SizeTypes' /\ TabTypes' /\ RestTypes'
                 /\ up' \in [Conns -> Seq(Requests)] /\ down' \in [Conns -> Seq(Messages)]
BY DEF TypeOK, ServerTypes, SizeTypes, TabTypes, RestTypes, Keys, Messages

\* What tabs do keeps the types.
LEMMA TypesTab ==
  ASSUME TypeOK, NEW c \in Conns, Tab(c)
  PROVE  TypeOK'
<1> USE DEF serverVars, sizeVars, tabVars, history
<1>1. CASE Receive(c)
  <2>1. /\ down[c] \in Seq(Messages) /\ down[c] # <<>> /\ down' = [down EXCEPT ![c] = Tail(down[c])]
        /\ view' = [view EXCEPT ![c] = IF c \in shown' THEN Head(down[c]).owner ELSE @]
        /\ wanted' = wanted /\ shown' \subseteq shown \cup ({c} \cap wanted)
        /\ UNCHANGED <<serverVars, sizeVars, up, choices, history>>
    BY <1>1, TypeParts DEF Receive
  <2>2. Tail(down[c]) \in Seq(Messages) /\ Head(down[c]) \in Messages
    BY <2>1, HeadTailProperties
  <2>3. Head(down[c]).owner \in Beliefs
    BY <2>2 DEF Messages
  <2>4. down' \in [Conns -> Seq(Messages)] /\ TabTypes'
    BY <2>1, <2>2, <2>3, TypeParts DEF TabTypes
  <2> QED BY <2>1, <2>4, TypeParts DEF ServerTypes, SizeTypes, RestTypes
<1>2. CASE ~Receive(c)
  <2>1. PICK requests \in Seq(Requests) :
          /\ up' = [up EXCEPT ![c] = @ \o requests]
          /\ \/ UNCHANGED <<wanted, shown>>
             \/ shown' = shown \ {c} /\ wanted' = wanted \ {c}
             \/ shown' = shown /\ wanted' = wanted \cup {c}
    BY <1>2, TabAsks
  <2>2. /\ choices' \in 0..MaxChoices
        /\ UNCHANGED <<serverVars, sizeVars, down, view, history>>
    BY <1>2, TabAsks
  <2>3. up[c] \o requests \in Seq(Requests)
    BY TypeParts, ConcatProperties
  <2>4. up' \in [Conns -> Seq(Requests)]
    BY <2>1, <2>3, TypeParts
  <2>5. TabTypes'
    BY <2>1, <2>2, TypeParts DEF TabTypes
  <2> QED BY <2>2, <2>4, <2>5, TypeParts DEF ServerTypes, SizeTypes, RestTypes
<1> QED BY <1>1, <1>2

\* What becomes of the threads.
LEMMA TypesResizing ==
  ASSUME TypeOK
  PROVE  /\ \A k \in Keys : \A size \in Sizes : StartResize(k, size) => SizeTypes'
         /\ \A k \in Keys : ResizeScreen(k) \/ ResizePty(k) => TypeOK'
         /\ \A k \in Keys : thread' = [thread EXCEPT ![k] = Idle] /\ UNCHANGED <<screen, pty, whole>>
                              => SizeTypes'
         /\ \A size \in Sizes : ProgramResizes(size) => TypeOK'
<1> USE DEF serverVars, sizeVars, tabVars, history
<1>0. SizeTypes /\ choices \in Nat /\ MaxChoices \in Nat
  BY TypeParts, SizeControlAssumption DEF RestTypes
<1>1. ASSUME NEW k \in Keys, NEW size \in Sizes, StartResize(k, size) PROVE SizeTypes'
  BY <1>0, <1>1 DEF StartResize, SizeTypes
<1>2. ASSUME NEW k \in Keys, ResizeScreen(k) \/ ResizePty(k) PROVE TypeOK'
  <2>0. ASSUME Ends(k, "done") \/ Ends(k, "raised")
        PROVE  thread' \in [Keys -> [at : {"none", "screen", "pty", "done", "raised"}, size : Sizes]]
    BY <1>0, <2>0, SizeControlAssumption DEF Ends, SizeTypes, Idle
  <2>1. SizeTypes'
    <3>1. screen' \in Sizes /\ pty' \in Sizes
      BY <1>0, <1>2 DEF ResizeScreen, ResizePty, SizeTypes
    <3>2. thread' \in [Keys -> [at : {"none", "screen", "pty", "done", "raised"}, size : Sizes]]
      <4>1. CASE thread' = [thread EXCEPT ![k].at = "pty"]
        BY <1>0, <4>1 DEF SizeTypes
      <4> QED BY <1>2, <2>0, <4>1 DEF ResizeScreen, ResizePty
    <3>3. whole' \in BOOLEAN
      <4>1. CASE ResizeScreen(k)
        BY <4>1, Zenon DEF ResizeScreen
      <4>2. CASE ResizePty(k)
        BY <4>2, Zenon DEF ResizePty
      <4> QED BY <1>2, <4>1, <4>2
    <3> QED BY <3>1, <3>2, <3>3 DEF SizeTypes
  <2>2. UNCHANGED <<serverVars, up, down, tabVars, choices, history>>
    BY <1>2 DEF ResizeScreen, ResizePty
  <2> QED BY <2>1, <2>2, TypeParts DEF ServerTypes, TabTypes, RestTypes
<1>3. ASSUME NEW k \in Keys, thread' = [thread EXCEPT ![k] = Idle], UNCHANGED <<screen, pty, whole>>
      PROVE  SizeTypes'
  BY <1>0, <1>3, SizeControlAssumption DEF SizeTypes, Idle
<1>4. ASSUME NEW size \in Sizes, ProgramResizes(size) PROVE TypeOK'
  <2>1. Reader \in Keys
    BY DEF Keys
  <2>2. /\ StartResize(Reader, size) /\ choices < MaxChoices /\ choices' = choices + 1
        /\ UNCHANGED <<serverVars, up, down, tabVars, history>>
    BY <1>4 DEF ProgramResizes
  <2>3. RestTypes'
    BY <1>0, <2>2, TypeParts DEF RestTypes
  <2> QED BY <1>1, <2>1, <2>2, <2>3, TypeParts DEF ServerTypes, TabTypes
<1> QED BY <1>1, <1>2, <1>3, <1>4

\* What a handler takes from its queue.
LEMMA TypesHandler ==
  ASSUME TypeOK, NEW c \in Conns, Handler(c)
  PROVE  TypeOK'
<1> USE DEF serverVars, sizeVars, tabVars, history
<1>0. /\ NoOne \in Beliefs /\ Message(NoOne) \in Messages /\ Message(User[c]) \in Messages
      /\ Message(Someone) \in Messages /\ Subscribed \in Messages /\ User[c] \in Users /\ c \in Keys
  BY MessageTypes DEF Keys
<1>1. CASE Subscribe(c)
  <2>1. /\ Serving(c, "subscribe") /\ Tell({}, Message(NoOne), c, Subscribed)
        /\ subscribed' = subscribed \cup {c}
        /\ UNCHANGED <<owner, open, task, sizeVars, tabVars, choices, abandoned>>
    BY <1>1 DEF Subscribe
  <2>2. ServerTypes'
    BY <2>1, ServingFacts, TypeParts DEF ServerTypes
  <2>3. down' \in [Conns -> Seq(Messages)] /\ untold' \subseteq untold \cup {} \cup {c}
    BY <1>0, <2>1, TellFacts
  <2> QED BY <2>1, <2>2, <2>3, ServingFacts, TypeParts DEF SizeTypes, TabTypes, RestTypes
<1>2. CASE Unsubscribe(c)
  <2>1. /\ Serving(c, "unsubscribe") /\ subscribed' = subscribed \ {c}
        /\ abandoned' = (abandoned \/ owner = User[c]) /\ untold' = untold \ {c}
        /\ UNCHANGED <<owner, open, task, sizeVars, down, tabVars, choices>>
    BY <1>2 DEF Unsubscribe
  <2>2. ServerTypes' /\ RestTypes'
    BY <2>1, TypeParts DEF ServerTypes, RestTypes
  <2> QED BY <2>1, <2>2, ServingFacts, TypeParts DEF SizeTypes, TabTypes
<1>3. CASE Takeover(c) \/ SetAdaptive(c) \/ SetDefault(c)
  <2>1. PICK who \in {NoOne, User[c]}, told \in {subscribed, subscribed \ {c}},
             type \in {"takeover", "adaptive", "default"} :
          /\ Serving(c, type) /\ owner' = who
          /\ Tell(told, Message(who), c, Message(who))
          /\ UNCHANGED <<open, subscribed, task, sizeVars, tabVars, choices, abandoned>>
    BY <1>3 DEF Takeover, SetAdaptive, SetDefault
  <2>2. ServerTypes' /\ told \subseteq Conns
    BY <1>0, <2>1, TypeParts DEF ServerTypes
  <2>3. down' \in [Conns -> Seq(Messages)] /\ untold' \subseteq untold \cup told \cup {c}
    BY <1>0, <2>1, TellFacts
  <2> QED BY <2>1, <2>2, <2>3, ServingFacts, TypeParts DEF SizeTypes, TabTypes, RestTypes
<1>4. CASE Refused(c)
  <2>1. PICK type \in {"fixed", "sizeless", "default", "resize"} : Serving(c, type)
    BY <1>4 DEF Refused
  <2>2. UNCHANGED <<serverVars, sizeVars, down, tabVars, choices, history>>
    BY <1>4 DEF Refused
  <2> QED BY <2>1, <2>2, ServingFacts, TypeParts DEF ServerTypes, SizeTypes, TabTypes, RestTypes
<1>5. CASE SetFixed(c) \/ Resize(c)
  <2>1. PICK type \in {"fixed", "resize"} :
          /\ Serving(c, type) /\ owner' \in {NoOne, owner} /\ task' = [task EXCEPT ![c] = type]
          /\ StartResize(c, Head(up[c]).size)
          /\ UNCHANGED <<open, subscribed, down, tabVars, choices, history>>
    BY <1>5 DEF SetFixed, Resize
  <2>2. ServerTypes'
    BY <2>1, TypeParts DEF ServerTypes
  <2>3. SizeTypes' /\ up' \in [Conns -> Seq(Requests)]
    BY <1>0, <2>1, ServingFacts, TypesResizing
  <2> QED BY <2>1, <2>2, <2>3, TypeParts DEF TabTypes, RestTypes
<1>6. CASE SetSizeless(c)
  <2>1. /\ Serving(c, "sizeless") /\ owner' = NoOne /\ untold' \subseteq untold \cup subscribed
        /\ UNCHANGED <<open, subscribed, task, sizeVars, down, tabVars, choices, abandoned>>
    BY <1>6 DEF SetSizeless
  <2>2. ServerTypes' /\ subscribed \subseteq Conns
    BY <2>1, TypeParts DEF ServerTypes
  <2> QED BY <2>1, <2>2, ServingFacts, TypeParts DEF SizeTypes, TabTypes, RestTypes
<1>7. CASE Finish(c) \/ FinishFailed(c) \/ Resized(c)
  <2>1. /\ task' = [task EXCEPT ![c] = "none"] /\ thread' = [thread EXCEPT ![c] = Idle]
        /\ UNCHANGED <<owner, open, subscribed, screen, pty, whole, up, tabVars, choices, abandoned>>
    BY <1>7 DEF Finish, FinishFailed, Resized, Resumes
  <2>2. ServerTypes' /\ subscribed \subseteq Conns
    BY <2>1, TypeParts DEF ServerTypes
  <2>3. SizeTypes'
    BY <1>0, <2>1, TypesResizing
  <2>4. down' \in [Conns -> Seq(Messages)] /\ untold' \subseteq untold \cup subscribed \cup {c}
    <3>1. CASE FinishFailed(c) \/ Resized(c)
      BY <3>1, TypeParts DEF FinishFailed, Resized
    <3>2. CASE Tell(subscribed \ {c}, Message(NoOne), c, Message(NoOne))
      <4>1. PICK told \in SUBSET subscribed : Tell(told, Message(NoOne), c, Message(NoOne))
        BY <3>2
      <4> QED BY <1>0, <4>1, TellFacts
    <3>3. CASE /\ untold' = untold \cup subscribed \cup {c}
               /\ \E full \in SUBSET (subscribed \cup {c}) :
                    Put(subscribed \ {c}, Message(Someone), c, Message(NoOne), full)
      BY <1>0, <3>3, PutFacts
    <3> QED BY <1>7, <3>1, <3>2, <3>3 DEF Finish
  <2>5. RestTypes'
    BY <2>1, <2>2, <2>4, TypeParts DEF RestTypes
  <2> QED BY <2>1, <2>2, <2>3, <2>4, <2>5, TypeParts DEF TabTypes
<1> QED BY <1>1, <1>2, <1>3, <1>4, <1>5, <1>6, <1>7 DEF Handler

\* The end of a connection.
LEMMA CleanupFacts ==
  ASSUME TypeOK, NEW c \in Conns, NEW missed \in SUBSET Conns, Cleanup(c, missed)
  PROVE  /\ ServerTypes' /\ TabTypes' /\ up' \in [Conns -> Seq(Requests)] /\ down' \in [Conns -> Seq(Messages)]
         /\ up'[c] = <<>> /\ \A d \in Conns : d # c => up'[d] = up[d]
         /\ open' = open \ {c} /\ subscribed' = subscribed \ {c} /\ task' = [task EXCEPT ![c] = "none"]
         /\ untold' \subseteq Conns
         /\ \/ /\ owner' = NoOne
               /\ \A d \in subscribed' \ untold' : HasNews(d)' /\ Newest(d)' = Message(NoOne)
            \/ /\ owner' = owner /\ ~(c \in subscribed /\ owner = User[c] /\ ~Inherited(c))
               /\ untold' = (untold \cup missed) \ {c}
               /\ \A d \in Conns : d # c => down'[d] = down[d] /\ view'[d] = view[d]
<1>1. /\ subscribed' = subscribed \ {c} /\ open' = open \ {c} /\ up' = [up EXCEPT ![c] = <<>>]
      /\ task' = [task EXCEPT ![c] = "none"] /\ TabGone(c)
  BY DEF Cleanup
<1>2. <<>> \in Seq(Requests) /\ <<>> \in Seq(Messages) /\ Message(NoOne) \in Messages
  BY EmptySeq, MessageTypes
<1>3. /\ up' \in [Conns -> Seq(Requests)] /\ up'[c] = <<>>
      /\ \A d \in Conns : d # c => up'[d] = up[d]
  BY <1>1, <1>2, TypeParts
<1>7. TabTypes' /\ \A d \in Conns : d # c => view'[d] = view[d]
  BY <1>1, TypeParts, MessageTypes DEF TabGone, TabTypes
<1>4. \A d \in Conns : /\ Append(down[d], Message(NoOne)) \in Seq(Messages)
                       /\ Append(down[d], Message(NoOne)) # <<>>
                       /\ LastOf(Append(down[d], Message(NoOne))) = Message(NoOne)
  BY <1>2, TypeParts, AppendProperties DEF LastOf
<1>5. CASE c \in subscribed /\ owner = User[c] /\ ~Inherited(c)
  <2>1. PICK full \in SUBSET subscribed' :
          /\ owner' = NoOne /\ untold' = full
          /\ down' = [d \in Conns |-> IF d = c THEN <<>>
                                      ELSE IF d \in subscribed \ full THEN Append(down[d], Message(NoOne))
                                      ELSE down[d]]
    BY <1>5 DEF Cleanup
  <2>2. down' \in [Conns -> Seq(Messages)]
    BY <1>2, <1>4, <2>1, TypeParts
  <2>3. ServerTypes' /\ untold' \subseteq Conns
    BY <1>1, <2>1, TypeParts DEF ServerTypes
  <2>4. \A d \in subscribed' \ untold' : HasNews(d)' /\ Newest(d)' = Message(NoOne)
    BY <1>1, <1>4, <2>1, TypeParts DEF ServerTypes, HasNews, Newest
  <2> QED BY <1>1, <1>3, <1>7, <2>1, <2>2, <2>3, <2>4
<1>6. CASE ~(c \in subscribed /\ owner = User[c] /\ ~Inherited(c))
  <2>1. owner' = owner /\ down' = [down EXCEPT ![c] = <<>>] /\ untold' = (untold \cup missed) \ {c}
    BY <1>6 DEF Cleanup
  <2>2. down' \in [Conns -> Seq(Messages)] /\ \A d \in Conns : d # c => down'[d] = down[d]
    BY <1>2, <2>1, TypeParts
  <2>3. ServerTypes' /\ untold' \subseteq Conns
    BY <1>1, <2>1, TypeParts DEF ServerTypes, RestTypes
  <2> QED BY <1>1, <1>3, <1>7, <1>6, <2>1, <2>2, <2>3
<1> QED BY <1>5, <1>6

\* Every step keeps the types.
LEMMA TypesKept ==
  ASSUME TypeOK, [Next]_vars
  PROVE  TypeOK'
<1> USE DEF serverVars, sizeVars, tabVars, history
<1>0. subscribed \in SUBSET Conns /\ {} \in SUBSET Conns
  BY TypeParts DEF ServerTypes
<1>1. ASSUME NEW c \in Conns, Leaves(c) PROVE TypeOK'
  <2>1. Cleanup(c, {}) /\ UNCHANGED <<sizeVars, choices, abandoned>>
    BY <1>1 DEF Leaves
  <2>2. SizeTypes'
    BY <2>1, TypeParts DEF SizeTypes
  <2>3. RestTypes'
    BY <1>0, <2>1, CleanupFacts, TypeParts DEF RestTypes
  <2> QED BY <1>0, <2>1, <2>2, <2>3, CleanupFacts, TypeParts
<1>2. ASSUME NEW c \in Conns, CutOff(c) PROVE TypeOK'
  <2>1. PICK missed \in SUBSET Conns :
          /\ Cleanup(c, missed)
          /\ thread' = [thread EXCEPT ![c] = IF @.at \in {"done", "raised"} THEN Idle ELSE @]
          /\ UNCHANGED <<screen, pty, whole, choices, abandoned>>
    BY <1>0, <1>2 DEF CutOff
  <2>2. SizeTypes'
    BY <2>1, TypeParts, SizeControlAssumption DEF SizeTypes, Idle, Keys
  <2>3. RestTypes'
    BY <2>1, CleanupFacts, TypeParts DEF RestTypes
  <2> QED BY <2>1, <2>2, <2>3, CleanupFacts, TypeParts
<1>3. CASE UNCHANGED vars
  BY <1>3, TypeParts DEF vars, ServerTypes, SizeTypes, TabTypes, RestTypes
<1> QED BY <1>1, <1>2, <1>3, TypesTab, TypesHandler, TypesResizing DEF Next, Keys
-----------------------------------------------------------------------------
(* The size of the model and of the terminal.                              *)

\* A resize begins, goes on, or ends; or a thread that has ended is forgotten.
LEMMA SurfacesKept ==
  ASSUME TypeOK, Surfaces, [Next]_vars
  PROVE  Surfaces'
<1> USE DEF sizeVars
<1>0. thread \in [Keys -> [at : {"none", "screen", "pty", "done", "raised"}, size : Sizes]]
  BY TypeParts DEF SizeTypes
<1>1. ASSUME NEW k \in Keys, NEW size \in Sizes, StartResize(k, size) PROVE Surfaces'
  <2>1. whole' = ~\E j \in Keys : thread[j].at \in Running
    BY <1>0, <1>1 DEF StartResize, Running
  <2>2. /\ thread'[k] = [at |-> "screen", size |-> size] /\ \A j \in Keys : j # k => thread'[j] = thread[j]
    BY <1>0, <1>1 DEF StartResize
  <2>3. thread'[k].at = "screen"
    BY <2>2
  <2>4. ASSUME whole' PROVE \A j \in Keys : j # k => thread'[j].at \notin Running
    BY <2>1, <2>2, <2>4
  <2> QED BY <2>3, <2>4 DEF Surfaces, Running
<1>2. ASSUME NEW k \in Keys, ResizeScreen(k) PROVE Surfaces'
  <2>0. thread[k].at = "screen" /\ pty' = pty
    BY <1>2 DEF ResizeScreen
  <2>1. SUFFICES ASSUME whole' PROVE Surfaces'
    BY DEF Surfaces
  <2>2. whole /\ screen' = thread[k].size /\ thread' = [thread EXCEPT ![k].at = "pty"]
    BY <1>2, <2>1 DEF ResizeScreen
  <2>3. /\ thread'[k].at = "pty" /\ thread'[k].size = thread[k].size
        /\ \A j \in Keys : j # k => thread'[j] = thread[j]
    BY <1>0, <2>2
  <2> QED BY <2>0, <2>2, <2>3 DEF Surfaces, Running
<1>3. ASSUME NEW k \in Keys, ResizePty(k) PROVE Surfaces'
  <2>0. thread[k].at = "pty" /\ screen' = screen /\ (Ends(k, "done") \/ Ends(k, "raised"))
    BY <1>3 DEF ResizePty
  <2>1. SUFFICES ASSUME whole' PROVE Surfaces'
    BY DEF Surfaces
  <2>2. whole /\ pty' = thread[k].size
    BY <1>3, <2>1 DEF ResizePty
  <2>3. /\ thread'[k].at \in {"none", "done", "raised"}
        /\ \A j \in Keys : j # k => thread'[j] = thread[j]
    BY <1>0, <2>0 DEF Ends, Idle
  <2> QED BY <2>0, <2>2, <2>3 DEF Surfaces, Running
<1>4. ASSUME NEW k \in Keys, thread[k].at \in {"done", "raised"}, UNCHANGED <<screen, pty, whole>>,
             thread' = [thread EXCEPT ![k] = Idle]
      PROVE  Surfaces'
  <2>1. thread'[k].at = "none" /\ \A j \in Keys : j # k => thread'[j] = thread[j]
    BY <1>0, <1>4 DEF Idle
  <2> QED BY <1>4, <2>1 DEF Surfaces, Running
<1>5. CASE UNCHANGED sizeVars
  BY <1>5 DEF Surfaces
<1>6. ASSUME NEW c \in Conns, Tab(c) PROVE UNCHANGED sizeVars
  BY <1>6, TabAsks DEF Receive
<1>7. ASSUME NEW c \in Conns, Handler(c) PROVE Surfaces'
  <2>0. c \in Keys
    BY DEF Keys
  <2>1. CASE SetFixed(c) \/ Resize(c)
    <3>1. PICK type \in {"fixed", "resize"} : Serving(c, type) /\ StartResize(c, Head(up[c]).size)
      BY <2>1 DEF SetFixed, Resize
    <3>2. Head(up[c]).size \in Sizes
      BY <3>1, ServingFacts
    <3> QED BY <1>1, <2>0, <3>1, <3>2
  <2>2. CASE Finish(c) \/ FinishFailed(c) \/ Resized(c)
    BY <1>4, <2>0, <2>2 DEF Finish, FinishFailed, Resized, Resumes
  <2>3. CASE Subscribe(c) \/ Unsubscribe(c) \/ Takeover(c) \/ SetAdaptive(c) \/ Refused(c)
    BY <1>5, <2>3 DEF Subscribe, Unsubscribe, Takeover, SetAdaptive, Refused
  <2>4. CASE SetDefault(c) \/ SetSizeless(c)
    BY <1>5, <2>4 DEF SetDefault, SetSizeless
  <2> QED BY <1>7, <2>1, <2>2, <2>3, <2>4 DEF Handler
<1>8. ASSUME NEW c \in Conns, CutOff(c) PROVE Surfaces'
  <2>0. /\ c \in Keys /\ UNCHANGED <<screen, pty, whole>>
        /\ thread' = [thread EXCEPT ![c] = IF thread[c].at \in {"done", "raised"} THEN Idle
                                             ELSE thread[c]]
    BY <1>8 DEF CutOff, Keys
  <2>1. CASE thread[c].at \in {"done", "raised"}
    BY <1>4, <2>0, <2>1
  <2>2. CASE thread[c].at \notin {"done", "raised"}
    <3>1. thread' = thread
      BY <1>0, <2>0, <2>2
    <3> QED BY <1>5, <2>0, <3>1
  <2> QED BY <2>1, <2>2
<1>9. ASSUME NEW size \in Sizes, ProgramResizes(size) PROVE Surfaces'
  BY <1>1, <1>9 DEF ProgramResizes, Keys
<1>10. CASE UNCHANGED vars
  BY <1>5, <1>10 DEF vars
<1> QED BY <1>2, <1>3, <1>5, <1>6, <1>7, <1>8, <1>9, <1>10 DEF Next, Leaves, Keys

\* Every state is well typed.
THEOREM TypeCorrect == Spec => []TypeOK
<1>1. Init => TypeOK
  <2> SUFFICES ASSUME Init PROVE TypeOK
    OBVIOUS
  <2>1. Request("subscribe") \in Requests /\ <<>> \in Seq(Messages)
    BY MessageTypes, EmptySeq
  <2>2. <<Request("subscribe")>> \in Seq(Requests)
    BY <2>1
  <2>3. up \in [Conns -> Seq(Requests)] /\ down \in [Conns -> Seq(Messages)]
    BY <2>1, <2>2 DEF Init
  <2>4. SizeTypes
    <3>1. FirstSize \in Sizes
      BY SizeControlAssumption
    <3>2. Idle \in [at : {"none", "screen", "pty", "done", "raised"}, size : Sizes]
      BY <3>1 DEF Idle
    <3> QED BY <3>1, <3>2 DEF Init, SizeTypes, Keys
  <2>5. ServerTypes
    BY DEF Init, ServerTypes
  <2>6. TabTypes
    BY DEF Init, TabTypes, Beliefs
  <2>7. RestTypes
    <3>1. MaxChoices \in Nat
      BY SizeControlAssumption
    <3>2. choices = 0 /\ abandoned = FALSE /\ untold = {}
      BY DEF Init
    <3>3. 0 \in 0..MaxChoices
      BY <3>1
    <3> QED BY <3>2, <3>3 DEF RestTypes
  <2> QED BY <2>3, <2>4, <2>5, <2>6, <2>7, TypeParts
<1> QED BY <1>1, TypesKept, PTL DEF Spec

\* When no resize is under way, and the newest was alone and failed in no part, the terminal
\* model has the size of the terminal, whatever crossed, failed or was cancelled before.
THEOREM SurfacesAgree == Spec => []ScreenIsTerminal
<1>1. Init => Surfaces
  BY DEF Init, Surfaces, Running, Idle, Keys
<1>2. Surfaces /\ TypeOK => ScreenIsTerminal
  <2>1. TypeOK => DOMAIN thread = Keys
    BY TypeParts DEF SizeTypes
  <2> QED BY <2>1 DEF Surfaces, ScreenIsTerminal, Resizing, Running
<1> QED BY <1>1, <1>2, SurfacesKept, TypeCorrect, PTL DEF Spec
-----------------------------------------------------------------------------
(* What the tabs believe.                                                  *)

\* When everybody subscribed who is not noted as untold was told who has the lock last, all
\* is well.
LEMMA InformedByNews ==
  ASSUME \A c \in Conns : task'[c] # "none" => c \in open',
         subscribed' \subseteq Conns,
         \A c \in subscribed' \ untold' : HasNews(c)' /\ Newest(c)'.owner = owner'
  PROVE  Informed'
BY DEF Informed, Latest, FixedPending

\* A step that changes nothing of what Informed looks at, but for less subscriptions.
LEMMA InformedKept ==
  ASSUME Informed, UNCHANGED <<task, owner, down, view>>, subscribed' \subseteq subscribed,
         \A c \in Conns : task[c] # "none" => c \in open',
         untold \cap subscribed' \subseteq untold', shown' \subseteq shown
  PROVE  Informed'
BY DEF Informed, Latest, HasNews, Newest, FixedPending

\* A tab reads the first message.
LEMMA InformedReceive ==
  ASSUME TypeOK, Informed, NEW c \in Conns, Receive(c)
  PROVE  Informed'
<1> USE DEF serverVars, history
<1>1. /\ down[c] \in Seq(Messages) /\ down[c] # <<>> /\ down' = [down EXCEPT ![c] = Tail(down[c])]
      /\ view' = [view EXCEPT ![c] = IF c \in shown' THEN Head(down[c]).owner ELSE @]
      /\ UNCHANGED <<serverVars, history>>
      /\ \A d \in Conns : d # c => (d \in shown' <=> d \in shown)
  BY TypeParts DEF Receive
<1>2. Len(down[c]) \in Nat \ {0} /\ Head(down[c]) = down[c][1]
  BY <1>1, EmptySeq
<1>3. /\ Tail(down[c]) \in Seq(Messages) /\ Len(Tail(down[c])) = Len(down[c]) - 1
      /\ \A i \in 1..Len(Tail(down[c])) : Tail(down[c])[i] = down[c][i + 1]
  BY <1>1, HeadTailProperties
<1>4. /\ down'[c] = Tail(down[c]) /\ \A d \in Conns : d # c => down'[d] = down[d] /\ view'[d] = view[d]
      /\ c \in shown' => view'[c] = Head(down[c]).owner
  BY <1>1, TypeParts DEF TabTypes
<1>5. HasNews(c)' => Newest(c)' = Newest(c)
  <2> SUFFICES ASSUME HasNews(c)' PROVE Newest(c)' = Newest(c)
    OBVIOUS
  <2> DEFINE rest == Tail(down[c])
  <2>1. /\ rest \in Seq(Messages) /\ rest # <<>> /\ Len(rest) = Len(down[c]) - 1
        /\ \A i \in 1..Len(rest) : rest[i] = down[c][i + 1]
        /\ down'[c] = rest
    BY <1>3, <1>4 DEF HasNews
  <2> HIDE DEF rest
  <2>2. Len(rest) \in 1..Len(rest)
    BY <2>1, EmptySeq
  <2>3. rest[Len(rest)] = down[c][Len(rest) + 1] /\ Len(rest) + 1 = Len(down[c])
    BY <1>2, <2>1, <2>2
  <2> QED BY <2>1, <2>3 DEF LastOf, Newest
<1>6. ~HasNews(c)' => Head(down[c]) = Newest(c)
  <2> SUFFICES ASSUME ~HasNews(c)' PROVE Head(down[c]) = Newest(c)
    OBVIOUS
  <2>1. Len(Tail(down[c])) = 0
    <3>1. Tail(down[c]) = <<>>
      BY <1>4 DEF HasNews
    <3> QED BY <3>1, EmptySeq
  <2> QED BY <1>2, <1>3, <2>1 DEF LastOf, Newest
<1>7. HasNews(c)' \/ c \in shown' => Latest(c)' = Newest(c).owner
  BY <1>4, <1>5, <1>6 DEF Latest
<1>8. \A d \in Conns : d # c => Latest(d)' = Latest(d)
  BY <1>4 DEF Latest, HasNews, Newest
<1>9. \A d \in Conns : task'[d] # "none" => d \in open'
  BY <1>1 DEF Informed
<1>10. ASSUME ~FixedPending', NEW d \in subscribed' \ untold', HasNews(d)' \/ d \in shown'
       PROVE  Latest(d)' = owner'
  <2>1. d \in Conns /\ d \in subscribed \ untold /\ ~FixedPending /\ owner' = owner
    BY <1>1, <1>10, TypeParts DEF ServerTypes, FixedPending
  <2>2. CASE d = c
    <3>1. Latest(c) = Newest(c).owner /\ Latest(c) = owner
      BY <1>1, <2>1, <2>2 DEF Informed, Latest, HasNews
    <3> QED BY <1>7, <1>10, <2>1, <2>2, <3>1
  <2>3. CASE d # c
    BY <1>1, <1>4, <1>8, <1>10, <2>1, <2>3 DEF Informed, HasNews
  <2> QED BY <2>2, <2>3
<1> QED BY <1>9, <1>10 DEF Informed

\* The handlers, and the end of a connection.
LEMMA InformedHandler ==
  ASSUME TypeOK, Informed, NEW c \in Conns, Handler(c)
  PROVE  Informed'
<1> USE DEF serverVars, sizeVars, tabVars, history
<1>0. /\ \A who \in {NoOne, User[c], Someone} : Message(who) \in Messages /\ Message(who).owner = who
      /\ Subscribed \in Messages /\ Subscribed.owner = owner
      /\ subscribed \subseteq Conns /\ subscribed \subseteq open
  BY MessageTypes, TypeParts DEF ServerTypes
<1>1. CASE Subscribe(c)
  <2>1. /\ Serving(c, "subscribe") /\ Tell({}, Message(NoOne), c, Subscribed)
        /\ subscribed' = subscribed \cup {c}
        /\ UNCHANGED <<owner, open, task, tabVars>>
    BY <1>1 DEF Subscribe
  <2>2. /\ c \notin untold' => HasNews(c)' /\ Newest(c)'.owner = owner
        /\ \A d \in Conns : d # c => down'[d] = down[d] /\ (d \in untold' <=> d \in untold)
    <3>1. Message(NoOne) \in Messages
      BY <1>0
    <3>2. PICK message \in Messages, answer \in Messages, told \in SUBSET Conns :
            told = {} /\ Tell(told, message, c, answer) /\ answer.owner = owner
      BY <1>0, <2>1, <3>1
    <3>3. c \notin untold' => HasNews(c)' /\ Newest(c)' = answer
      BY <3>2, TellAnswer
    <3>4. \A d \in Conns : d # c /\ d \notin told =>
            down'[d] = down[d] /\ (d \in untold' <=> d \in untold)
      BY <3>2, TellFacts
    <3> QED BY <3>2, <3>3, <3>4
  <2>3. (c \notin untold' => Latest(c)' = owner') /\ \A d \in Conns : d # c => Latest(d)' = Latest(d)
    BY <2>1, <2>2 DEF Latest, HasNews, Newest
  <2> QED BY <1>0, <2>1, <2>2, <2>3 DEF Informed, FixedPending, HasNews
<1>2. CASE Unsubscribe(c) \/ Refused(c)
  BY <1>2, InformedKept DEF Informed, Unsubscribe, Refused
<1>3. CASE Takeover(c) \/ SetAdaptive(c) \/ SetDefault(c)
  <2>1. PICK who \in {NoOne, User[c]}, told \in {subscribed, subscribed \ {c}} :
          /\ owner' = who /\ Tell(told, Message(who), c, Message(who))
          /\ UNCHANGED <<open, subscribed, task>>
    BY <1>3 DEF Takeover, SetAdaptive, SetDefault
  <2>2. \A d \in Conns \ untold' : (d \in told \/ d = c) => HasNews(d)' /\ Newest(d)' = Message(who)
    <3>1. PICK message \in Messages : message = Message(who) /\ Tell(told, message, c, message)
      BY <1>0, <2>1
    <3>2. c \notin untold' => HasNews(c)' /\ Newest(c)' = message
      BY <3>1, TellAnswer
    <3>3. \A d \in Conns : d \notin untold' /\ d # c /\ d \in told => HasNews(d)' /\ Newest(d)' = message
      BY <3>1, TellNews
    <3> QED BY <3>1, <3>2, <3>3
  <2> QED BY <1>0, <2>1, <2>2, InformedByNews DEF Informed
<1>4. CASE SetFixed(c)
  <2>1. /\ c \in open /\ open' = open /\ task' = [task EXCEPT ![c] = "fixed"]
    BY <1>4, ServingFacts DEF SetFixed
  <2>2. task'[c] = "fixed" /\ \A d \in Conns : d # c => task'[d] = task[d]
    BY <2>1, TypeParts DEF ServerTypes
  <2> QED BY <2>1, <2>2 DEF Informed, FixedPending
<1>5. CASE Resize(c)
  <2>1. /\ c \in open /\ task[c] = "none" /\ open' = open /\ task' = [task EXCEPT ![c] = "resize"]
        /\ UNCHANGED <<owner, subscribed, down, tabVars, history>>
    BY <1>5, ServingFacts DEF Resize
  <2>2. task'[c] = "resize" /\ \A d \in Conns : d # c => task'[d] = task[d]
    BY <2>1, TypeParts DEF ServerTypes
  <2>3. FixedPending => FixedPending'
    BY <2>1, <2>2 DEF FixedPending
  <2> QED BY <2>1, <2>2, <2>3 DEF Informed, Latest, HasNews, Newest
<1>6. CASE Finish(c) \/ FinishFailed(c) \/ Resized(c)
  <2>1. /\ task[c] # "none" /\ task' = [task EXCEPT ![c] = "none"]
        /\ UNCHANGED <<owner, open, subscribed, tabVars>>
    BY <1>6 DEF Finish, FinishFailed, Resized, Resumes
  <2>2. task'[c] = "none" /\ \A d \in Conns : d # c => task'[d] = task[d]
    BY <2>1, TypeParts DEF ServerTypes
  <2>3. \A d \in Conns : task'[d] # "none" => d \in open'
    BY <2>1, <2>2 DEF Informed
  <2>4. CASE Resized(c)
    <3>1. task[c] = "resize" /\ UNCHANGED <<down, untold>>
      BY <2>4 DEF Resized
    <3>2. FixedPending => FixedPending'
      BY <2>2, <3>1 DEF FixedPending
    <3> QED BY <2>1, <2>3, <3>1, <3>2 DEF Informed, Latest, HasNews, Newest
  <2>5. CASE subscribed' \subseteq untold'
    BY <1>0, <2>1, <2>3, <2>5, InformedByNews
  <2>6. CASE owner = NoOne /\ Tell(subscribed \ {c}, Message(NoOne), c, Message(NoOne))
    <3>1. PICK message \in Messages, told \in SUBSET Conns :
            /\ message = Message(NoOne) /\ told = subscribed \ {c} /\ Tell(told, message, c, message)
      BY <1>0, <2>6
    <3>2. /\ c \notin untold' => HasNews(c)' /\ Newest(c)' = message
          /\ \A d \in Conns : d \notin untold' /\ d # c /\ d \in told => HasNews(d)' /\ Newest(d)' = message
      BY <3>1, TellAnswer, TellNews
    <3>3. \A d \in subscribed' \ untold' : HasNews(d)' /\ Newest(d)' = Message(NoOne)
      BY <1>0, <2>1, <3>1, <3>2
    <3> QED BY <1>0, <2>1, <2>3, <2>6, <3>3, InformedByNews
  <2>7. CASE FinishFailed(c)
    BY <2>1, <2>5, <2>7 DEF FinishFailed
  <2>8. CASE Finish(c)
    BY <2>1, <2>5, <2>6, <2>8 DEF Finish
  <2> QED BY <1>6, <2>4, <2>7, <2>8
<1>7. CASE SetSizeless(c)
  <2>1. /\ owner' = NoOne /\ untold' = IF owner = NoOne THEN untold ELSE untold \cup subscribed
        /\ UNCHANGED <<open, subscribed, task, down, tabVars>>
    BY <1>7 DEF SetSizeless
  <2>2. CASE owner = NoOne
    BY <2>1, <2>2, InformedKept DEF Informed
  <2>3. CASE owner # NoOne
    BY <1>0, <2>1, <2>3, InformedByNews DEF Informed
  <2> QED BY <2>2, <2>3
<1> QED BY <1>1, <1>2, <1>3, <1>4, <1>5, <1>6, <1>7 DEF Handler

\* The end of a connection, when no word about a fixed size is due any more than before, or
\* all who are subscribed are noted.
LEMMA InformedCleanup ==
  ASSUME TypeOK, Informed, NEW c \in Conns, NEW missed \in SUBSET Conns, Cleanup(c, missed),
         missed = subscribed \/ (~FixedPending' => ~FixedPending)
  PROVE  Informed'
<1>0. subscribed \subseteq Conns /\ subscribed \subseteq open /\ Message(NoOne).owner = NoOne
  BY TypeParts, MessageTypes DEF ServerTypes
<1>1. /\ open' = open \ {c} /\ subscribed' = subscribed \ {c}
      /\ task' = [task EXCEPT ![c] = "none"] /\ shown' = shown \ {c}
  BY CleanupFacts DEF Cleanup, TabGone
<1>2. task'[c] = "none" /\ \A d \in Conns : d # c => task'[d] = task[d]
  BY <1>1, TypeParts DEF ServerTypes
<1>3. \A d \in Conns : task'[d] # "none" => d \in open'
  BY <1>1, <1>2 DEF Informed
<1>4. CASE /\ owner' = NoOne
           /\ \A d \in subscribed' \ untold' : HasNews(d)' /\ Newest(d)' = Message(NoOne)
  BY <1>0, <1>1, <1>3, <1>4, InformedByNews
<1>5. CASE /\ owner' = owner /\ untold' = (untold \cup missed) \ {c}
           /\ \A d \in Conns : d # c => down'[d] = down[d] /\ view'[d] = view[d]
  <2>1. CASE missed = subscribed
    BY <1>0, <1>1, <1>3, <1>5, <2>1, InformedByNews
  <2>2. CASE ~FixedPending' => ~FixedPending
    <3>1. \A d \in Conns : d # c => Latest(d)' = Latest(d) /\ (HasNews(d)' <=> HasNews(d))
      BY <1>5 DEF Latest, HasNews, Newest
    <3>2. ASSUME ~FixedPending', NEW d \in subscribed' \ untold', HasNews(d)' \/ d \in shown'
          PROVE  Latest(d)' = owner'
      BY <1>0, <1>1, <1>5, <2>2, <3>1, <3>2 DEF Informed
    <3> QED BY <1>3, <3>2 DEF Informed
  <2> QED BY <2>1, <2>2
<1> QED BY <1>4, <1>5, CleanupFacts

\* Every step keeps the tabs informed.
LEMMA InformedStep ==
  ASSUME TypeOK, Informed, [Next]_vars
  PROVE  Informed'
<1> USE DEF serverVars, sizeVars, tabVars, history
<1>0. subscribed \subseteq Conns /\ subscribed \subseteq open
  BY TypeParts DEF ServerTypes
<1>1. ASSUME NEW c \in Conns, Tab(c) PROVE Informed'
  <2>1. CASE Receive(c)
    BY <2>1, InformedReceive
  <2>2. CASE ~Receive(c)
    <3>1. UNCHANGED <<serverVars, down, view, history>> /\ shown' \subseteq shown
      BY <1>1, <2>2, TabAsks
    <3> QED BY <3>1, InformedKept DEF Informed
  <2> QED BY <2>1, <2>2
<1>2. ASSUME NEW c \in Conns, Leaves(c) PROVE Informed'
  <2>1. Cleanup(c, {}) /\ task[c] = "none"
    BY <1>2 DEF Leaves
  <2>2. {} \in SUBSET Conns
    OBVIOUS
  <2>3. ~FixedPending' => ~FixedPending
    <3>1. task' = [task EXCEPT ![c] = "none"]
      BY <2>1 DEF Cleanup
    <3> QED BY <2>1, <3>1, TypeParts DEF ServerTypes, FixedPending
  <2> QED BY <2>1, <2>2, <2>3, InformedCleanup
<1>3. ASSUME NEW c \in Conns, CutOff(c) PROVE Informed'
  <2>1. PICK missed \in SUBSET Conns : /\ Cleanup(c, missed)
                                      /\ missed = IF task[c] = "fixed" THEN subscribed ELSE {}
    BY <1>0, <1>3 DEF CutOff
  <2>2. missed = subscribed \/ (~FixedPending' => ~FixedPending)
    <3>1. task' = [task EXCEPT ![c] = "none"]
      BY <2>1 DEF Cleanup
    <3> QED BY <2>1, <3>1, TypeParts DEF ServerTypes, FixedPending
  <2> QED BY <2>1, <2>2, InformedCleanup
<1>4. ASSUME NEW k, ResizeScreen(k) \/ ResizePty(k) PROVE Informed'
  BY <1>4, InformedKept DEF Informed, ResizeScreen, ResizePty
<1>5. ASSUME NEW size \in Sizes, ProgramResizes(size) PROVE Informed'
  BY <1>5, InformedKept DEF Informed, ProgramResizes
<1>6. CASE UNCHANGED vars
  BY <1>6, InformedKept DEF Informed, vars
<1> QED BY <1>1, <1>2, <1>3, <1>4, <1>5, <1>6, InformedHandler DEF Next

\* With nothing on its way, every tab that shows the session believes of the owner of the
\* lock what is so, unless the last word due to it was lost, wrong or never sent for one of
\* the reasons that untold names; the next word that reaches it puts it right.
THEOREM BeliefsAgree == Spec => []BeliefAgrees
<1>1. Init => Informed
  BY DEF Init, Informed
<1>2. TypeOK /\ Informed => BeliefAgrees
  <2> SUFFICES ASSUME TypeOK, Informed, AtRest, NEW c \in (shown \cap subscribed) \ untold
               PROVE  view[c] = owner
    BY DEF BeliefAgrees
  <2>1. subscribed \subseteq Conns /\ subscribed \subseteq open /\ open \subseteq Conns
    BY TypeParts DEF ServerTypes
  <2>2. \A d \in Conns : task[d] = "none"
    BY DEF AtRest, Informed
  <2>3. ~FixedPending /\ ~HasNews(c)
    BY <2>1, <2>2 DEF AtRest, FixedPending, HasNews
  <2> QED BY <2>3 DEF Informed, Latest, HasNews, Newest
<1> QED BY <1>1, <1>2, InformedStep, TypeCorrect, PTL DEF Spec
-----------------------------------------------------------------------------
(* Who owns the lock.                                                      *)

\* Only the part of c in the two sets matters.
LEMMA SoundSame ==
  ASSUME NEW c, NEW q, NEW here, NEW here1, NEW wants, NEW wants1, Sound(c, q, here, wants),
         c \in here1 <=> c \in here, c \in wants1 <=> c \in wants
  PROVE  Sound(c, q, here1, wants1)
BY DEF Sound, Follows

\* What a tab that is, or will be, subscribed asks for is asked in time.
LEMMA SoundAppended ==
  ASSUME NEW q \in Seq(Requests), NEW r \in Seq(Requests), NEW c, NEW here,
         NEW wants, NEW wants1, Sound(c, q, here, wants),
         \/ c \in wants /\ \A i \in 1..Len(r) : r[i].type \in Modest
         \/ c \in wants /\ c \notin wants1 /\ r = <<Request("unsubscribe")>>
         \/ r = <<Request("subscribe")>>
  PROVE  Sound(c, q \o r, here, wants1)
<1> DEFINE n == Len(q)  w == q \o r
<1>1. /\ n \in Nat /\ Len(r) \in Nat /\ Len(w) = n + Len(r)
      /\ \A i \in 1..n : w[i] = q[i]
      /\ \A i \in (n + 1)..Len(w) : w[i] = r[i - n]
  BY ConcatProperties
<1> HIDE DEF n, w
<1>2. \A i \in 0..n : Follows(c, q, here, i) => Follows(c, w, here, i)
  BY <1>1 DEF Follows
<1>3. \A i \in 1..n : w[i].type # "subscribe" => Follows(c, w, here, i - 1)
  BY <1>1, <1>2 DEF Sound, n
<1>4. CASE c \in wants /\ \A i \in 1..Len(r) : r[i].type \in Modest
  <2>1. Follows(c, q, here, n)
    BY <1>4 DEF Sound, n
  <2>2. ASSUME NEW i \in (n + 1)..Len(w) PROVE w[i].type # "unsubscribe"
    <3>1. i - n \in 1..Len(r) /\ w[i] = r[i - n]
      BY <1>1
    <3>2. r[i - n].type \in Modest /\ "unsubscribe" \notin Modest
      BY <1>4, <3>1 DEF Modest
    <3> QED BY <3>1, <3>2
  <2>3. \A i \in n..Len(w) : Follows(c, w, here, i)
    BY <1>1, <2>1, <2>2 DEF Follows
  <2>4. ASSUME NEW i \in (n + 1)..Len(w) PROVE Follows(c, w, here, i - 1)
    <3>1. i - 1 \in n..Len(w)
      BY <1>1
    <3> QED BY <2>3, <3>1
  <2> QED BY <1>1, <1>3, <2>3, <2>4 DEF Sound, w
<1>5. CASE c \in wants /\ c \notin wants1 /\ r = <<Request("unsubscribe")>>
  <2>1. Follows(c, w, here, n)
    BY <1>1, <1>2, <1>5 DEF Sound, n
  <2>2. Len(w) = n + 1
    BY <1>1, <1>5
  <2> QED BY <1>1, <1>3, <1>5, <2>1, <2>2 DEF Sound, w
<1>6. CASE r = <<Request("subscribe")>>
  <2>1. Len(w) = n + 1 /\ w[n + 1].type = "subscribe"
    BY <1>1, <1>6 DEF Request
  <2>2. Follows(c, w, here, n + 1)
    BY <1>1, <2>1 DEF Follows
  <2> QED BY <1>1, <1>3, <2>1, <2>2 DEF Sound, w
<1> QED BY <1>4, <1>5, <1>6

\* The first request is heard.
LEMMA SoundTaken ==
  ASSUME NEW c, NEW q, NEW t, NEW here, NEW here1, NEW wants,
         Sound(c, q, here, wants), Len(q) \in Nat \ {0}, Len(t) = Len(q) - 1,
         \A i \in 1..Len(t) : t[i] = q[i + 1],
         q[1].type = "subscribe" => c \in here1,
         q[1].type \notin {"subscribe", "unsubscribe"} => (c \in here1 <=> c \in here)
  PROVE  Sound(c, t, here1, wants)
<1>1. ASSUME NEW i \in 1..Len(q), Follows(c, q, here, i) PROVE Follows(c, t, here1, i - 1)
  <2>1. ASSUME NEW j \in 1..(i - 1), t[j].type = "unsubscribe"
        PROVE  \E k \in (j + 1)..(i - 1) : t[k].type = "subscribe"
    <3>0. j + 1 \in 1..i /\ q[j + 1].type = "unsubscribe"
      BY <1>1, <2>1
    <3>1. PICK k \in ((j + 1) + 1)..i : q[k].type = "subscribe"
      BY <1>1, <3>0 DEF Follows
    <3>2. k - 1 \in (j + 1)..(i - 1) /\ t[k - 1].type = "subscribe"
      BY <3>1
    <3> QED BY <3>2
  <2>2. c \in here1 \/ \E k \in 1..(i - 1) : t[k].type = "subscribe"
    <3>1. CASE \E k \in 2..i : q[k].type = "subscribe"
      <4>1. PICK k \in 2..i : q[k].type = "subscribe"
        BY <3>1
      <4>2. k - 1 \in 1..(i - 1) /\ t[k - 1].type = "subscribe"
        BY <4>1
      <4> QED BY <4>2
    <3>2. CASE ~\E k \in 2..i : q[k].type = "subscribe"
      <4>1. q[1].type # "unsubscribe"
        BY <1>1, <3>2 DEF Follows
      <4>2. c \in here \/ q[1].type = "subscribe"
        BY <1>1, <3>2 DEF Follows
      <4> QED BY <4>1, <4>2
    <3> QED BY <3>1, <3>2
  <2> QED BY <2>1, <2>2 DEF Follows
<1>2. c \in wants => Follows(c, t, here1, Len(t))
  BY <1>1 DEF Sound
<1>3. ASSUME NEW i \in 1..Len(t), t[i].type # "subscribe" PROVE Follows(c, t, here1, i - 1)
  <2>1. i + 1 \in 1..Len(q) /\ Follows(c, q, here, i) /\ i \in 1..Len(q)
    BY <1>3 DEF Sound
  <2> QED BY <1>1, <2>1
<1> QED BY <1>2, <1>3 DEF Sound

\* Who asks for the lock is subscribed.
LEMMA AskersSubscribed ==
  ASSUME TypeOK, Orderly, NEW c \in Conns, SetAdaptive(c)
  PROVE  c \in subscribed
<1>1. Serving(c, "adaptive")
  BY DEF SetAdaptive
<1>2. /\ Len(up[c]) \in Nat /\ Len(up[c]) > 0 /\ up[c][1].type = "adaptive" /\ c \in open
  BY <1>1, ServingFacts
<1>3. Follows(c, up[c], subscribed, 0)
  BY <1>2 DEF Orderly, Sound
<1> QED BY <1>3 DEF Follows

\* What is asked stays in order.
LEMMA OrderlyStep ==
  ASSUME TypeOK, Orderly, [Next]_vars
  PROVE  Orderly'
<1> USE DEF serverVars, sizeVars, tabVars, history
<1>1. ASSUME open' \subseteq open, UNCHANGED wanted,
             \A d \in open' : up'[d] = up[d] /\ (d \in subscribed' <=> d \in subscribed)
      PROVE  Orderly'
  <2>1. ASSUME NEW d \in open' PROVE Sound(d, up'[d], subscribed', wanted')
    BY <1>1, SoundSame DEF Orderly
  <2> QED BY <2>1 DEF Orderly
<1>2. ASSUME NEW c \in Conns, Tab(c) PROVE Orderly'
  <2>1. CASE Receive(c)
    BY <1>1, <2>1 DEF Receive
  <2>2. CASE ~Receive(c)
    <3>1. c \in open /\ UNCHANGED <<open, subscribed>>
      BY <1>2, <2>2, TabAsks
    <3>2. PICK r \in Seq(Requests) :
            /\ up' = [up EXCEPT ![c] = @ \o r]
            /\ \/ /\ c \in shown /\ UNCHANGED <<wanted, shown>>
                  /\ \A i \in 1..Len(r) : r[i].type \in Modest
               \/ /\ r = <<Request("unsubscribe")>>
                  /\ c \in shown /\ shown' = shown \ {c} /\ wanted' = wanted \ {c}
               \/ /\ r = <<Request("subscribe")>>
                  /\ shown' = shown /\ wanted' = wanted \cup {c}
      BY <1>2, <2>2, TabAsks
    <3>3. /\ up'[c] = up[c] \o r /\ up[c] \in Seq(Requests)
          /\ \A d \in Conns : d # c => up'[d] = up[d]
          /\ shown \subseteq wanted /\ open \subseteq Conns
      BY <3>2, TypeParts DEF TabTypes, ServerTypes
    <3>4. \A d \in Conns : d # c => (d \in wanted' <=> d \in wanted)
      BY <3>2
    <3>5. Sound(c, up[c], subscribed, wanted)
      BY <3>1 DEF Orderly
    <3>6. \/ c \in wanted /\ \A i \in 1..Len(r) : r[i].type \in Modest
          \/ c \in wanted /\ c \notin wanted' /\ r = <<Request("unsubscribe")>>
          \/ r = <<Request("subscribe")>>
      BY <3>2, <3>3
    <3>7. Sound(c, up[c] \o r, subscribed, wanted')
      BY <3>3, <3>5, <3>6, SoundAppended
    <3>8. ASSUME NEW d \in open', d # c PROVE Sound(d, up'[d], subscribed', wanted')
      <4>1. /\ Sound(d, up[d], subscribed, wanted) /\ up'[d] = up[d]
            /\ (d \in wanted' <=> d \in wanted) /\ subscribed' = subscribed
        BY <3>1, <3>3, <3>4, <3>8 DEF Orderly
      <4> QED BY <4>1, SoundSame
    <3> QED BY <3>1, <3>3, <3>7, <3>8 DEF Orderly
  <2> QED BY <2>1, <2>2
<1>3. ASSUME NEW c \in Conns, NEW type, Serving(c, type), UNCHANGED <<open, wanted>>,
             type = "subscribe" => c \in subscribed',
             type \notin {"subscribe", "unsubscribe"} => subscribed' = subscribed,
             \A d \in Conns : d # c => (d \in subscribed' <=> d \in subscribed)
      PROVE  Orderly'
  <2>1. /\ Len(up[c]) \in Nat \ {0} /\ up[c][1].type = type
        /\ Len(up'[c]) = Len(up[c]) - 1
        /\ \A i \in 1..Len(up'[c]) : up'[c][i] = up[c][i + 1]
        /\ \A d \in Conns : d # c => up'[d] = up[d]
        /\ c \in open
    BY <1>3, ServingFacts
  <2>2. Sound(c, up[c], subscribed, wanted)
    BY <2>1 DEF Orderly
  <2>3. Sound(c, up'[c], subscribed', wanted)
    <3>1. /\ up[c][1].type = "subscribe" => c \in subscribed'
          /\ up[c][1].type \notin {"subscribe", "unsubscribe"} =>
               (c \in subscribed' <=> c \in subscribed)
      BY <1>3, <2>1
    <3> QED BY <2>1, <2>2, <3>1, SoundTaken
  <2>4. open' = open /\ open \subseteq Conns
    BY <1>3, TypeParts DEF ServerTypes
  <2>5. ASSUME NEW d \in open, d # c PROVE Sound(d, up'[d], subscribed', wanted')
    <3>1. /\ Sound(d, up[d], subscribed, wanted) /\ up'[d] = up[d] /\ wanted' = wanted
          /\ (d \in subscribed' <=> d \in subscribed)
      BY <1>3, <2>1, <2>4, <2>5 DEF Orderly
    <3> QED BY <3>1, SoundSame
  <2> QED BY <1>3, <2>3, <2>4, <2>5 DEF Orderly
<1>4. ASSUME NEW c \in Conns, Handler(c) PROVE Orderly'
  <2>1. CASE Subscribe(c)
    BY <1>3, <2>1 DEF Subscribe
  <2>2. CASE Unsubscribe(c)
    BY <1>3, <2>2 DEF Unsubscribe
  <2>3. CASE \/ Takeover(c) \/ SetAdaptive(c) \/ Refused(c) \/ SetDefault(c) \/ SetFixed(c)
             \/ SetSizeless(c) \/ Resize(c)
    <3>1. PICK type \in Modest : Serving(c, type)
      BY <2>3 DEF Modest, SetSizeless, Takeover, SetAdaptive, Refused, SetDefault, SetFixed, Resize
    <3>2. UNCHANGED <<open, subscribed, wanted>>
      BY <2>3 DEF SetSizeless, Takeover, SetAdaptive, Refused, SetDefault, SetFixed, Resize
    <3>3. type \notin {"subscribe", "unsubscribe"}
      BY DEF Modest
    <3> QED BY <1>3, <3>1, <3>2, <3>3
  <2>4. CASE Finish(c) \/ FinishFailed(c) \/ Resized(c)
    BY <1>1, <2>4 DEF Finish, FinishFailed, Resized, Resumes
  <2> QED BY <1>4, <2>1, <2>2, <2>3, <2>4 DEF Handler
<1>5. ASSUME NEW c \in Conns, Leaves(c) \/ CutOff(c) PROVE Orderly'
  <2>1. PICK missed : Cleanup(c, missed)
    BY <1>5 DEF Leaves, CutOff
  <2>2. /\ open' = open \ {c} /\ subscribed' = subscribed \ {c} /\ up' = [up EXCEPT ![c] = <<>>]
        /\ wanted' = wanted \ {c}
    BY <2>1 DEF Cleanup, TabGone
  <2>3. ASSUME NEW d \in open' PROVE Sound(d, up'[d], subscribed', wanted')
    <3>1. /\ Sound(d, up[d], subscribed, wanted) /\ up'[d] = up[d]
          /\ (d \in subscribed' <=> d \in subscribed) /\ (d \in wanted' <=> d \in wanted)
      BY <2>2, <2>3, TypeParts DEF ServerTypes, Orderly
    <3> QED BY <3>1, SoundSame
  <2> QED BY <2>3 DEF Orderly
<1>6. ASSUME NEW k, ResizeScreen(k) \/ ResizePty(k) PROVE Orderly'
  BY <1>1, <1>6 DEF ResizeScreen, ResizePty
<1>7. ASSUME NEW size \in Sizes, ProgramResizes(size) PROVE Orderly'
  BY <1>1, <1>7 DEF ProgramResizes
<1>8. CASE UNCHANGED vars
  BY <1>1, <1>8 DEF vars
<1> QED BY <1>2, <1>4, <1>5, <1>6, <1>7, <1>8 DEF Next

\* A step leaves the lock with a user who can use it.
LEMMA OwnerStep ==
  ASSUME TypeOK, Orderly, OwnerHasConnection, [Next]_vars
  PROVE  OwnerHasConnection'
<1> USE DEF serverVars, sizeVars, tabVars, history
<1>1. ASSUME UNCHANGED <<owner, subscribed, abandoned>> PROVE OwnerHasConnection'
  BY <1>1 DEF OwnerHasConnection
<1>2. ASSUME owner' = NoOne PROVE OwnerHasConnection'
  BY <1>2 DEF OwnerHasConnection
<1>3. ASSUME NEW c \in Conns, Tab(c) PROVE OwnerHasConnection'
  <2>1. CASE Receive(c)
    BY <1>1, <2>1 DEF Receive
  <2>2. CASE ~Receive(c)
    BY <1>1, <1>3, <2>2, TabAsks
  <2> QED BY <2>1, <2>2
<1>4. ASSUME NEW c \in Conns, Handler(c) PROVE OwnerHasConnection'
  <2>1. CASE Subscribe(c)
    BY <2>1 DEF Subscribe, OwnerHasConnection
  <2>2. CASE Unsubscribe(c)
    BY <2>2 DEF Unsubscribe, OwnerHasConnection
  <2>3. CASE Takeover(c) \/ SetDefault(c) \/ SetFixed(c) \/ SetSizeless(c)
    BY <1>2, <2>3 DEF Takeover, SetDefault, SetFixed, SetSizeless
  <2>4. CASE SetAdaptive(c)
    <3>1. c \in subscribed
      BY <2>4, AskersSubscribed
    <3> QED BY <2>4, <3>1 DEF SetAdaptive, OwnerHasConnection
  <2>5. CASE Refused(c) \/ Resize(c) \/ Finish(c) \/ FinishFailed(c) \/ Resized(c)
    BY <1>1, <2>5 DEF Refused, Resize, Finish, FinishFailed, Resized, Resumes
  <2> QED BY <1>4, <2>1, <2>2, <2>3, <2>4, <2>5 DEF Handler
<1>5. ASSUME NEW c \in Conns, Leaves(c) \/ CutOff(c) PROVE OwnerHasConnection'
  <2>1. PICK missed : Cleanup(c, missed) /\ abandoned' = abandoned
    BY <1>5 DEF Leaves, CutOff
  <2>2. subscribed' = subscribed \ {c}
    BY <2>1 DEF Cleanup
  <2>3. CASE c \in subscribed /\ owner = User[c] /\ ~Inherited(c)
    BY <1>2, <2>1, <2>3 DEF Cleanup
  <2>4. CASE ~(c \in subscribed /\ owner = User[c] /\ ~Inherited(c))
    <3>1. owner' = owner
      BY <2>1, <2>4 DEF Cleanup
    <3> QED BY <2>1, <2>2, <2>4, <3>1 DEF OwnerHasConnection, Inherited
  <2> QED BY <2>3, <2>4
<1>6. ASSUME NEW k, ResizeScreen(k) \/ ResizePty(k) PROVE OwnerHasConnection'
  BY <1>1, <1>6 DEF ResizeScreen, ResizePty
<1>7. ASSUME NEW size \in Sizes, ProgramResizes(size) PROVE OwnerHasConnection'
  BY <1>1, <1>7 DEF ProgramResizes
<1>8. CASE UNCHANGED vars
  BY <1>1, <1>8 DEF vars
<1> QED BY <1>3, <1>4, <1>5, <1>6, <1>7, <1>8 DEF Next

\* Whoever owns the lock has a connection that is subscribed, except after an owner has
\* unsubscribed and kept it: the end of a connection gives the lock up or leaves it to
\* another connection of the same user.
THEOREM OwnersAreConnected == Spec => []OwnerHasConnection
<1>1. Init => Orderly
  <2>1. ASSUME Init, NEW c \in open PROVE Sound(c, up[c], subscribed, wanted)
    <3>1. c \in Conns /\ up[c] = <<Request("subscribe")>>
      BY <2>1 DEF Init
    <3>2. Len(up[c]) = 1 /\ up[c][1].type = "subscribe"
      BY <3>1 DEF Request
    <3> QED BY <3>2 DEF Sound, Follows
  <2> QED BY <2>1 DEF Orderly
<1>2. Init => OwnerHasConnection
  BY DEF Init, OwnerHasConnection
<1> QED BY <1>1, <1>2, OrderlyStep, OwnerStep, TypeCorrect, PTL DEF Spec
=============================================================================
