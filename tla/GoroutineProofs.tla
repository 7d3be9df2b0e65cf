-------------------------- MODULE GoroutineProofs ---------------------------
(***************************************************************************)
(* Proofs about the three protocols of goroutines, locks and channels      *)
(* beside the orders themselves: starting and stopping the order           *)
(* controller, telling the browsers what happens, and the searches of the  *)
(* optimizer.  Each part is about one module and none about two of them.   *)
(***************************************************************************)
EXTENDS OrderMonitor, OrderUpdates, Optimizer, FiniteSetTheorems, SequenceTheorems, TLAPS

-----------------------------------------------------------------------------
(* Starting and stopping the order controller (OrderMonitor) *)

Calling(c, steps) == pc[c] \in steps

\* A goroutine is wanted while the controller runs, and until the caller of
\* Stop has told it to return.
Wanted == status = "running" \/ \E c \in Callers : Calling(c, {"updating", "finishing"})

SerialInv ==
  /\ TypeOK
  /\ \A c, d \in Callers : pc[c] # "idle" /\ pc[d] # "idle" => c = d
  /\ \A c \in Callers : /\ pc[c] = "starting" => status # "running"
                        /\ pc[c] = "stopping" => status = "running"
                        /\ Calling(c, {"updating", "finishing"}) => status = "stopped"
  /\ Wanted => \E l \in Loops : Live = {l}
  /\ ~Wanted => Live = {}

\* What a step of one goroutine does to the set of the live ones.
LEMMA LiveAfter ==
  ASSUME TypeOK, NEW l \in Loops, NEW state, Become(l, state)
  PROVE  Live' = IF state \in {"select", "ticked", "updating"} THEN Live \cup {l} ELSE Live \ {l}
  BY DEF TypeOK, Become, Live

LEMMA CallKeeps ==
  ASSUME SerialInv, Serial, NEW c \in Callers, Start(c) \/ Stop(c)
  PROVE  SerialInv'
  <1>1. \A d \in Callers : pc[d] = "idle"
    BY DEF Start, Stop, MayCall
  <1>2. UNCHANGED <<status, mu, loop>> /\ pc \in [Callers -> {"idle", "starting", "stopping", "updating", "finishing"}]
    BY DEF Start, Stop, SerialInv, TypeOK
  <1>3. Live' = Live
    BY <1>2 DEF Live
  <1>4. CASE Start(c)
    <2>1. pc' = [pc EXCEPT ![c] = "starting"] /\ status # "running"
      BY <1>4 DEF Start, Goto
    <2>2. ~Wanted /\ ~Wanted'
      BY <1>1, <1>2, <2>1 DEF Wanted, Calling
    <2>. QED
      BY <1>1, <1>2, <1>3, <2>1, <2>2 DEF SerialInv, TypeOK, Calling
  <1>5. CASE Stop(c)
    <2>1. pc' = [pc EXCEPT ![c] = "stopping"] /\ status = "running"
      BY <1>5 DEF Stop, Goto
    <2>2. Wanted /\ Wanted'
      BY <1>2, <2>1 DEF Wanted
    <2>. QED
      BY <1>1, <1>2, <1>3, <2>1, <2>2 DEF SerialInv, TypeOK, Calling
  <1>. QED
    BY <1>4, <1>5

LEMMA CallStepKeeps ==
  ASSUME SerialInv, NEW c \in Callers, CallStep(c)
  PROVE  SerialInv'
  <1>1. /\ pc \in [Callers -> {"idle", "starting", "stopping", "updating", "finishing"}]
        /\ loop \in [Loops -> {"unborn", "select", "ticked", "updating", "returned"}]
        /\ mu \in Callers \cup Loops \cup {Nobody}
    BY DEF SerialInv, TypeOK
  <1>2. pc[c] # "idle"
    BY DEF CallStep, Starting, Stopping, LastUpdate, Finish
  <1>3. \A d \in Callers : d # c => pc[d] = "idle"
    BY <1>2 DEF SerialInv
  <1>4. ASSUME NEW l \in Loops, Starting(c, l)
        PROVE  SerialInv'
    <2>1. /\ pc[c] = "starting" /\ loop[l] = "unborn" /\ status' = "running" /\ mu' = mu
          /\ pc' = [pc EXCEPT ![c] = "idle"] /\ Become(l, "select")
      BY <1>4 DEF Starting, Goto, Unborn
    <2>2. ~Wanted /\ Wanted'
      BY <1>3, <2>1 DEF SerialInv, Wanted, Calling
    <2>3. Live' = {l}
      BY <2>1, <2>2, LiveAfter DEF SerialInv
    <2>4. TypeOK'
      BY <1>1, <2>1 DEF TypeOK, Become
    <2>. QED
      BY <1>1, <1>3, <2>1, <2>2, <2>3, <2>4 DEF SerialInv, Calling
  <1>5. CASE Stopping(c)
    <2>1. /\ pc[c] = "stopping" /\ status' = "stopped" /\ UNCHANGED <<mu, loop>>
          /\ pc' = [pc EXCEPT ![c] = "updating"]
      BY <1>5 DEF Stopping, Goto
    <2>2. Wanted /\ Wanted' /\ Live' = Live
      BY <1>1, <2>1 DEF SerialInv, Wanted, Calling, Live
    <2>3. TypeOK'
      BY <1>1, <2>1 DEF TypeOK
    <2>. QED
      BY <1>1, <1>3, <2>1, <2>2, <2>3 DEF SerialInv, Calling
  <1>6. CASE LastUpdate(c)
    <2>1. /\ pc[c] = "updating" /\ UNCHANGED <<status, loop>>
          /\ pc' = pc \/ pc' = [pc EXCEPT ![c] = "finishing"]
          /\ mu' \in {c, Nobody}
      BY <1>6 DEF LastUpdate, Goto
    <2>2. pc'[c] \in {"updating", "finishing"} /\ \A d \in Callers : d # c => pc'[d] = "idle"
      BY <1>1, <1>3, <2>1
    <2>3. Wanted /\ Wanted' /\ Live' = Live /\ status = "stopped"
      BY <2>1, <2>2 DEF SerialInv, Wanted, Calling, Live
    <2>4. TypeOK'
      BY <1>1, <2>1 DEF SerialInv, TypeOK
    <2>. QED
      BY <2>1, <2>2, <2>3, <2>4 DEF SerialInv, Calling
  <1>7. CASE Finish(c)
    <2>1. /\ pc[c] = "finishing" /\ UNCHANGED <<status, mu>>
          /\ pc' = [pc EXCEPT ![c] = "idle"]
      BY <1>7 DEF Finish, Goto
    <2>2. PICK l \in Loops : loop[l] = "select" /\ Become(l, "returned")
      BY <1>7 DEF Finish
    <2>3. status = "stopped" /\ Wanted /\ ~Wanted'
      BY <1>1, <1>3, <2>1 DEF SerialInv, Wanted, Calling
    <2>4. Live = {l}
      BY <2>2, <2>3 DEF SerialInv, Live
    <2>5. Live' = {}
      BY <2>2, <2>4, LiveAfter DEF SerialInv
    <2>6. TypeOK'
      BY <1>1, <2>1, <2>2, <2>3 DEF TypeOK, Become
    <2>. QED
      BY <1>1, <1>3, <2>1, <2>3, <2>5, <2>6 DEF SerialInv, Calling
  <1>. QED
    BY <1>4, <1>5, <1>6, <1>7 DEF CallStep

LEMMA LoopKeeps ==
  ASSUME SerialInv, NEW l \in Loops, Tick(l) \/ Update(l)
  PROVE  SerialInv'
  <1>1. UNCHANGED <<status, pc>> /\ mu' \in {mu, l, Nobody} /\ l \in Live
    BY DEF Tick, Update, Live
  <1>2. PICK state \in {"select", "ticked", "updating"} : Become(l, state)
    BY DEF Tick, Update
  <1>3. Live' = Live
    BY <1>1, <1>2, LiveAfter DEF SerialInv
  <1>4. TypeOK'
    BY <1>1, <1>2 DEF SerialInv, TypeOK, Become
  <1>5. Wanted' = Wanted
    BY <1>1 DEF Wanted, Calling
  <1>. QED
    BY <1>1, <1>3, <1>4, <1>5 DEF SerialInv, Calling

\* When calls of Start and Stop do not overlap, the status tells the truth
\* between them, for any number of callers and restarts: one goroutine asks for
\* the orders of a running controller and none for those of a stopped one.
THEOREM SerialCallersMonitorOnce ==
  ASSUME Serial
  PROVE  Spec => []StatusTellsMonitoring
  <1>1. Init => SerialInv
    <2>1. SUFFICES ASSUME Init PROVE SerialInv
      OBVIOUS
    <2>2. TypeOK /\ Live = {} /\ ~Wanted
      BY <2>1 DEF Init, TypeOK, Live, Wanted, Calling
    <2>. QED
      BY <2>1, <2>2 DEF Init, SerialInv, Calling
  <1>2. SerialInv /\ [Next]_vars => SerialInv'
    <2>1. CASE UNCHANGED vars
      BY <2>1 DEF vars, SerialInv, TypeOK, Wanted, Calling, Live
    <2>. QED
      BY <2>1, CallKeeps, CallStepKeeps, LoopKeeps DEF Next
  <1>3. SerialInv => StatusTellsMonitoring
    <2>1. SUFFICES ASSUME SerialInv, Quiet
                   PROVE  Cardinality(Live) = (IF status = "running" THEN 1 ELSE 0)
      BY DEF StatusTellsMonitoring
    <2>2. CASE status = "running"
      <3>1. PICK l \in Loops : Live = {l}
        BY <2>1, <2>2 DEF SerialInv, Wanted
      <3>. QED
        BY <2>2, <3>1, FS_Singleton
    <2>3. CASE status # "running"
      <3>1. Live = {}
        BY <2>1, <2>3 DEF SerialInv, Wanted, Quiet, Calling
      <3>. QED
        BY <2>3, <3>1, FS_EmptySet
    <2>. QED
      BY <2>2, <2>3
  <1>. QED
    BY <1>1, <1>2, <1>3, PTL DEF Spec

-----------------------------------------------------------------------------
(* What browsers are told (OrderUpdates) *)

Messages == Nat \ {0}

\* What a sequence holds.
Held(seq) == {seq[i] : i \in DOMAIN seq}

UpdateTypes ==
  /\ published \in Nat /\ data \in Seq(Messages)
  /\ delivering.at = "chart" => delivering.update \in Messages
  /\ candle \in Nat /\ (candleAt = "chart" => candle \in Messages)
  /\ candles \in Seq(Messages) /\ orders \subseteq Messages
  /\ broadcasting \subseteq Messages /\ broadcastChan \in Seq(Messages)
  /\ hub \in [state : {"idle", "received", "locked"}, msg : Nat, todo : SUBSET Clients,
              to : Clients \cup {NoClient}]
  /\ IF hub.state = "idle" THEN hub.msg = 0 ELSE hub.msg \in Messages
  /\ hub.to # NoClient => Locked
  /\ conn \in [Clients -> {"out", "connecting", "open", "gone", "closed"}]
  /\ initial \in [Clients -> {"none", "chart", "hub", "ready", "writing", "sent", "failed"}]
  /\ view \in [Clients -> SUBSET Messages] /\ overtaken \in [Clients -> SUBSET Messages]

\* No candle can bring an order to light that no browser was told of later.
OrdersAreEarly == candles = <<>> => orders \subseteq early

\* A message that is being written before the initial data overtakes it.
WrittenIsNoted ==
  \A c \in Clients : hub.to = c /\ Informed(c) /\ initial[c] # "sent" => hub.msg \in overtaken[c]

UpdatesInv == UpdateTypes /\ OrdersAreEarly /\ WrittenIsNoted /\ ClientMissesNothing

LEMMA AppendHolds ==
  ASSUME NEW S, NEW seq \in Seq(S), NEW x \in S
  PROVE  Append(seq, x) \in Seq(S) /\ Held(Append(seq, x)) = Held(seq) \cup {x}
<1>1. /\ Append(seq, x) \in Seq(S) /\ Len(Append(seq, x)) = Len(seq) + 1
      /\ \A i \in 1 .. Len(seq) : Append(seq, x)[i] = seq[i]
      /\ Append(seq, x)[Len(seq) + 1] = x
  BY AppendProperties
<1>2. /\ Len(seq) \in Nat /\ DOMAIN seq = 1 .. Len(seq)
      /\ DOMAIN Append(seq, x) = 1 .. Len(seq) + 1
  BY <1>1, LenProperties
<1>3. \A i : i \in 1 .. Len(seq) + 1 <=> (i \in 1 .. Len(seq) \/ i = Len(seq) + 1)
  BY <1>2
<1>4. \A y : (y \in Held(Append(seq, x))) <=> (y \in Held(seq) \cup {x})
  BY <1>1, <1>2, <1>3 DEF Held
<1>. QED  BY <1>1, <1>4

LEMMA TailHolds ==
  ASSUME NEW S, NEW seq \in Seq(S), seq # << >>
  PROVE  /\ Head(seq) \in S /\ Tail(seq) \in Seq(S)
         /\ Held(seq) = Held(Tail(seq)) \cup {Head(seq)}
<1>1. /\ Head(seq) \in S /\ Tail(seq) \in Seq(S) /\ Len(Tail(seq)) = Len(seq) - 1
      /\ \A i \in 1 .. Len(Tail(seq)) : Tail(seq)[i] = seq[i + 1]
  BY HeadTailProperties
<1>2. /\ Len(seq) \in Nat \ {0} /\ DOMAIN seq = 1 .. Len(seq)
      /\ DOMAIN Tail(seq) = 1 .. Len(seq) - 1
  <2>1. Len(seq) \in Nat /\ DOMAIN seq = 1 .. Len(seq)
    BY LenProperties
  <2>2. Len(seq) # 0
    BY EmptySeq
  <2>3. DOMAIN Tail(seq) = 1 .. Len(Tail(seq))
    BY <1>1, LenProperties
  <2>. QED  BY <1>1, <2>1, <2>2, <2>3
<1>3. Head(seq) = seq[1]
  OBVIOUS
<1>4. PICK n, t : /\ n = Len(seq) - 1 /\ t = Tail(seq) /\ DOMAIN t = 1 .. n
                  /\ DOMAIN seq = 1 .. n + 1 /\ n \in Nat /\ \A i \in 1 .. n : t[i] = seq[i + 1]
  <2>1. Len(Tail(seq)) = Len(seq) - 1 /\ Len(seq) - 1 + 1 = Len(seq) /\ Len(seq) - 1 \in Nat
    BY <1>1, <1>2
  <2>. QED  BY <1>1, <1>2, <2>1
<1>5. ASSUME NEW y \in Held(seq) PROVE y \in Held(t) \cup {seq[1]}
  <2>1. PICK i \in 1 .. n + 1 : y = seq[i]
    BY <1>4, <1>5 DEF Held
  <2>2. CASE i = 1
    BY <2>1, <2>2
  <2>3. CASE i # 1
    <3>1. i - 1 \in 1 .. n /\ (i - 1) + 1 = i
      BY <1>4, <2>3
    <3>2. t[i - 1] = y
      BY <1>4, <2>1, <3>1
    <3>. QED  BY <1>4, <3>1, <3>2 DEF Held
  <2>. QED  BY <2>2, <2>3
<1>6. ASSUME NEW y \in Held(t) \cup {seq[1]} PROVE y \in Held(seq)
  <2>1. CASE y = seq[1]
    BY <1>4, <2>1 DEF Held
  <2>2. CASE y \in Held(t)
    <3>1. PICK i \in 1 .. n : y = seq[i + 1]
      BY <1>4, <2>2 DEF Held
    <3>2. i + 1 \in 1 .. n + 1
      BY <1>4
    <3>. QED  BY <1>4, <3>1, <3>2 DEF Held
  <2>. QED  BY <1>6, <2>1, <2>2
<1>7. Held(seq) = Held(t) \cup {seq[1]}
  BY <1>5, <1>6
<1>. QED  BY <1>1, <1>3, <1>4, <1>7

\* What the chart shows is a message, and only new candles and orders change it.
LEMMA ShownAreMessages ==
  ASSUME UpdateTypes
  PROVE  Shown \subseteq Messages
<1>1. \A i \in DOMAIN candles : candles[i] \in Messages
  BY ElementOfSeq, LenProperties DEF UpdateTypes
<1>. QED  BY <1>1 DEF Shown, UpdateTypes

LEMMA ShownStays ==
  ASSUME UNCHANGED <<candles, orders>>
  PROVE  Shown' = Shown
  BY DEF Shown, Covered

\* An order shows its last update; the one that comes in is broadcast.
LEMMA OrderShown ==
  ASSUME UpdateTypes, ChartOnOrder
  PROVE  Shown' \ early' \subseteq (Shown \ early) \cup {delivering.update}
<1>1. /\ candles' = candles /\ orders' \subseteq orders \cup {delivering.update}
      /\ early \subseteq early'
  BY DEF ChartOnOrder
<1>2. \A u : Covered(u)' = Covered(u)
  BY <1>1 DEF Covered
<1>. QED  BY <1>1, <1>2 DEF Shown

\* A candle may be added to those that are there or replace the last of them,
\* and the first keeps its time, by which an order is shown or not.
LEMMA CandleShown ==
  ASSUME UpdateTypes, OrdersAreEarly, ChartOnCandle
  PROVE  /\ candles' \in Seq(Messages) /\ OrdersAreEarly'
         /\ Shown' \ early' \subseteq (Shown \ early) \cup {CandleMessage(candle)}
<1>1. PICK m \in Messages : m = CandleMessage(candle)
  BY UpdatesAssumption DEF ChartOnCandle, UpdateTypes, Messages, CandleMessage
<1>2. /\ candles' = CASE IsNext(m) -> Append(candles, m)
                      [] Corrects(m) -> [candles EXCEPT ![Len(candles)] = m]
                      [] OTHER -> candles
      /\ orders' \subseteq orders /\ early' = early
  BY <1>1 DEF ChartOnCandle
<1>3. /\ candles \in Seq(Messages) /\ Len(candles) \in Nat /\ DOMAIN candles = 1..Len(candles)
      /\ candles # <<>> => Len(candles) >= 1
  <2>1. candles \in Seq(Messages)
    BY DEF UpdateTypes
  <2>2. Len(candles) \in Nat /\ DOMAIN candles = 1..Len(candles)
    BY <2>1, LenProperties
  <2>3. candles # <<>> => Len(candles) # 0
    BY <2>1, EmptySeq
  <2>. QED  BY <2>1, <2>2, <2>3
<1>4. SUFFICES ASSUME /\ candles' \in Seq(Messages) /\ Held(candles') \subseteq Held(candles) \cup {m}
                      /\ candles # <<>> => candles' # <<>>
                      /\ candles # <<>> => Candle(candles'[1]).time = Candle(candles[1]).time
               PROVE  /\ candles' \in Seq(Messages) /\ OrdersAreEarly'
                      /\ Shown' \ early' \subseteq (Shown \ early) \cup {m}
  <2>1. CASE IsNext(m)
    <3>1. candles' = Append(candles, m)
      <4>1. IsNext(m) /\ ~Corrects(m)
        BY <2>1 DEF IsNext, Corrects
      <4>. QED  BY <1>2, <4>1
    <3>2. candles' \in Seq(Messages) /\ Held(candles') = Held(candles) \cup {m}
      BY <1>3, <3>1, AppendHolds
    <3>3. candles # <<>> => candles' # <<>> /\ candles'[1] = candles[1]
      BY <1>3, <3>1, AppendProperties, EmptySeq
    <3>. QED  BY <1>1, <1>4, <3>2, <3>3
  <2>2. CASE ~IsNext(m) /\ Corrects(m)
    <3>1. PICK n \in Nat : n = Len(candles) /\ n >= 1
      BY <1>3, <2>2 DEF Corrects
    <3>2. candles' = [candles EXCEPT ![n] = m]
      BY <1>2, <2>2, <3>1
    <3>3. candles' \in Seq(Messages) /\ Len(candles') = n /\ DOMAIN candles' = 1..n
      BY <1>3, <3>1, <3>2, ExceptSeq
    <3>4. \A i \in 1..n : candles'[i] = IF i = n THEN m ELSE candles[i]
      BY <1>3, <3>1, <3>2
    <3>5. Held(candles') \subseteq Held(candles) \cup {m}
      BY <1>3, <3>1, <3>3, <3>4 DEF Held
    <3>6. Candle(m).time = Candle(candles[n]).time
      BY <2>2, <3>1 DEF Corrects
    <3>7. Candle(candles'[1]).time = Candle(candles[1]).time
      <4>1. CASE n = 1
        BY <3>1, <3>4, <3>6, <4>1
      <4>2. CASE n # 1
        BY <3>1, <3>4, <4>2
      <4>. QED  BY <4>1, <4>2
    <3>8. candles' # <<>>
      BY <3>1, <3>3, EmptySeq
    <3>. QED  BY <1>1, <1>4, <3>3, <3>5, <3>7, <3>8
  <2>3. CASE ~IsNext(m) /\ ~Corrects(m)
    <3>1. candles' = candles
      BY <1>2, <2>3
    <3>. QED  BY <1>1, <1>3, <1>4, <3>1
  <2>. QED  BY <2>1, <2>2, <2>3
<1>5. OrdersAreEarly'
  BY <1>2, <1>4 DEF OrdersAreEarly
<1>6. ASSUME NEW x \in Shown' \ early', x # m
      PROVE  x \in Shown \ early
  <2>1. CASE x \in Held(candles')
    BY <1>2, <1>4, <1>6, <2>1 DEF Held, Shown
  <2>2. CASE x \notin Held(candles')
    <3>1. x \in orders /\ Covered(x)' /\ x \notin early
      BY <1>2, <1>6, <2>2 DEF Shown, Held
    <3>2. candles # <<>>
      BY <3>1 DEF OrdersAreEarly
    <3>3. Covered(x)
      BY <1>4, <3>1, <3>2 DEF Covered
    <3>. QED  BY <3>1, <3>3 DEF Shown
  <2>. QED  BY <2>1, <2>2
<1>. QED  BY <1>4, <1>5, <1>6

\* Neither clients nor what they know change, and what was on its way still is;
\* what is new in the chart is.
LEMMA StillOnItsWay ==
  ASSUME UpdatesInv, UNCHANGED <<conn, initial, view, overtaken>>,
         \A c \in Clients, m \in Messages : OnItsWay(c, m) /\ conn[c] = "open" => OnItsWay(c, m)',
         \A m \in Shown' \ early' : m \in Shown \ early \/ \A c \in Clients : OnItsWay(c, m)'
  PROVE  ClientMissesNothing'
<1>1. SUFFICES ASSUME NEW c \in Clients, Informed(c)', NEW m \in Shown' \ early',
                      m \notin view'[c], m \notin overtaken'[c]
               PROVE  OnItsWay(c, m)'
  BY DEF ClientMissesNothing
<1>2. CASE m \in Shown \ early
  <2>1. Informed(c) /\ conn[c] = "open"
    BY <1>1 DEF Informed
  <2>2. OnItsWay(c, m)
    BY <1>1, <1>2, <2>1 DEF UpdatesInv, ClientMissesNothing
  <2>3. m \in Messages
    BY <1>2, ShownAreMessages DEF UpdatesInv
  <2>. QED  BY <2>1, <2>2, <2>3
<1>. QED  BY <1>1, <1>2

LEMMA UpdateTypesStep ==
  ASSUME UpdatesInv, UpdatesNext
  PROVE  UpdateTypes' /\ OrdersAreEarly'
<1>0. UpdateTypes /\ OrdersAreEarly
  BY DEF UpdatesInv
<1>k. ASSUME UNCHANGED <<candles, orders, early>>
      PROVE  OrdersAreEarly'
  BY <1>0, <1>k DEF OrdersAreEarly
<1>1. CASE Publish
  <2>1. published' \in Messages /\ published' \in Nat
    BY <1>0, <1>1 DEF Publish, UpdateTypes, Messages
  <2>2. data' \in Seq(Messages)
    BY <1>0, <1>1, <2>1, AppendHolds DEF Publish, UpdateTypes
  <2>. QED
    BY <1>0, <1>k, <1>1, <2>1, <2>2 DEF Publish, UpdateTypes, Locked, candleVars, chartVars, keptVars,
                                 castVars, clientVars, writeVars
<1>2. CASE TakeOrder
  <2>1. Head(data) \in Messages /\ Tail(data) \in Seq(Messages)
    BY <1>0, <1>2, TailHolds DEF TakeOrder, UpdateTypes
  <2>. QED
    BY <1>0, <1>k, <1>2, <2>1 DEF TakeOrder, UpdateTypes, Locked, candleVars, chartVars, keptVars,
                           castVars, clientVars, writeVars
<1>3. CASE NotifierOnOrder
  BY <1>0, <1>k, <1>3 DEF NotifierOnOrder, UpdateTypes, Locked, candleVars, chartVars, keptVars,
                   castVars, clientVars, writeVars
<1>4. CASE ChartOnOrder
  <2>1. delivering' = [delivering EXCEPT !.at = "notifier"] /\ delivering'.at # "chart"
    BY <1>4 DEF ChartOnOrder
  <2>2. /\ orders' \subseteq orders \cup {delivering.update} /\ delivering.update \in Messages
        /\ broadcasting' = broadcasting \cup {delivering.update}
        /\ candles = <<>> => delivering.update \in early'
        /\ early \subseteq early'
        /\ UNCHANGED <<published, data, candleVars, candles, broadcastChan, hub, clientVars>>
    BY <1>0, <1>4 DEF ChartOnOrder, Broadcast, UpdateTypes
  <2>3. OrdersAreEarly'
    BY <1>0, <2>2 DEF OrdersAreEarly
  <2>. QED
    BY <1>0, <2>1, <2>2, <2>3 DEF UpdateTypes, Locked, candleVars, clientVars, writeVars
<1>5. CASE ExchangeSends
  BY <1>0, <1>k, <1>5 DEF ExchangeSends, UpdateTypes, Locked, Messages, feedVars, chartVars, keptVars,
                   castVars, clientVars, writeVars
<1>6. CASE ChartOnCandle
  <2>1. CandleMessage(candle) \in Messages
    BY <1>0, <1>6, UpdatesAssumption DEF ChartOnCandle, UpdateTypes, Messages, CandleMessage
  <2>2. /\ orders' \subseteq orders /\ broadcasting' = broadcasting \cup {CandleMessage(candle)}
        /\ candle' = candle /\ candleAt' = "bot"
        /\ UNCHANGED <<feedVars, broadcastChan, hub, clientVars>>
    BY <1>6 DEF ChartOnCandle, Broadcast
  <2>3. candles' \in Seq(Messages) /\ OrdersAreEarly'
    BY <1>0, <1>6, CandleShown
  <2>. QED
    BY <1>0, <2>1, <2>2, <2>3 DEF UpdateTypes, Locked, feedVars, clientVars, writeVars
<1>7. CASE BotOnCandle
  BY <1>0, <1>k, <1>7 DEF BotOnCandle, UpdateTypes, Locked, feedVars, chartVars, keptVars, castVars,
                   clientVars, writeVars
<1>8. CASE HubReceives
  <2>1. Head(broadcastChan) \in Messages /\ Tail(broadcastChan) \in Seq(Messages)
    BY <1>0, <1>8, TailHolds DEF HubReceives, UpdateTypes
  <2>2. PICK m \in Messages :
          hub' = [state |-> "received", msg |-> m, todo |-> {}, to |-> NoClient]
    BY <1>8, <2>1 DEF HubReceives, Idle
  <2>3. /\ hub' \in [state : {"idle", "received", "locked"}, msg : Nat, todo : SUBSET Clients,
                     to : Clients \cup {NoClient}]
        /\ hub'.state # "idle" /\ hub'.msg \in Messages /\ hub'.to = NoClient
    BY <2>2 DEF Messages
  <2>4. /\ broadcastChan' \in Seq(Messages)
        /\ UNCHANGED <<feedVars, candleVars, chartVars, broadcasting, clientVars>>
    BY <1>8, <2>1 DEF HubReceives
  <2>. QED
    BY <1>0, <1>k, <2>3, <2>4 DEF UpdateTypes, feedVars, candleVars, chartVars, keptVars, clientVars,
                                  writeVars
<1>9. CASE HubLocks
  <2>1. /\ hub' = [state |-> "locked", msg |-> hub.msg, todo |-> Registered, to |-> hub.to]
        /\ hub.state # "idle" /\ Registered \subseteq Clients
    BY <1>0, <1>9 DEF HubLocks, UpdateTypes, Registered
  <2>2. UNCHANGED <<feedVars, candleVars, chartVars, broadcasting, broadcastChan, clientVars>>
    BY <1>9 DEF HubLocks
  <2>3. /\ hub' \in [state : {"idle", "received", "locked"}, msg : Nat, todo : SUBSET Clients,
                     to : Clients \cup {NoClient}]
        /\ hub'.state = "locked" /\ hub'.msg \in Messages
    BY <1>0, <2>1 DEF UpdateTypes
  <2>. QED
    BY <1>0, <1>k, <2>2, <2>3 DEF UpdateTypes, Locked, feedVars, candleVars, chartVars, keptVars,
                                  clientVars, writeVars
<1>10. CASE HubUnlocks
  BY <1>0, <1>k, <1>10 DEF HubUnlocks, Idle, UpdateTypes, feedVars, candleVars, chartVars, keptVars,
                           clientVars, writeVars
<1>11. ASSUME NEW m \in broadcasting, SendBroadcast(m) PROVE UpdateTypes' /\ OrdersAreEarly'
  <2>1. broadcastChan' \in Seq(Messages)
    BY <1>0, <1>11, AppendHolds DEF UpdateTypes, SendBroadcast
  <2>. QED
    BY <1>0, <1>k, <1>11, <2>1 DEF SendBroadcast, UpdateTypes, Locked, feedVars, candleVars, chartVars,
                                   keptVars, clientVars, writeVars
\* The steps of clients leave the chart, the candles and the feed alone.
<1>12. ASSUME UNCHANGED <<feedVars, candleVars, keptVars, castVars>>,
              conn' \in [Clients -> {"out", "connecting", "open", "gone", "closed"}],
              initial' \in [Clients -> {"none", "chart", "hub", "ready", "writing", "sent", "failed"}],
              view' \in [Clients -> SUBSET Messages], overtaken' \in [Clients -> SUBSET Messages]
       PROVE  UpdateTypes' /\ OrdersAreEarly'
  BY <1>0, <1>k, <1>12 DEF UpdateTypes, Locked, feedVars, candleVars, keptVars, castVars
<1>13. ASSUME NEW c \in Clients, \/ Register(c) \/ Unregister(c) \/ InitialDataLocks(c)
                                 \/ InitialWriteBegins(c) \/ Connect(c)
       PROVE  UpdateTypes' /\ OrdersAreEarly'
  BY <1>0, <1>12, <1>13 DEF Register, Unregister, InitialDataLocks, InitialWriteBegins, Connect, UpdateTypes,
                            chartVars, writeVars
<1>14. ASSUME NEW c \in Clients, InitialDataReads(c) PROVE UpdateTypes' /\ OrdersAreEarly'
  <2>1. Shown \in SUBSET Messages
    BY <1>0, ShownAreMessages
  <2>. QED
    BY <1>0, <1>12, <1>14, <2>1 DEF InitialDataReads, UpdateTypes
<1>15. ASSUME NEW c \in Clients, Leave(c) \/ InitialWriteEnds(c) PROVE UpdateTypes' /\ OrdersAreEarly'
  BY <1>0, <1>12, <1>15 DEF Leave, InitialWriteEnds, Forget, UpdateTypes, chartVars
<1>16. ASSUME NEW c \in Clients, HubWriteBegins(c) PROVE UpdateTypes' /\ OrdersAreEarly'
  <2>1. /\ hub' = [state |-> "locked", msg |-> hub.msg, todo |-> hub.todo \ {c}, to |-> c]
        /\ hub.msg \in Messages /\ hub.msg \in Nat /\ hub.todo \in SUBSET Clients
    BY <1>0, <1>16 DEF HubWriteBegins, Locked, UpdateTypes
  <2>2. overtaken' \in [Clients -> SUBSET Messages]
    BY <1>0, <1>16, <2>1 DEF HubWriteBegins, UpdateTypes
  <2>. QED
    BY <1>0, <1>k, <1>16, <2>1, <2>2 DEF HubWriteBegins, UpdateTypes, Locked, feedVars, candleVars,
                                         chartVars, keptVars
<1>17. ASSUME NEW c \in Clients, HubWriteEnds(c) PROVE UpdateTypes' /\ OrdersAreEarly'
  <2>1. /\ hub' = [state |-> "locked", msg |-> hub.msg, todo |-> hub.todo, to |-> NoClient]
        /\ hub.msg \in Messages /\ hub.msg \in Nat /\ hub.todo \in SUBSET Clients
    BY <1>0, <1>17 DEF HubWriteEnds, Locked, UpdateTypes
  <2>2. /\ view' \in [Clients -> SUBSET Messages] /\ overtaken' \in [Clients -> SUBSET Messages]
        /\ conn' \in [Clients -> {"out", "connecting", "open", "gone", "closed"}]
    BY <1>0, <1>17, <2>1 DEF HubWriteEnds, Forget, UpdateTypes
  <2>. QED
    BY <1>0, <1>k, <1>17, <2>1, <2>2 DEF HubWriteEnds, UpdateTypes, Locked, feedVars, candleVars,
                                         chartVars, keptVars
<1>. QED
  BY <1>1, <1>2, <1>3, <1>4, <1>5, <1>6, <1>7, <1>8, <1>9, <1>10, <1>11, <1>13, <1>14,
     <1>15, <1>16, <1>17 DEF UpdatesNext, Scheduled

\* Only a write that begins can overtake, and it is noted.
LEMMA NotedStep ==
  ASSUME UpdatesInv, UpdatesNext
  PROVE  WrittenIsNoted'
<1>0. /\ WrittenIsNoted /\ (hub.to # NoClient => Locked) /\ NoClient \notin Clients
      /\ conn \in [Clients -> {"out", "connecting", "open", "gone", "closed"}]
      /\ initial \in [Clients -> {"none", "chart", "hub", "ready", "writing", "sent", "failed"}]
      /\ overtaken \in [Clients -> SUBSET Messages]
      /\ hub \in [state : {"idle", "received", "locked"}, msg : Nat, todo : SUBSET Clients,
                  to : Clients \cup {NoClient}]
  BY UpdatesAssumption DEF UpdatesInv, UpdateTypes
<1>1. ASSUME UNCHANGED <<conn, initial, overtaken>>, (hub'.to = hub.to /\ hub'.msg = hub.msg) \/ hub'.to = NoClient
      PROVE  WrittenIsNoted'
  BY <1>0, <1>1 DEF WrittenIsNoted, Informed
<1>2. CASE \/ Publish \/ TakeOrder \/ NotifierOnOrder \/ ExchangeSends \/ BotOnCandle
           \/ ChartOnOrder \/ ChartOnCandle
  BY <1>1, <1>2 DEF Publish, TakeOrder, NotifierOnOrder, ExchangeSends, BotOnCandle, ChartOnOrder,
                    ChartOnCandle, castVars, clientVars, writeVars
<1>3. CASE HubReceives \/ HubLocks \/ HubUnlocks \/ \E m \in broadcasting : SendBroadcast(m)
  <2>1. UNCHANGED <<conn, initial, overtaken>>
    BY <1>3 DEF HubReceives, HubLocks, HubUnlocks, SendBroadcast, clientVars, writeVars
  <2>2. (hub'.to = hub.to /\ hub'.msg = hub.msg) \/ hub'.to = NoClient
    <3>1. CASE HubReceives
      <4>1. hub' = [state |-> "received", msg |-> Head(broadcastChan), todo |-> {}, to |-> NoClient]
        BY <3>1 DEF HubReceives, Idle
      <4>. QED  BY <4>1
    <3>2. CASE HubLocks
      BY <1>0, <3>2 DEF HubLocks
    <3>3. CASE HubUnlocks
      BY <3>3 DEF HubUnlocks, Idle
    <3>4. CASE \E m \in broadcasting : SendBroadcast(m)
      BY <3>4 DEF SendBroadcast
    <3>. QED  BY <1>3, <3>1, <3>2, <3>3, <3>4
  <2>. QED  BY <1>1, <2>1, <2>2
<1>4. ASSUME NEW a \in Clients, HubWriteBegins(a) PROVE WrittenIsNoted'
  <2>1. /\ hub'.to = a /\ hub'.msg = hub.msg /\ UNCHANGED <<conn, initial>>
        /\ conn[a] = "open" /\ initial[a] \in {"ready", "writing"} => hub.msg \in overtaken'[a]
    BY <1>0, <1>4 DEF HubWriteBegins
  <2>. QED  BY <2>1 DEF WrittenIsNoted, Informed
<1>5. ASSUME NEW a \in Clients, HubWriteEnds(a) PROVE WrittenIsNoted'
  <2>1. hub'.to = NoClient
    BY <1>0, <1>5 DEF HubWriteEnds
  <2>. QED  BY <1>0, <2>1 DEF WrittenIsNoted
<1>6. ASSUME NEW a \in Clients, hub' = hub,
             \A c \in Clients : c # a => /\ conn'[c] = conn[c] /\ initial'[c] = initial[c]
                                         /\ overtaken'[c] = overtaken[c],
             Informed(a)' /\ initial'[a] # "sent" =>
               \/ hub.to # a
               \/ Informed(a) /\ initial[a] # "sent" /\ overtaken'[a] = overtaken[a]
      PROVE  WrittenIsNoted'
  <2>1. SUFFICES ASSUME NEW c \in Clients, hub.to = c, Informed(c)', initial'[c] # "sent"
                 PROVE  hub.msg \in overtaken'[c]
    BY <1>6 DEF WrittenIsNoted
  <2>2. CASE c = a
    BY <1>0, <1>6, <2>1, <2>2 DEF WrittenIsNoted
  <2>3. CASE c # a
    <3>1. Informed(c) /\ initial[c] # "sent" /\ overtaken'[c] = overtaken[c]
      BY <1>6, <2>1, <2>3 DEF Informed
    <3>. QED  BY <1>0, <2>1, <3>1 DEF WrittenIsNoted
  <2>. QED  BY <2>2, <2>3
<1>7. ASSUME NEW a \in Clients, Register(a) \/ Unregister(a) \/ InitialDataLocks(a) \/ Connect(a) \/ Leave(a)
      PROVE  WrittenIsNoted'
  <2>1. /\ hub' = hub /\ ~Informed(a)'
        /\ \A c \in Clients : c # a => /\ conn'[c] = conn[c] /\ initial'[c] = initial[c]
                                       /\ overtaken'[c] = overtaken[c]
    BY <1>0, <1>7 DEF Register, Unregister, InitialDataLocks, Connect, Leave, Forget, Informed, castVars,
                      writeVars
  <2>. QED  BY <1>6, <2>1
<1>8. ASSUME NEW a \in Clients, InitialDataReads(a) PROVE WrittenIsNoted'
  <2>1. /\ hub' = hub /\ hub.to # a
        /\ \A c \in Clients : c # a => /\ conn'[c] = conn[c] /\ initial'[c] = initial[c]
                                       /\ overtaken'[c] = overtaken[c]
    BY <1>0, <1>8 DEF InitialDataReads, castVars
  <2>. QED  BY <1>6, <2>1
<1>9. ASSUME NEW a \in Clients, InitialWriteBegins(a) PROVE WrittenIsNoted'
  <2>1. /\ hub' = hub /\ conn' = conn /\ overtaken' = overtaken /\ initial[a] = "ready"
        /\ \A c \in Clients : c # a => initial'[c] = initial[c]
    BY <1>0, <1>9 DEF InitialWriteBegins, castVars
  <2>2. Informed(a)' => Informed(a)
    BY <2>1 DEF Informed
  <2>. QED  BY <1>6, <2>1, <2>2
<1>10. ASSUME NEW a \in Clients, InitialWriteEnds(a) PROVE WrittenIsNoted'
  <2>1. /\ hub' = hub /\ conn' = conn /\ initial'[a] \in {"sent", "failed"}
        /\ \A c \in Clients : c # a => /\ initial'[c] = initial[c] /\ overtaken'[c] = overtaken[c]
    BY <1>0, <1>10 DEF InitialWriteEnds, Forget, castVars
  <2>2. Informed(a)' => initial'[a] = "sent"
    BY <2>1 DEF Informed
  <2>. QED  BY <1>6, <2>1, <2>2
<1>. QED
  BY <1>2, <1>3, <1>4, <1>5, <1>7, <1>8, <1>9, <1>10 DEF UpdatesNext, Scheduled

LEMMA MissesNothingStep ==
  ASSUME UpdatesInv, UpdatesNext
  PROVE  ClientMissesNothing'
<1>1. UpdateTypes /\ UpdateTypes' /\ NoClient \notin Clients
  BY UpdateTypesStep, UpdatesAssumption DEF UpdatesInv
<1>2. Underway = broadcasting \cup Held(broadcastChan)
  BY DEF Underway, Held
<1>3. Underway' = broadcasting' \cup Held(broadcastChan')
  BY DEF Underway, Held
<1>4. ASSUME UNCHANGED <<candles, orders, early, conn, initial, view, overtaken>>,
             \A c \in Clients, m \in Messages : OnItsWay(c, m) /\ conn[c] = "open" => OnItsWay(c, m)'
      PROVE  ClientMissesNothing'
  <2>1. Shown' \ early' = Shown \ early
    BY <1>4, ShownStays
  <2>. QED  BY <1>4, <2>1, StillOnItsWay
<1>5. CASE \/ Publish \/ TakeOrder \/ NotifierOnOrder \/ ExchangeSends \/ BotOnCandle
  <2>1. UNCHANGED <<candles, orders, early, conn, initial, view, overtaken, broadcasting, broadcastChan, hub>>
    BY <1>5 DEF Publish, TakeOrder, NotifierOnOrder, ExchangeSends, BotOnCandle, chartVars, keptVars,
                castVars, clientVars, writeVars
  <2>. QED  BY <1>4, <2>1 DEF OnItsWay, Underway, Locked
\* What is broadcast is on its way to everyone.
<1>6. ASSUME NEW m \in Messages, broadcasting' = broadcasting \cup {m},
             UNCHANGED <<broadcastChan, hub, conn, initial, view, overtaken>>,
             Shown' \ early' \subseteq (Shown \ early) \cup {m}
      PROVE  ClientMissesNothing'
  <2>1. \A c \in Clients : \A n : OnItsWay(c, n) => OnItsWay(c, n)'
    BY <1>2, <1>3, <1>6 DEF OnItsWay, Locked
  <2>2. \A c \in Clients : OnItsWay(c, m)'
    BY <1>3, <1>6 DEF OnItsWay
  <2>. QED  BY <1>6, <2>1, <2>2, StillOnItsWay
<1>7. CASE ChartOnOrder
  <2>1. /\ broadcasting' = broadcasting \cup {delivering.update} /\ delivering.update \in Messages
        /\ UNCHANGED <<broadcastChan, hub, conn, initial, view, overtaken>>
    BY <1>1, <1>7 DEF ChartOnOrder, Broadcast, UpdateTypes, clientVars, writeVars
  <2>. QED  BY <1>1, <1>6, <1>7, <2>1, OrderShown
<1>8. CASE ChartOnCandle
  <2>1. /\ broadcasting' = broadcasting \cup {CandleMessage(candle)} /\ CandleMessage(candle) \in Messages
        /\ UNCHANGED <<broadcastChan, hub, conn, initial, view, overtaken>>
    BY <1>1, <1>8, UpdatesAssumption DEF ChartOnCandle, Broadcast, UpdateTypes, CandleMessage, Messages,
                                         clientVars, writeVars
  <2>. QED  BY <1>1, <1>6, <1>8, <2>1, CandleShown DEF UpdatesInv
\* A message in the channel is in the loop's hands; what the loop had before is
\* done with.
<1>9. CASE HubReceives
  <2>1. /\ hub.state = "idle" /\ hub.msg = 0 /\ broadcastChan # << >>
        /\ hub'.msg = Head(broadcastChan) /\ hub'.state = "received"
        /\ broadcastChan' = Tail(broadcastChan)
        /\ UNCHANGED <<candles, orders, early, broadcasting, conn, initial, view, overtaken>>
    BY <1>1, <1>9 DEF HubReceives, Idle, UpdateTypes, chartVars, keptVars, clientVars, writeVars
  <2>2. Held(broadcastChan) = Held(broadcastChan') \cup {hub'.msg}
    BY <1>1, <2>1, TailHolds DEF UpdateTypes
  <2>3. ~Locked'
    BY <2>1 DEF Locked
  <2>4. \A c \in Clients, m \in Messages : OnItsWay(c, m) => OnItsWay(c, m)'
    BY <1>2, <1>3, <2>1, <2>2, <2>3 DEF OnItsWay, Messages
  <2>. QED  BY <1>4, <2>1, <2>4
\* Whoever is registered when the loop takes the lock is sent the message.
<1>10. CASE HubLocks
  <2>1. /\ hub'.msg = hub.msg /\ hub'.todo = Registered
        /\ UNCHANGED <<candles, orders, early, broadcasting, broadcastChan, conn, initial, view, overtaken>>
    BY <1>1, <1>10 DEF HubLocks, UpdateTypes, chartVars, keptVars, clientVars, writeVars
  <2>2. \A c \in Clients, m \in Messages : OnItsWay(c, m) /\ conn[c] = "open" => OnItsWay(c, m)'
    BY <1>2, <1>3, <2>1 DEF OnItsWay, Registered
  <2>. QED  BY <1>4, <2>1, <2>2
<1>11. CASE HubUnlocks
  <2>1. /\ Locked /\ hub.todo = {} /\ hub.to = NoClient
        /\ UNCHANGED <<candles, orders, early, broadcasting, broadcastChan, conn, initial, view, overtaken>>
    BY <1>11 DEF HubUnlocks, chartVars, keptVars, clientVars, writeVars
  <2>2. \A c \in Clients, m \in Messages : OnItsWay(c, m) => OnItsWay(c, m)'
    BY <1>1, <1>2, <1>3, <2>1 DEF OnItsWay
  <2>. QED  BY <1>4, <2>1, <2>2
<1>12. ASSUME NEW m \in broadcasting, SendBroadcast(m) PROVE ClientMissesNothing'
  <2>1. /\ broadcasting' = broadcasting \ {m} /\ broadcastChan' = Append(broadcastChan, m)
        /\ UNCHANGED <<candles, orders, early, hub, conn, initial, view, overtaken>>
    BY <1>12 DEF SendBroadcast, chartVars, keptVars, clientVars, writeVars
  <2>2. Held(broadcastChan') = Held(broadcastChan) \cup {m}
    BY <1>1, <2>1, AppendHolds DEF UpdateTypes
  <2>3. \A c \in Clients, n \in Messages : OnItsWay(c, n) => OnItsWay(c, n)'
    BY <1>2, <1>3, <2>1, <2>2 DEF OnItsWay, Locked
  <2>. QED  BY <1>4, <2>1, <2>3
\* The steps that concern one client.
<1>13. ASSUME NEW a \in Clients, UNCHANGED <<candles, orders, early>>,
              \A c \in Clients : c # a =>
                /\ conn'[c] = conn[c] /\ initial'[c] = initial[c]
                /\ view'[c] = view[c] /\ overtaken'[c] = overtaken[c]
                /\ \A m \in Messages : OnItsWay(c, m) => OnItsWay(c, m)',
              Informed(a)' => \A m \in Shown \ early :
                                m \in view'[a] \/ m \in overtaken'[a] \/ OnItsWay(a, m)'
       PROVE  ClientMissesNothing'
  <2>1. Shown' \ early' = Shown \ early /\ Shown \subseteq Messages
    BY <1>1, <1>13, ShownStays, ShownAreMessages
  <2>2. ASSUME NEW c \in Clients, Informed(c)', NEW m \in Shown \ early
        PROVE  m \in view'[c] \/ m \in overtaken'[c] \/ OnItsWay(c, m)'
    <3>1. CASE c = a
      BY <1>13, <2>2, <3>1
    <3>2. CASE c # a
      <4>1. Informed(c)
        BY <1>13, <2>2, <3>2 DEF Informed
      <4>2. m \in view[c] \/ m \in overtaken[c] \/ OnItsWay(c, m)
        BY <2>2, <4>1 DEF UpdatesInv, ClientMissesNothing
      <4>. QED  BY <1>13, <2>1, <2>2, <3>2, <4>2
    <3>. QED  BY <3>1, <3>2
  <2>. QED  BY <2>1, <2>2 DEF ClientMissesNothing
\* What is being written to a client is on its way to it, and then shown by it
\* unless it overtook the initial data or the write failed.
<1>14. ASSUME NEW a \in Clients, HubWriteBegins(a) PROVE ClientMissesNothing'
  <2>1. /\ Locked /\ Locked' /\ hub.to = NoClient /\ hub'.to = a
        /\ hub'.msg = hub.msg /\ hub'.todo = hub.todo \ {a}
        /\ overtaken[a] \subseteq overtaken'[a]
        /\ \A c \in Clients : c # a => overtaken'[c] = overtaken[c]
        /\ UNCHANGED <<candles, orders, early, broadcasting, broadcastChan, conn, initial, view>>
    BY <1>1, <1>14 DEF HubWriteBegins, Locked, UpdateTypes, chartVars, keptVars
  <2>2. \A c \in Clients, m \in Messages : OnItsWay(c, m) => OnItsWay(c, m)'
    BY <1>1, <1>2, <1>3, <2>1 DEF OnItsWay
  <2>3. Informed(a)' => Informed(a)
    BY <2>1 DEF Informed
  <2>4. Shown \subseteq Messages
    BY <1>1, ShownAreMessages
  <2>5. Informed(a)' => \A m \in Shown \ early : m \in view'[a] \/ m \in overtaken'[a] \/ OnItsWay(a, m)'
    BY <2>1, <2>2, <2>3, <2>4 DEF UpdatesInv, ClientMissesNothing
  <2>. QED  BY <1>13, <2>1, <2>2, <2>5
<1>15. ASSUME NEW a \in Clients, HubWriteEnds(a) PROVE ClientMissesNothing'
  <2>1. /\ Locked /\ Locked' /\ hub.to = a /\ hub'.to = NoClient
        /\ hub'.msg = hub.msg /\ hub'.todo = hub.todo
        /\ \A c \in Clients : c # a => conn'[c] = conn[c] /\ view'[c] = view[c] /\ overtaken'[c] = overtaken[c]
        /\ UNCHANGED <<candles, orders, early, broadcasting, broadcastChan, initial>>
    BY <1>1, <1>15 DEF HubWriteEnds, Forget, Locked, UpdateTypes, chartVars, keptVars
  <2>2. conn'[a] = "open" => /\ conn[a] = "open" /\ overtaken' = overtaken
                             /\ view'[a] = view[a] \cup (IF initial[a] = "sent" THEN {hub.msg} ELSE {})
    BY <1>1, <1>15 DEF HubWriteEnds, UpdateTypes
  <2>3. Underway' = Underway
    BY <1>2, <1>3, <2>1
  <2>4. \A c \in Clients : \A m : c # a /\ OnItsWay(c, m) => OnItsWay(c, m)'
    BY <2>1, <2>3 DEF OnItsWay
  <2>5. ASSUME Informed(a)', NEW m \in Shown \ early
        PROVE  m \in view'[a] \/ m \in overtaken'[a] \/ OnItsWay(a, m)'
    <3>1. Informed(a) /\ initial' = initial
      BY <2>1, <2>2, <2>5 DEF Informed
    <3>2. m \in view[a] \/ m \in overtaken[a] \/ OnItsWay(a, m)
      BY <2>5, <3>1 DEF UpdatesInv, ClientMissesNothing
    <3>3. view[a] \subseteq view'[a] /\ overtaken[a] \subseteq overtaken'[a]
      BY <2>2, <2>5 DEF Informed
    <3>4. CASE m \in Underway
      BY <2>3, <3>4 DEF OnItsWay
    <3>5. CASE m = hub.msg
      <4>1. CASE initial[a] = "sent"
        BY <2>2, <2>5, <3>5, <4>1 DEF Informed
      <4>2. CASE initial[a] # "sent"
        BY <2>1, <3>1, <3>3, <3>5, <4>2 DEF UpdatesInv, WrittenIsNoted
      <4>. QED  BY <4>1, <4>2
    <3>. QED  BY <3>2, <3>3, <3>4, <3>5 DEF OnItsWay
  <2>. QED  BY <1>13, <2>1, <2>4, <2>5
\* The other steps of clients: the initial data is all the chart shows, writing it
\* changes nothing in it, and one that is not registered or has left is owed nothing.
<1>16. ASSUME NEW a \in Clients, UNCHANGED <<broadcasting, broadcastChan, hub>>
       PROVE  Underway' = Underway /\ \A c, m : OnItsWay(c, m)' <=> OnItsWay(c, m)
  BY <1>2, <1>3, <1>16 DEF OnItsWay, Locked
<1>17. ASSUME NEW a \in Clients, Register(a) \/ Unregister(a) \/ InitialDataLocks(a) \/ Connect(a) \/ Leave(a)
       PROVE  ClientMissesNothing'
  <2>1. /\ ~Informed(a)' /\ UNCHANGED <<candles, orders, early, broadcasting, broadcastChan, hub>>
        /\ \A c \in Clients : c # a => /\ conn'[c] = conn[c] /\ initial'[c] = initial[c]
                                       /\ view'[c] = view[c] /\ overtaken'[c] = overtaken[c]
    BY <1>1, <1>17 DEF Register, Unregister, InitialDataLocks, Connect, Leave, Forget, Informed, UpdateTypes,
                       chartVars, keptVars, castVars, writeVars
  <2>. QED  BY <1>13, <1>16, <2>1
<1>18. ASSUME NEW a \in Clients, InitialDataReads(a) PROVE ClientMissesNothing'
  <2>1. /\ UNCHANGED <<candles, orders, early, broadcasting, broadcastChan, hub, conn>>
        /\ conn[a] = "open" => view'[a] = Shown
        /\ \A c \in Clients : c # a => /\ initial'[c] = initial[c]
                                       /\ view'[c] = view[c] /\ overtaken'[c] = overtaken[c]
    BY <1>1, <1>18 DEF InitialDataReads, UpdateTypes, keptVars, castVars
  <2>2. Informed(a)' => view'[a] = Shown
    BY <2>1 DEF Informed
  <2>. QED  BY <1>13, <1>16, <2>1, <2>2
<1>19. ASSUME NEW a \in Clients, InitialWriteBegins(a) \/ InitialWriteEnds(a) PROVE ClientMissesNothing'
  <2>1. /\ UNCHANGED <<candles, orders, early, broadcasting, broadcastChan, hub, conn>>
        /\ initial[a] \in {"ready", "writing"}
        /\ initial'[a] # "failed" => view' = view /\ overtaken' = overtaken
        /\ \A c \in Clients : c # a => /\ initial'[c] = initial[c]
                                       /\ view'[c] = view[c] /\ overtaken'[c] = overtaken[c]
    BY <1>1, <1>19 DEF InitialWriteBegins, InitialWriteEnds, Forget, UpdateTypes, chartVars, keptVars, castVars
  <2>2. Informed(a)' => Informed(a) /\ view' = view /\ overtaken' = overtaken
    BY <2>1 DEF Informed
  <2>3. Informed(a)' => \A m \in Shown \ early : m \in view'[a] \/ m \in overtaken'[a] \/ OnItsWay(a, m)'
    BY <1>16, <2>1, <2>2 DEF UpdatesInv, ClientMissesNothing
  <2>. QED  BY <1>13, <1>16, <2>1, <2>3
<1>. QED
  BY <1>5, <1>7, <1>8, <1>9, <1>10, <1>11, <1>12, <1>14, <1>15, <1>17, <1>18, <1>19
  DEF UpdatesNext, Scheduled

\* Whatever the chart would show a new browser is in the initial data of one that
\* joined before, was sent to it, overtook that data (which is written without a
\* lock) or is on its way: sendInitialData collects under the chart's lock after the
\* client is registered, and the loop writes to all that are registered when it
\* locks (plot/websocket.go). For any orders, candles, browsers and channels.
THEOREM BrowsersMissNothing == UpdatesSpec => []ClientMissesNothing
<1>1. UpdatesInit => UpdatesInv
  <2>1. SUFFICES ASSUME UpdatesInit PROVE UpdatesInv
    OBVIOUS
  <2>2. candle \in Nat /\ \A k \in 1..candle : CandleMessage(k) \in Messages
    <3>1. PICK s \in Scenarios : candle = s.preloaded
      BY <2>1 DEF UpdatesInit
    <3>2. s.candles \in 0..NumCandles /\ s.preloaded \in 0..s.candles
      BY ScenariosAssumption, <3>1, Zenon
    <3>3. NumCandles \in Nat /\ NumUpdates \in Nat
      BY UpdatesAssumption
    <3>4. candle \in Nat
      BY <3>1, <3>2, <3>3
    <3>. QED  BY <3>3, <3>4 DEF CandleMessage, Messages
  <2>3. candles \in Seq(Messages)
    <3>1. candles = [k \in 1..candle |-> CandleMessage(k)]
      BY <2>1 DEF UpdatesInit
    <3>. QED  BY <2>2, <3>1, IsASeq
  <2>4. UpdateTypes
    BY <2>1, <2>2, <2>3 DEF UpdatesInit, UpdateTypes, Idle
  <2>5. ClientMissesNothing /\ OrdersAreEarly /\ WrittenIsNoted
    BY <2>1 DEF UpdatesInit, ClientMissesNothing, OrdersAreEarly, WrittenIsNoted, Informed
  <2>. QED  BY <2>4, <2>5 DEF UpdatesInv
<1>2. UpdatesInv /\ [UpdatesNext]_updateVars => UpdatesInv'
  <2>1. SUFFICES ASSUME UpdatesInv, [UpdatesNext]_updateVars PROVE UpdatesInv'
    OBVIOUS
  <2>2. CASE UpdatesNext
    BY <2>1, <2>2, UpdateTypesStep, NotedStep, MissesNothingStep DEF UpdatesInv
  <2>3. CASE UNCHANGED updateVars
    <3>1. UNCHANGED <<published, data, delivering, candle, candleAt, candles, orders, early, broadcasting,
                      broadcastChan, hub, conn, initial, view, overtaken>>
      BY <2>3 DEF updateVars, feedVars, candleVars, chartVars, keptVars, castVars, clientVars, writeVars
    <3>2. Shown' = Shown /\ \A c, m : OnItsWay(c, m)' <=> OnItsWay(c, m)
      BY <3>1, ShownStays DEF OnItsWay, Underway, Locked
    <3>3. \A c : Informed(c)' <=> Informed(c)
      BY <3>1 DEF Informed
    <3>4. UpdateTypes' /\ OrdersAreEarly' /\ WrittenIsNoted'
      BY <2>1, <3>1, <3>3 DEF UpdatesInv, UpdateTypes, OrdersAreEarly, WrittenIsNoted, Locked
    <3>5. ClientMissesNothing'
      BY <2>1, <3>1, <3>2, <3>3 DEF UpdatesInv, ClientMissesNothing
    <3>. QED  BY <3>4, <3>5 DEF UpdatesInv
  <2>. QED  BY <2>1, <2>2, <2>3
<1>3. UpdatesInv => ClientMissesNothing
  BY DEF UpdatesInv
<1>. QED  BY <1>1, <1>2, <1>3, PTL DEF UpdatesSpec

-----------------------------------------------------------------------------
(* Searches (Optimizer): no failure is hidden and no result is missing in  *)
(* a search that reports success, for any parameters, parallelism, scores   *)
(* and cancellation                                                         *)

WorkerStates == {"none", "evaluating", "evaluated", "failed", "reported", "released",
                 "reported, released", "done", "reported, done"}
Reporting == {"reported", "reported, released", "reported, done"}
Recording == {"evaluated", "released", "done"}

IsList(s) == Len(s) \in Nat /\ DOMAIN s = 1..Len(s)

\* The goroutines that the wait group still counts.
Active == {i \in DOMAIN sets : worker[i] \notin Ended}

Types ==
  /\ IsList(sets)
  /\ dispatched \in 0..Len(sets)
  /\ main \in {"loop", "acquire", "returned"}
  /\ main = "acquire" => dispatched < Len(sets)
  /\ worker \in [DOMAIN sets -> WorkerStates]
  /\ errCh \in {0, 1}
  /\ results \in Seq([set : Nat, score : Scores])

Dispatched == \A i \in DOMAIN sets : i <= dispatched <=> worker[i] # "none"

\* The wait group counts the active goroutines and the one about to start.
Counted == wg = Cardinality(Active) + (IF main = "acquire" THEN 1 ELSE 0)

\* Until the search returns, a reported failure is in the channel.
Reported ==
  main # "returned" => \A i \in DOMAIN sets : worker[i] \in Reporting => errCh = 1

\* A goroutine that did not fail has left exactly one result.
Recorded ==
  /\ \A i \in DOMAIN sets :
       worker[i] \in Recording <=> \E k \in DOMAIN results : results[k].set = i
  /\ \A j, k \in DOMAIN results : results[j].set = results[k].set => j = k

Succeeded ==
  outcome.status = "ok" =>
    /\ main = "returned"
    /\ outcome.results = Sorted(results)
    /\ \A i \in DOMAIN sets : worker[i] = "done"

SearchInv == Types /\ Dispatched /\ Counted /\ Reported /\ Recorded /\ Succeeded

-----------------------------------------------------------------------------
(* The wait group *)

\* The goroutines of a search are finitely many.
LEMMA ActiveFinite ==
  ASSUME Types
  PROVE  IsFiniteSet(Active) /\ Cardinality(Active) \in Nat
<1>1. IsFiniteSet(1..Len(sets))
  BY FS_Interval DEF Types, IsList
<1>2. Active \subseteq 1..Len(sets)
  BY DEF Active, Types, IsList
<1>. QED  BY <1>1, <1>2, FS_Subset, FS_CardinalityType

\* A goroutine that goes from one state to another joins, leaves or stays among
\* those that are counted.
LEMMA ActiveMoves ==
  ASSUME Types, NEW i \in DOMAIN sets, NEW w,
         sets' = sets, worker' = [worker EXCEPT ![i] = w]
  PROVE  Active' = IF w \in Ended THEN Active \ {i} ELSE Active \cup {i}
BY DEF Active, Types, Ended

LEMMA ActiveStays ==
  ASSUME sets' = sets, worker' = worker
  PROVE  Active' = Active
BY DEF Active, Ended

LEMMA OneLess == \A n, m \in Nat : (n + m) - 1 = (n - 1) + m
OBVIOUS

-----------------------------------------------------------------------------
(* The invariant *)

\* The sets of a search are a list, whichever search it is.
LEMMA SetsAreList ==
  ASSUME OptInit
  PROVE  IsList(sets)
<1>1. CASE search = "grid" /\ sets = Limited(GridSets)
  <2>1. Len(GridSets) \in Nat /\ GridSets \in Seq(Seq(Int))
    BY GridAssumption
  <2> DEFINE n == IF Len(GridSets) > MaxIterations THEN MaxIterations ELSE Len(GridSets)
  <2>2. n \in Nat /\ sets = SubSeq(GridSets, 1, n)
    BY <1>1, <2>1, OptimizerAssumption DEF Limited
  <2>3. n <= Len(GridSets)
    BY <2>1, OptimizerAssumption
  <2> HIDE DEF n
  <2>. QED  BY <2>1, <2>2, <2>3, SubSeqProperties DEF IsList
<1>2. CASE search = "random" /\ sets \in {s \in RandomSets : \A i \in DOMAIN s : Valid(s[i])}
  <2>1. sets \in [1..MaxIterations -> RandomSearches] /\ MaxIterations \in Nat
    BY <1>2, OptimizerAssumption DEF RandomSets
  <2>2. sets \in Seq(RandomSearches)
    BY <2>1, SeqDef
  <2>. QED  BY <2>2, LenProperties DEF IsList
<1>. QED  BY <1>1, <1>2 DEF OptInit

LEMMA InitInv == OptInit => SearchInv
<1> SUFFICES ASSUME OptInit PROVE SearchInv
  OBVIOUS
<1>1. IsList(sets)
  BY SetsAreList
<1>2. Types
  BY <1>1 DEF OptInit, Types, IsList, WorkerStates
<1>3. Dispatched
  BY <1>1 DEF OptInit, Dispatched, IsList
<1>4. Counted
  <2>1. Active = {}
    BY DEF OptInit, Active, Ended
  <2>. QED  BY <2>1, FS_EmptySet DEF OptInit, Counted
<1>5. Reported /\ Recorded /\ Succeeded
  BY DEF OptInit, Reported, Recorded, Succeeded, Reporting, Recording, NotReturned
<1>. QED  BY <1>2, <1>3, <1>4, <1>5 DEF SearchInv

\* The select at the head of the loop, and its return.
LEMMA ReturnStep ==
  ASSUME SearchInv, SeesCancel \/ SeesError
  PROVE  SearchInv'
<1>1. /\ main = "loop" /\ main' = "returned"
      /\ outcome'.status \in {"cancelled", "error"}
      /\ errCh' \in {0, 1}
      /\ UNCHANGED <<search, sets, dispatched, worker, wg, results>>
  BY DEF SeesCancel, SeesError, Return, NotReturned, SearchInv, Types
<1>2. Types' /\ Dispatched'
  BY <1>1 DEF SearchInv, Types, Dispatched, IsList
<1>3. Counted'
  BY <1>1, ActiveStays DEF SearchInv, Counted
<1>4. Reported' /\ Recorded' /\ Succeeded'
  BY <1>1 DEF SearchInv, Reported, Recorded, Succeeded
<1>. QED  BY <1>2, <1>3, <1>4 DEF SearchInv

LEMMA ContinuesStep ==
  ASSUME SearchInv, Continues
  PROVE  SearchInv'
<1>1. /\ main = "loop" /\ main' = "acquire" /\ dispatched < Len(sets)
      /\ wg' = wg + 1
      /\ UNCHANGED <<search, sets, dispatched, worker, errCh, results, outcome>>
  BY DEF Continues
<1>2. Types' /\ Dispatched'
  BY <1>1 DEF SearchInv, Types, Dispatched, IsList
<1>3. Counted'
  BY <1>1, ActiveStays, ActiveFinite DEF SearchInv, Counted
<1>4. Reported' /\ Recorded' /\ Succeeded'
  BY <1>1 DEF SearchInv, Reported, Recorded, Succeeded
<1>. QED  BY <1>2, <1>3, <1>4 DEF SearchInv

\* The goroutine that is started takes the place the wait group held for it.
LEMMA DispatchStep ==
  ASSUME SearchInv, Dispatch
  PROVE  SearchInv'
<1> DEFINE i == dispatched + 1
<1>1. /\ main = "acquire" /\ main' = "loop" /\ dispatched' = i
      /\ worker' = [worker EXCEPT ![i] = "evaluating"]
      /\ UNCHANGED <<search, sets, wg, errCh, results, outcome>>
  BY DEF Dispatch
<1>2. i \in DOMAIN sets /\ worker[i] = "none"
  BY <1>1 DEF SearchInv, Types, Dispatched, IsList
<1> HIDE DEF i
<1>3. Types'
  <2>1. dispatched' \in 0..Len(sets)
    BY <1>1, <1>2 DEF SearchInv, Types, IsList
  <2>2. worker' \in [DOMAIN sets -> WorkerStates]
    BY <1>1, <1>2 DEF SearchInv, Types, WorkerStates
  <2>. QED  BY <1>1, <2>1, <2>2 DEF SearchInv, Types, IsList
<1>4. Dispatched'
  BY <1>1, <1>2 DEF SearchInv, Types, Dispatched, IsList, i
<1>5. Counted'
  <2>1. "evaluating" \notin Ended /\ i \notin Active
    BY <1>2 DEF Active, Ended
  <2>2. Active' = Active \cup {i}
    BY <1>1, <1>2, <2>1, ActiveMoves DEF SearchInv
  <2>3. Cardinality(Active') = Cardinality(Active) + 1
    BY <2>1, <2>2, ActiveFinite, FS_AddElement DEF SearchInv
  <2>. QED  BY <1>1, <2>3, ActiveFinite DEF SearchInv, Counted
<1>6. Reported' /\ Recorded' /\ Succeeded'
  BY <1>1, <1>2 DEF SearchInv, Types, Reported, Recorded, Succeeded, Reporting, Recording
<1>. QED  BY <1>3, <1>4, <1>5, <1>6 DEF SearchInv

\* The search waited for every goroutine: none is active, so a failure was
\* reported and is in the channel, and without one all are done.
LEMMA WaitStep ==
  ASSUME SearchInv, WaitsForAll
  PROVE  SearchInv'
<1>1. /\ main = "loop" /\ dispatched = Len(sets) /\ wg = 0
      /\ main' = "returned" /\ errCh' = 0
      /\ UNCHANGED <<search, sets, dispatched, worker, wg, results>>
  BY DEF WaitsForAll
<1>2. Active = {}
  <2>1. Cardinality(Active) = 0
    BY <1>1, ActiveFinite DEF SearchInv, Counted
  <2>. QED  BY <2>1, ActiveFinite, FS_EmptySet DEF SearchInv
<1>3. Types' /\ Dispatched'
  BY <1>1 DEF SearchInv, Types, Dispatched, IsList
<1>4. Counted'
  BY <1>1, ActiveStays DEF SearchInv, Counted
<1>5. Reported' /\ Recorded'
  BY <1>1 DEF SearchInv, Reported, Recorded
<1>6. Succeeded'
  <2>1. CASE ErrorFree
    <3>1. outcome'.results = Sorted(results)
      BY <2>1 DEF WaitsForAll
    <3>2. \A i \in DOMAIN sets : worker[i] = "done"
      <4> SUFFICES ASSUME NEW i \in DOMAIN sets PROVE worker[i] = "done"
        OBVIOUS
      <4>1. worker[i] \in Ended /\ worker[i] # "none"
        BY <1>1, <1>2 DEF SearchInv, Types, Dispatched, IsList, Active
      <4>2. worker[i] \notin Reporting
        BY <1>1, <2>1 DEF SearchInv, Reported, ErrorFree
      <4>. QED  BY <4>1, <4>2 DEF Ended, Reporting
    <3>3. Sorted(results)' = Sorted(results)
      BY <1>1
    <3>. QED  BY <1>1, <3>1, <3>2, <3>3 DEF Succeeded
  <2>2. CASE ~ErrorFree
    BY <2>2 DEF WaitsForAll, Succeeded, NotReturned
  <2>. QED  BY <2>1, <2>2
<1>. QED  BY <1>3, <1>4, <1>5, <1>6 DEF SearchInv

\* A goroutine that ends its evaluation appends its result, and only then.
LEMMA SucceedsStep ==
  ASSUME SearchInv, NEW i \in DOMAIN sets, Succeeds(i)
  PROVE  SearchInv'
<1>1. /\ worker[i] = "evaluating" /\ worker' = [worker EXCEPT ![i] = "evaluated"]
      /\ UNCHANGED <<search, sets, dispatched, main, wg, errCh, outcome>>
  BY DEF Succeeds
<1>2. PICK score \in Scores : results' = Append(results, [set |-> i, score |-> score])
  BY DEF Succeeds
<1> DEFINE found == [set |-> i, score |-> score]
<1>3. found \in [set : Nat, score : Scores] /\ found.set = i
  BY DEF SearchInv, Types, IsList
<1>4. /\ results \in Seq([set : Nat, score : Scores]) /\ results' = Append(results, found)
  BY <1>2 DEF SearchInv, Types
<1> HIDE DEF found
<1>5. /\ results' \in Seq([set : Nat, score : Scores])
      /\ Len(results) \in Nat /\ DOMAIN results = 1..Len(results)
      /\ DOMAIN results' = 1..(Len(results) + 1)
      /\ results'[Len(results) + 1] = found
      /\ \A k \in DOMAIN results : results'[k] = results[k]
  BY <1>3, <1>4, AppendProperties, LenProperties
<1>6. Types' /\ Dispatched'
  <2>1. worker' \in [DOMAIN sets -> WorkerStates]
    BY <1>1 DEF SearchInv, Types, WorkerStates
  <2>. QED  BY <1>1, <1>5, <2>1 DEF SearchInv, Types, Dispatched, IsList
<1>7. Counted'
  <2>1. i \in Active /\ "evaluated" \notin Ended
    BY <1>1 DEF Active, Ended
  <2>2. Active' = IF "evaluated" \in Ended THEN Active \ {i} ELSE Active \cup {i}
    BY <1>1, ActiveMoves DEF SearchInv
  <2>3. Active' = Active
    BY <2>1, <2>2
  <2>. QED  BY <1>1, <2>3 DEF SearchInv, Counted
<1>8. Reported' /\ Succeeded'
  BY <1>1 DEF SearchInv, Types, Reported, Succeeded, Reporting
<1>9. Recorded'
  <2>1. ~ \E k \in DOMAIN results : results[k].set = i
    BY <1>1 DEF SearchInv, Recorded, Recording
  <2>2. \A k \in DOMAIN results' :
          results'[k].set = IF k = Len(results) + 1 THEN i ELSE results[k].set
    BY <1>3, <1>5
  <2>3. \A j, k \in DOMAIN results' : results'[j].set = results'[k].set => j = k
    BY <1>5, <2>1, <2>2 DEF SearchInv, Recorded
  <2>4. ASSUME NEW n \in DOMAIN sets
        PROVE  (worker[n] \in Recording)' <=> \E k \in DOMAIN results' : results'[k].set = n
    <3>1. CASE n = i
      <4>1. Len(results) + 1 \in DOMAIN results' /\ results'[Len(results) + 1].set = i
        BY <1>3, <1>5
      <4>2. worker'[i] \in Recording
        BY <1>1 DEF SearchInv, Types, Recording
      <4>. QED  BY <3>1, <4>1, <4>2
    <3>2. CASE n # i
      <4>1. worker'[n] = worker[n]
        BY <1>1, <3>2 DEF SearchInv, Types
      <4>2. (\E k \in DOMAIN results' : results'[k].set = n)
              <=> \E k \in DOMAIN results : results[k].set = n
        <5>1. \A k \in DOMAIN results : k \in DOMAIN results' /\ k # Len(results) + 1
          BY <1>5
        <5>2. \A k \in DOMAIN results' : k = Len(results) + 1 \/ k \in DOMAIN results
          BY <1>5
        <5>. QED  BY <2>2, <3>2, <5>1, <5>2
      <4>. QED  BY <4>1, <4>2 DEF SearchInv, Recorded
    <3>. QED  BY <3>1, <3>2
  <2>. QED  BY <1>1, <2>3, <2>4 DEF Recorded
<1>. QED  BY <1>6, <1>7, <1>8, <1>9 DEF SearchInv

\* A failed evaluation stays active and leaves no result.
LEMMA FailsStep ==
  ASSUME SearchInv, NEW i \in DOMAIN sets, Fails(i)
  PROVE  SearchInv'
<1>1. /\ worker[i] = "evaluating" /\ worker' = [worker EXCEPT ![i] = "failed"]
      /\ UNCHANGED <<search, sets, dispatched, main, wg, errCh, results, outcome>>
  BY DEF Fails
<1>2. worker' \in [DOMAIN sets -> WorkerStates]
  BY <1>1 DEF SearchInv, Types, WorkerStates
<1>3. Types' /\ Dispatched'
  BY <1>1, <1>2 DEF SearchInv, Types, Dispatched, IsList
<1>4. Counted'
  <2>1. i \in Active /\ "failed" \notin Ended
    BY <1>1 DEF Active, Ended
  <2>2. Active' = IF "failed" \in Ended THEN Active \ {i} ELSE Active \cup {i}
    BY <1>1, ActiveMoves DEF SearchInv
  <2>3. Active' = Active
    BY <2>1, <2>2
  <2>. QED  BY <1>1, <2>3 DEF SearchInv, Counted
<1>5. Reported' /\ Recorded' /\ Succeeded'
  BY <1>1 DEF SearchInv, Types, Reported, Recorded, Succeeded, Reporting, Recording
<1>. QED  BY <1>3, <1>4, <1>5 DEF SearchInv

\* The failure is reported: the channel holds an error afterwards.
LEMMA SendsErrorStep ==
  ASSUME SearchInv, NEW i \in DOMAIN sets, SendsError(i)
  PROVE  SearchInv'
<1>1. /\ worker[i] = "failed" /\ worker' = [worker EXCEPT ![i] = "reported"]
      /\ errCh' = 1
      /\ UNCHANGED <<search, sets, dispatched, main, wg, results, outcome>>
  BY DEF SendsError
<1>2. worker' \in [DOMAIN sets -> WorkerStates]
  BY <1>1 DEF SearchInv, Types, WorkerStates
<1>3. Types' /\ Dispatched'
  BY <1>1, <1>2 DEF SearchInv, Types, Dispatched, IsList
<1>4. Counted'
  <2>1. i \in Active /\ "reported" \notin Ended
    BY <1>1 DEF Active, Ended
  <2>2. Active' = IF "reported" \in Ended THEN Active \ {i} ELSE Active \cup {i}
    BY <1>1, ActiveMoves DEF SearchInv
  <2>3. Active' = Active
    BY <2>1, <2>2
  <2>. QED  BY <1>1, <2>3 DEF SearchInv, Counted
<1>5. Reported' /\ Recorded' /\ Succeeded'
  BY <1>1 DEF SearchInv, Types, Reported, Recorded, Succeeded, Reporting, Recording
<1>. QED  BY <1>3, <1>4, <1>5 DEF SearchInv

LEMMA ReleasesStep ==
  ASSUME SearchInv, NEW i \in DOMAIN sets, Releases(i)
  PROVE  SearchInv'
<1>1. /\ worker[i] \in {"evaluated", "reported"}
      /\ UNCHANGED <<search, sets, dispatched, main, wg, errCh, results, outcome>>
  BY DEF Releases
<1>2. PICK w \in {"released", "reported, released"} :
        /\ worker' = [worker EXCEPT ![i] = w]
        /\ w = IF worker[i] = "reported" THEN "reported, released" ELSE "released"
  BY DEF Releases, SearchInv, Types
<1>3. worker' \in [DOMAIN sets -> WorkerStates]
  BY <1>1, <1>2 DEF SearchInv, Types, WorkerStates
<1>4. Types' /\ Dispatched'
  BY <1>1, <1>2, <1>3 DEF SearchInv, Types, Dispatched, IsList
<1>5. Counted'
  <2>1. i \in Active /\ w \notin Ended
    BY <1>1, <1>2 DEF Active, Ended
  <2>2. Active' = IF w \in Ended THEN Active \ {i} ELSE Active \cup {i}
    BY <1>1, <1>2, ActiveMoves DEF SearchInv
  <2>3. Active' = Active
    BY <2>1, <2>2
  <2>. QED  BY <1>1, <2>3 DEF SearchInv, Counted
<1>6. Reported' /\ Recorded' /\ Succeeded'
  BY <1>1, <1>2 DEF SearchInv, Types, Reported, Recorded, Succeeded, Reporting, Recording
<1>. QED  BY <1>4, <1>5, <1>6 DEF SearchInv

\* The goroutine is no longer active, and the wait group no longer counts it.
LEMMA DoneStep ==
  ASSUME SearchInv, NEW i \in DOMAIN sets, Done(i)
  PROVE  SearchInv'
<1>1. /\ worker[i] \in {"released", "reported, released"}
      /\ wg' = wg - 1
      /\ UNCHANGED <<search, sets, dispatched, main, errCh, results, outcome>>
  BY DEF Done
<1>2. PICK w \in {"done", "reported, done"} :
        /\ worker' = [worker EXCEPT ![i] = w]
        /\ w = IF worker[i] = "released" THEN "done" ELSE "reported, done"
  BY DEF Done, SearchInv, Types
<1>3. worker' \in [DOMAIN sets -> WorkerStates]
  BY <1>1, <1>2 DEF SearchInv, Types, WorkerStates
<1>4. Types' /\ Dispatched'
  BY <1>1, <1>2, <1>3 DEF SearchInv, Types, Dispatched, IsList
<1>5. Counted'
  <2>1. i \in Active /\ w \in Ended
    BY <1>1, <1>2 DEF Active, Ended
  <2>2. Active' = Active \ {i}
    BY <1>1, <1>2, <2>1, ActiveMoves DEF SearchInv
  <2>3. Cardinality(Active') = Cardinality(Active) - 1
    BY <2>1, <2>2, ActiveFinite, FS_RemoveElement DEF SearchInv
  <2> DEFINE k == IF main = "acquire" THEN 1 ELSE 0
  <2>4. Cardinality(Active) \in Nat /\ k \in Nat /\ k' = k
    BY <1>1, ActiveFinite DEF SearchInv
  <2>5. wg = Cardinality(Active) + k /\ wg' = wg - 1
    BY <1>1 DEF SearchInv, Counted
  <2> HIDE DEF k
  <2>6. wg' = Cardinality(Active') + k'
    <3>1. (Cardinality(Active) + k) - 1 = (Cardinality(Active) - 1) + k
      BY <2>4, OneLess
    <3>. QED  BY <2>3, <2>4, <2>5, <3>1, Zenon
  <2>. QED  BY <2>6 DEF Counted, k
<1>6. Reported' /\ Recorded' /\ Succeeded'
  BY <1>1, <1>2 DEF SearchInv, Types, Reported, Recorded, Succeeded, Reporting, Recording
<1>. QED  BY <1>4, <1>5, <1>6 DEF SearchInv

LEMMA IdleStep ==
  ASSUME SearchInv, Cancel \/ UNCHANGED optVars
  PROVE  SearchInv'
<1>1. UNCHANGED <<sets, dispatched, main, worker, wg, errCh, results, outcome>>
  BY DEF Cancel, optVars
<1>2. Types' /\ Dispatched' /\ Reported' /\ Recorded'
  BY <1>1 DEF SearchInv, Types, IsList, Dispatched, Reported, Recorded
<1>3. Counted'
  BY <1>1, ActiveStays DEF SearchInv, Counted
<1>4. Succeeded'
  <2>1. Sorted(results)' = Sorted(results)
    BY <1>1
  <2>. QED  BY <1>1, <2>1 DEF SearchInv, Succeeded
<1>. QED  BY <1>2, <1>3, <1>4 DEF SearchInv

LEMMA NextInv == SearchInv /\ [OptNext]_optVars => SearchInv'
<1> SUFFICES ASSUME SearchInv, [OptNext]_optVars PROVE SearchInv'
  OBVIOUS
<1>1. CASE SeesCancel \/ SeesError    BY <1>1, ReturnStep
<1>2. CASE Continues                  BY <1>2, ContinuesStep
<1>3. CASE Dispatch                   BY <1>3, DispatchStep
<1>4. CASE WaitsForAll                BY <1>4, WaitStep
<1>5. CASE Cancel \/ UNCHANGED optVars  BY <1>5, IdleStep
<1>6. ASSUME NEW i \in DOMAIN sets, Evaluates(i) \/ Releases(i) \/ Done(i)
      PROVE  SearchInv'
  BY <1>6, SucceedsStep, FailsStep, SendsErrorStep, ReleasesStep, DoneStep DEF Evaluates
<1>. QED  BY <1>1, <1>2, <1>3, <1>4, <1>5, <1>6 DEF OptNext

-----------------------------------------------------------------------------
(* The theorem *)

\* One result for each set: it exists, and no two have the same set.
LEMMA InvImplies == SearchInv => SuccessIsComplete
<1> SUFFICES ASSUME SearchInv, outcome.status = "ok"
             PROVE  /\ Failed = {}
                    /\ \A i \in DOMAIN sets :
                         Cardinality({k \in DOMAIN results : results[k].set = i}) = 1
                    /\ outcome.results = Sorted(results)
  BY DEF SuccessIsComplete
<1>1. outcome.results = Sorted(results) /\ \A i \in DOMAIN sets : worker[i] = "done"
  BY DEF SearchInv, Succeeded
<1>2. Failed = {}
  BY <1>1 DEF Failed
<1>3. ASSUME NEW i \in DOMAIN sets
      PROVE  Cardinality({k \in DOMAIN results : results[k].set = i}) = 1
  <2>1. PICK j \in DOMAIN results : results[j].set = i
    BY <1>1 DEF SearchInv, Recorded, Recording
  <2>2. {k \in DOMAIN results : results[k].set = i} = {j}
    BY <2>1 DEF SearchInv, Recorded
  <2>. QED  BY <2>2, FS_Singleton
<1>. QED  BY <1>1, <1>2, <1>3

\* A search that reports success hides no failure and misses no result
\* (runEvaluations of grid_search.go and random_search.go).
THEOREM SuccessComplete == OptSpec => []SuccessIsComplete
<1>1. OptInit => SearchInv
  BY InitInv
<1>2. SearchInv /\ [OptNext]_optVars => SearchInv'
  BY NextInv
<1>3. SearchInv => SuccessIsComplete
  BY InvImplies
<1>. QED  BY <1>1, <1>2, <1>3, PTL DEF OptSpec
=============================================================================
