--------------------------- MODULE BannerGoProofs ---------------------------
(***************************************************************************)
(* For any number of grabbers and of lines, the goroutines of              *)
(* banner.go put nothing into a closed channel and keep the safety part of *)
(* GrabPromise: every line is tried once, N at a time, and main returns    *)
(* when the last result has been printed.                                  *)
(***************************************************************************)
EXTENDS BannerGo, FiniteSetTheorems, SequenceTheorems, TLAPS

Channel == [queue : Seq(Line), closed : BOOLEAN]
Exited  == {g \in Grabber : gpc[g] = "exited"}
Held    == {l \in Line : \E g \in Grabber : addr[g] = l}

\* Lines that a grabber has taken: main has read the others in the channel.
Handed == Lines - unread - Len(addrChan.queue)

GoTypes ==
  /\ mpc \in {"scan", "wait", "last", "exited"}
  /\ unread \in 0 .. Lines /\ counted \in 0 .. N /\ doneChan \in 0 .. N
  /\ gpc \in [Grabber -> {"take", "grab", "exited"}]
  /\ addr \in [Grabber -> Line \cup {NoLine}]
  /\ opc \in {"take", "exited"}
  /\ printed \in Seq(Line) /\ addrChan \in Channel /\ resultChan \in Channel
  /\ Len(addrChan.queue) <= N /\ Len(resultChan.queue) <= N

\* What has been closed, who has left, and what main has counted of it: before
\* resultChan is closed only grabbers have written to doneChan, after it only
\* output does.
OrderFacts ==
  /\ addrChan.closed <=> mpc # "scan"
  /\ resultChan.closed <=> mpc \in {"last", "exited"}
  /\ mpc # "scan" => unread = 0
  /\ Exited # {} => Drained(addrChan)
  /\ opc = "exited" => Drained(resultChan)
  /\ ~resultChan.closed => Cardinality(Exited) = counted + doneChan
  /\ resultChan.closed => Exited = Grabber
  /\ mpc = "last" /\ doneChan > 0 => opc = "exited"

\* Where the lines are: the channel has those after the last one taken, in
\* order, and each of the others is in one place.
LineFacts ==
  /\ \A g \in Grabber : gpc[g] = "grab" <=> addr[g] # NoLine
  /\ Handed >= 0
  /\ \A i \in 1 .. Len(addrChan.queue) : addrChan.queue[i] = Handed + i
  /\ Held \cup Range(resultChan.queue) \cup Range(printed) = 1 .. Handed
  /\ Held \cap Range(resultChan.queue) = {} /\ Held \cap Range(printed) = {}
  /\ Range(resultChan.queue) \cap Range(printed) = {}
  /\ \A g, h \in Grabber : addr[g] = addr[h] /\ addr[g] # NoLine => g = h
  /\ \A i, j \in 1 .. Len(resultChan.queue) :
       resultChan.queue[i] = resultChan.queue[j] => i = j

GoInv == GoTypes /\ OrderFacts /\ LineFacts

-----------------------------------------------------------------------------
(* Queues *)

\* What is put into a queue comes last.
LEMMA PutOne ==
  ASSUME NEW s \in Seq(Line), NEW x \in Line
  PROVE  /\ Append(s, x) \in Seq(Line) /\ Len(Append(s, x)) = Len(s) + 1
         /\ Range(Append(s, x)) = Range(s) \cup {x}
         /\ \A i \in 1 .. Len(s) : Append(s, x)[i] = s[i]
         /\ Append(s, x)[Len(s) + 1] = x
<1>1. /\ Append(s, x) \in Seq(Line) /\ Len(Append(s, x)) = Len(s) + 1
      /\ \A i \in 1 .. Len(s) : Append(s, x)[i] = s[i]
      /\ Append(s, x)[Len(s) + 1] = x
      BY AppendProperties
<1>2. Len(s) \in Nat BY LenProperties
<1>3. /\ Range(s) = {s[i] : i \in 1 .. Len(s)}
      /\ Range(Append(s, x)) = {Append(s, x)[i] : i \in 1 .. Len(s) + 1}
      BY <1>1, RangeEquality
<1> QED BY <1>1, <1>2, <1>3

\* What is taken from a queue comes first.
LEMMA TakeOne ==
  ASSUME NEW s \in Seq(Line), s # <<>>
  PROVE  /\ Head(s) \in Line /\ Head(s) = s[1] /\ Len(s) \in Nat \ {0}
         /\ Tail(s) \in Seq(Line) /\ Len(Tail(s)) = Len(s) - 1
         /\ Range(s) = Range(Tail(s)) \cup {Head(s)}
         /\ \A i \in 1 .. Len(s) - 1 : Tail(s)[i] = s[i + 1]
<1>1. /\ Head(s) \in Line /\ Tail(s) \in Seq(Line) /\ Len(Tail(s)) = Len(s) - 1
      /\ \A i \in 1 .. Len(s) - 1 : Tail(s)[i] = s[i + 1]
      BY HeadTailProperties
<1>2. Len(s) \in Nat \ {0} BY EmptySeq
<1>3. Head(s) = s[1] BY <1>2
<1>4. /\ Range(s) = {s[i] : i \in 1 .. Len(s)}
      /\ Range(Tail(s)) = {Tail(s)[i] : i \in 1 .. Len(s) - 1}
      BY <1>1, RangeEquality
<1>5. Range(s) \subseteq Range(Tail(s)) \cup {Head(s)}
  <2> SUFFICES ASSUME NEW i \in 1 .. Len(s)
               PROVE  s[i] \in Range(Tail(s)) \cup {Head(s)}
      BY <1>4
  <2>1. CASE i = 1 BY <2>1, <1>3
  <2>2. CASE i # 1
    <3>1. i - 1 \in 1 .. Len(s) - 1 /\ (i - 1) + 1 = i BY <2>2, <1>2
    <3>2. Tail(s)[i - 1] = s[i] BY <3>1, <1>1
    <3> QED BY <3>1, <3>2, <1>4
  <2> QED BY <2>1, <2>2
<1>6. Range(Tail(s)) \cup {Head(s)} \subseteq Range(s)
  <2>1. Head(s) \in Range(s) BY <1>2, <1>3, <1>4
  <2>2. ASSUME NEW i \in 1 .. Len(s) - 1 PROVE Tail(s)[i] \in Range(s)
    <3>1. i + 1 \in 1 .. Len(s) BY <1>2
    <3> QED BY <3>1, <1>1, <1>4
  <2> QED BY <2>1, <2>2, <1>4
<1> QED BY <1>1, <1>2, <1>3, <1>5, <1>6

\* A channel with another queue, or another state.
LEMMA ChannelFields ==
  ASSUME NEW ch \in Channel, NEW x
  PROVE  /\ [ch EXCEPT !.queue = x] = [queue |-> x, closed |-> ch.closed]
         /\ [ch EXCEPT !.closed = x] = [queue |-> ch.queue, closed |-> x]
<1>1. [ch EXCEPT !.queue = x] = [queue |-> x, closed |-> ch.closed] BY DEF Channel
<1>2. [ch EXCEPT !.closed = x] = [queue |-> ch.queue, closed |-> x] BY DEF Channel
<1> QED BY <1>1, <1>2

\* The operations on channels, as records.
LEMMA Channels ==
  ASSUME NEW ch \in Channel
  PROVE  /\ \A x : Put(ch, x) = [queue |-> Append(ch.queue, x), closed |-> ch.closed]
         /\ Taken(ch) = [queue |-> Tail(ch.queue), closed |-> ch.closed]
         /\ Close(ch) = [queue |-> ch.queue, closed |-> TRUE]
         /\ ch.queue \in Seq(Line) /\ ch.closed \in BOOLEAN /\ Len(ch.queue) \in Nat
         /\ ch = [queue |-> ch.queue, closed |-> ch.closed]
<1>1. ch.queue \in Seq(Line) /\ ch.closed \in BOOLEAN /\ Len(ch.queue) \in Nat
      BY LenProperties DEF Channel
<1>2. ch = [queue |-> ch.queue, closed |-> ch.closed] BY DEF Channel
<1>3. ASSUME NEW x
      PROVE  Put(ch, x) = [queue |-> Append(ch.queue, x), closed |-> ch.closed]
      BY ChannelFields DEF Put
<1>4. Taken(ch) = [queue |-> Tail(ch.queue), closed |-> ch.closed]
      BY ChannelFields DEF Taken
<1>5. Close(ch) = [queue |-> ch.queue, closed |-> TRUE]
      BY ChannelFields, Zenon DEF Close
<1> QED BY <1>1, <1>2, <1>3, <1>4, <1>5

\* There are as many grabbers as places, and all of them have left when as many
\* have left.
LEMMA CountExited ==
  ASSUME GoTypes
  PROVE  /\ IsFiniteSet(Exited) /\ Cardinality(Exited) \in 0 .. N
         /\ Cardinality(Exited) = N => Exited = Grabber
<1>1. N \in Nat BY GoAssumption
<1>2. IsFiniteSet(Grabber) /\ Cardinality(Grabber) = N
      BY <1>1, FS_Interval DEF Grabber
<1>3. Exited \in SUBSET Grabber BY DEF Exited
<1>4. /\ IsFiniteSet(Exited) /\ Cardinality(Exited) <= N
      /\ Cardinality(Exited) = N => Exited = Grabber
      BY <1>2, <1>3, FS_Subset
<1>5. Cardinality(Exited) \in Nat BY <1>4, FS_CardinalityType
<1> QED BY <1>1, <1>4, <1>5

-----------------------------------------------------------------------------
(* Types *)

LEMMA TypesImply == GoTypes => GoTypeOK
<1> SUFFICES ASSUME GoTypes PROVE GoTypeOK OBVIOUS
<1>1. \A s \in Seq(Line) : Range(s) \subseteq Line BY RangeOfSeq
<1>2. Range(printed) \subseteq Line BY <1>1 DEF GoTypes
<1>3. ASSUME NEW ch \in {addrChan, resultChan}
      PROVE  Range(ch.queue) \subseteq Line /\ Len(ch.queue) <= N /\ ch.closed \in BOOLEAN
  <2>1. ch \in Channel /\ Len(ch.queue) <= N BY DEF GoTypes
  <2> QED BY <1>1, <2>1, Channels
<1> QED BY <1>2, <1>3 DEF GoTypes, GoTypeOK

\* What the actions do to the channels.
LEMMA Queues ==
  ASSUME GoTypes
  PROVE  /\ addrChan.queue \in Seq(Line) /\ resultChan.queue \in Seq(Line)
         /\ Len(addrChan.queue) \in Nat /\ Len(resultChan.queue) \in Nat
         /\ addrChan.closed \in BOOLEAN /\ resultChan.closed \in BOOLEAN
         /\ N \in Nat \ {0} /\ Lines \in Nat
BY Channels, GoAssumption DEF GoTypes

LEMMA Putting ==
  ASSUME NEW ch \in Channel, NEW x \in Line
  PROVE  /\ Put(ch, x) \in Channel /\ Put(ch, x).closed = ch.closed
         /\ Put(ch, x).queue = Append(ch.queue, x)
         /\ Len(Put(ch, x).queue) = Len(ch.queue) + 1
         /\ Put(ch, x).queue # <<>>
<1>1. Put(ch, x) = [queue |-> Append(ch.queue, x), closed |-> ch.closed]
      BY Channels
<1>2. ch.queue \in Seq(Line) /\ ch.closed \in BOOLEAN BY Channels
<1>3. Append(ch.queue, x) \in Seq(Line) /\ Append(ch.queue, x) # <<>>
      BY <1>2, AppendProperties
<1> QED BY <1>1, <1>2, <1>3, PutOne DEF Channel

LEMMA Taking ==
  ASSUME NEW ch \in Channel, ch.queue # <<>>
  PROVE  /\ Taken(ch) \in Channel /\ Taken(ch).closed = ch.closed
         /\ Taken(ch).queue = Tail(ch.queue)
         /\ Len(Taken(ch).queue) = Len(ch.queue) - 1
         /\ Head(ch.queue) \in Line
<1>1. Taken(ch) = [queue |-> Tail(ch.queue), closed |-> ch.closed] BY Channels
<1>2. ch.queue \in Seq(Line) /\ ch.closed \in BOOLEAN BY Channels
<1> QED BY <1>1, <1>2, TakeOne DEF Channel

LEMMA Closing ==
  ASSUME NEW ch \in Channel
  PROVE  Close(ch) \in Channel /\ Close(ch).closed /\ Close(ch).queue = ch.queue
<1>1. Close(ch) = [queue |-> ch.queue, closed |-> TRUE] BY Channels
<1>2. ch.queue \in Seq(Line) BY Channels
<1> QED BY <1>1, <1>2 DEF Channel

LEMMA TypeInit == Init => GoTypes
<1> SUFFICES ASSUME Init PROVE GoTypes OBVIOUS
<1>1. <<>> \in Seq(Line) /\ Len(<<>>) = 0 BY EmptySeq
<1>2. addrChan \in Channel /\ resultChan \in Channel /\ printed \in Seq(Line)
      BY <1>1 DEF Init, Channel
<1>3. Len(addrChan.queue) = 0 /\ Len(resultChan.queue) = 0 BY <1>1 DEF Init
<1> QED BY <1>2, <1>3, GoAssumption DEF Init, GoTypes

\* A grabber that grabs has a line in its hands.
LEMMA InHand ==
  ASSUME GoTypes, LineFacts, NEW g \in Grabber, gpc[g] = "grab"
  PROVE  addr[g] \in Line
BY DEF GoTypes, LineFacts

LEMMA TypeStep == GoTypes /\ LineFacts /\ [Next]_vars => GoTypes'
<1> SUFFICES ASSUME GoTypes, LineFacts, [Next]_vars PROVE GoTypes' OBVIOUS
<1> USE Queues
<1>1. ASSUME NEW g \in Grabber, Take(g) PROVE GoTypes'
      BY <1>1, Taking DEF Take, GoTypes
<1>2. ASSUME NEW g \in Grabber, Grab(g) PROVE GoTypes'
  <2>1. addr[g] \in Line BY <1>2, InHand DEF Grab
  <2>2. /\ resultChan' \in Channel
        /\ Len(resultChan'.queue) = Len(resultChan.queue) + 1
        BY <1>2, <2>1, Putting DEF Grab, GoTypes
  <2>3. Len(resultChan'.queue) <= N BY <1>2, <2>2 DEF Grab, Room
  <2> QED BY <1>2, <2>2, <2>3 DEF Grab, GoTypes
<1>3. ASSUME NEW g \in Grabber, GrabberDone(g) PROVE GoTypes'
      BY <1>3 DEF GrabberDone, GoTypes
<1>4. CASE Output
  <2>1. /\ resultChan' \in Channel /\ Head(resultChan.queue) \in Line
        /\ Len(resultChan'.queue) = Len(resultChan.queue) - 1
        BY <1>4, Taking DEF Output, GoTypes
  <2>2. printed' \in Seq(Line) BY <1>4, <2>1, PutOne DEF Output, GoTypes
  <2> QED BY <1>4, <2>1, <2>2 DEF Output, GoTypes
<1>5. CASE OutputDone BY <1>5 DEF OutputDone, GoTypes
<1>6. CASE Scan
  <2>1. unread \in 1 .. Lines /\ Lines - unread + 1 \in Line
        BY <1>6 DEF Scan, GoTypes, Line
  <2>2. /\ addrChan' \in Channel
        /\ Len(addrChan'.queue) = Len(addrChan.queue) + 1
        BY <1>6, <2>1, Putting DEF Scan, GoTypes
  <2>3. Len(addrChan'.queue) <= N BY <1>6, <2>2 DEF Scan, Room
  <2> QED BY <1>6, <2>1, <2>2, <2>3 DEF Scan, GoTypes
<1>7. CASE CloseAddr BY <1>7, Closing DEF CloseAddr, GoTypes
<1>8. CASE WaitGrabber BY <1>8 DEF WaitGrabber, Expected, GoTypes
<1>9. CASE CloseResult BY <1>9, Closing DEF CloseResult, GoTypes
<1>10. CASE Exit BY <1>10 DEF Exit, GoTypes
<1>11. CASE UNCHANGED vars BY <1>11 DEF vars, GoTypes
<1> QED BY <1>1, <1>2, <1>3, <1>4, <1>5, <1>6, <1>7, <1>8, <1>9, <1>10, <1>11
        DEF Next, Main, Step

-----------------------------------------------------------------------------
(* Closing and counting *)

\* The order of the ends rests on these variables only.
LEMMA OrderStays ==
  ASSUME OrderFacts, UNCHANGED <<mpc, unread, counted, opc, doneChan>>,
         addrChan'.closed = addrChan.closed, resultChan'.closed = resultChan.closed,
         Exited' = Exited,
         Exited # {} => Drained(addrChan)', opc = "exited" => Drained(resultChan)'
  PROVE  OrderFacts'
BY Zenon DEF OrderFacts

LEMMA OrderStep == GoInv /\ [Next]_vars => OrderFacts'
<1> SUFFICES ASSUME GoInv, [Next]_vars PROVE OrderFacts' OBVIOUS
<1> USE Queues DEF GoInv
<1>1. ASSUME NEW g \in Grabber, Take(g) PROVE OrderFacts'
  <2>1. Exited' = Exited BY <1>1 DEF Take, Exited, GoTypes
  <2>2. Exited = {} BY <1>1 DEF Take, OrderFacts, Drained
  <2>3. addrChan'.closed = addrChan.closed BY <1>1, Taking DEF Take, GoTypes
  <2> QED BY <1>1, <2>1, <2>2, <2>3, OrderStays DEF Take, OrderFacts
<1>2. ASSUME NEW g \in Grabber, Grab(g) PROVE OrderFacts'
  <2>1. Exited' = Exited BY <1>2 DEF Grab, Exited, GoTypes
  <2>2. g \notin Exited BY <1>2 DEF Grab, Exited
  <2>3. ~resultChan.closed /\ opc # "exited" BY <2>2 DEF OrderFacts, Drained
  <2>4. resultChan'.closed = resultChan.closed
        BY <1>2, InHand, Putting DEF Grab, GoTypes
  <2> QED BY <1>2, <2>1, <2>3, <2>4, OrderStays DEF Grab, OrderFacts
<1>3. ASSUME NEW g \in Grabber, GrabberDone(g) PROVE OrderFacts'
  <2>1. Exited' = Exited \cup {g} /\ g \notin Exited
        BY <1>3 DEF GrabberDone, Exited, GoTypes
  <2>2. ~resultChan.closed BY <2>1 DEF OrderFacts
  <2>3. Cardinality(Exited') = Cardinality(Exited) + 1
        BY <2>1, CountExited, FS_AddElement
  <2>4. counted + doneChan + 1 = counted' + doneChan'
        BY <1>3 DEF GrabberDone, GoTypes
  <2>5. Cardinality(Exited') = counted' + doneChan'
        BY <2>2, <2>3, <2>4 DEF OrderFacts
  <2> QED BY <1>3, <2>2, <2>5 DEF GrabberDone, OrderFacts, Drained
<1>4. CASE Output
  <2>1. Exited' = Exited BY <1>4 DEF Output, Exited
  <2>2. resultChan'.closed = resultChan.closed BY <1>4, Taking DEF Output, GoTypes
  <2> QED BY <1>4, <2>1, <2>2, OrderStays DEF Output, OrderFacts, Drained
<1>5. CASE OutputDone
  <2>1. Exited' = Exited BY <1>5 DEF OutputDone, Exited
  <2>2. resultChan.closed BY <1>5 DEF OutputDone, Drained
  <2> QED BY <1>5, <2>1, <2>2 DEF OutputDone, OrderFacts, Drained
<1>6. CASE Scan
  <2>1. Exited' = Exited BY <1>6 DEF Scan, Exited
  <2>2. addrChan'.closed = addrChan.closed
    <3>1. Lines - unread + 1 \in Line BY <1>6 DEF Scan, GoTypes, Line
    <3> QED BY <1>6, <3>1, Putting DEF Scan, GoTypes
  <2>3. Exited = {} BY <1>6 DEF Scan, OrderFacts, Drained
  <2> QED BY <1>6, <2>1, <2>2, <2>3 DEF Scan, OrderFacts, Drained
<1>7. CASE CloseAddr
  <2>1. Exited' = Exited BY <1>7 DEF CloseAddr, Exited
  <2>2. addrChan'.closed /\ addrChan'.queue = addrChan.queue
        BY <1>7, Closing DEF CloseAddr, GoTypes
  <2> QED BY <1>7, <2>1, <2>2 DEF CloseAddr, OrderFacts, Drained
<1>8. CASE WaitGrabber
  <2>1. Exited' = Exited BY <1>8 DEF WaitGrabber, Exited
  <2>2. counted + doneChan = counted' + doneChan' BY <1>8 DEF WaitGrabber, GoTypes
  <2> QED BY <1>8, <2>1, <2>2 DEF WaitGrabber, OrderFacts, Drained
<1>9. CASE CloseResult
  <2>1. Exited' = Exited BY <1>9 DEF CloseResult, Exited
  <2>2. ~resultChan.closed BY <1>9 DEF CloseResult, OrderFacts
  <2>3. Cardinality(Exited) = N + doneChan
        BY <1>9, <2>2 DEF CloseResult, Expected, OrderFacts
  <2>4. doneChan = 0 /\ Exited = Grabber
        BY <2>3, CountExited DEF GoTypes
  <2>5. resultChan'.closed /\ resultChan'.queue = resultChan.queue
        BY <1>9, Closing DEF CloseResult, GoTypes
  <2> QED BY <1>9, <2>1, <2>2, <2>4, <2>5 DEF CloseResult, OrderFacts, Drained
<1>10. CASE Exit
  <2>1. Exited' = Exited BY <1>10 DEF Exit, Exited
  <2> QED BY <1>10, <2>1 DEF Exit, OrderFacts, Drained
<1>11. CASE UNCHANGED vars
  <2>1. Exited' = Exited BY <1>11 DEF vars, Exited
  <2> QED BY <1>11, <2>1, OrderStays DEF vars, OrderFacts, Drained
<1> QED BY <1>1, <1>2, <1>3, <1>4, <1>5, <1>6, <1>7, <1>8, <1>9, <1>10, <1>11
        DEF Next, Main, Step

-----------------------------------------------------------------------------
(* The lines *)

\* An action that moves no line.
Still == /\ UNCHANGED <<unread, addr, printed, addrChan.queue, resultChan.queue>>
         /\ \A g \in Grabber : gpc'[g] = "grab" <=> gpc[g] = "grab"

LEMMA LinesStay == LineFacts /\ Still => LineFacts'
BY DEF LineFacts, Still, Handed, Held

LEMMA StillStep ==
  ASSUME GoTypes,
         \/ \E g \in Grabber : GrabberDone(g)
         \/ OutputDone \/ CloseAddr \/ WaitGrabber \/ CloseResult \/ Exit
         \/ UNCHANGED vars
  PROVE  Still
<1>1. ASSUME NEW g \in Grabber, GrabberDone(g) PROVE Still
      BY <1>1 DEF GrabberDone, Still, GoTypes
<1>2. CASE CloseAddr BY <1>2, Closing DEF CloseAddr, Still, GoTypes
<1>3. CASE CloseResult BY <1>3, Closing DEF CloseResult, Still, GoTypes
<1> QED BY <1>1, <1>2, <1>3 DEF OutputDone, WaitGrabber, Exit, vars, Still

\* The line that a grabber takes is the next one, which nobody has had.
LEMMA TakeNext ==
  ASSUME GoTypes, LineFacts, NEW g \in Grabber, Take(g)
  PROVE  /\ Head(addrChan.queue) = Handed + 1 /\ Handed + 1 \in Line
         /\ Handed' = Handed + 1
         /\ Held' = Held \cup {Handed + 1}
         /\ addr[g] = NoLine /\ addr'[g] = Handed + 1
         /\ \A h \in Grabber \ {g} : addr'[h] = addr[h]
<1> USE Queues
<1>1. addrChan.queue # <<>> BY DEF Take
<1>2. /\ Head(addrChan.queue) \in Line /\ Head(addrChan.queue) = addrChan.queue[1]
      /\ Len(addrChan.queue) \in Nat \ {0}
      BY <1>1, TakeOne
<1>3. Head(addrChan.queue) = Handed + 1 BY <1>2 DEF LineFacts
<1>4. Len(addrChan'.queue) = Len(addrChan.queue) - 1
      BY <1>1, Taking DEF Take, GoTypes
<1>5. Handed' = Handed + 1 BY <1>2, <1>4 DEF Handed, Take, GoTypes
<1>6. addr[g] = NoLine BY DEF Take, LineFacts, GoTypes
<1>7. addr'[g] = Handed + 1 /\ \A h \in Grabber \ {g} : addr'[h] = addr[h]
      BY <1>3 DEF Take, GoTypes
<1>8. Held' = Held \cup {Handed + 1}
  <2>1. ASSUME NEW l \in Line
        PROVE  (\E h \in Grabber : addr'[h] = l)
                 <=> (\E h \in Grabber : addr[h] = l) \/ l = Handed + 1
    <3>1. l # NoLine BY DEF Line, NoLine
    <3> QED BY <3>1, <1>6, <1>7
  <2> QED BY <2>1, <1>2, <1>3 DEF Held
<1> QED BY <1>2, <1>3, <1>5, <1>6, <1>7, <1>8

LEMMA TakeLines ==
  ASSUME GoTypes, LineFacts, NEW g \in Grabber, Take(g)
  PROVE  LineFacts'
<1> USE Queues, TakeNext
<1>1. UNCHANGED <<unread, printed, resultChan>> BY DEF Take
<1>2. \A h \in Grabber : gpc'[h] = "grab" <=> addr'[h] # NoLine
      BY DEF Take, LineFacts, GoTypes, Line, NoLine
<1>3. ASSUME NEW i \in 1 .. Len(addrChan'.queue)
      PROVE  addrChan'.queue[i] = Handed' + i
  <2>1. /\ Len(addrChan'.queue) = Len(addrChan.queue) - 1
        /\ addrChan'.queue = Tail(addrChan.queue) /\ addrChan.queue # <<>>
        BY Taking DEF Take, GoTypes
  <2>2. i \in 1 .. Len(addrChan.queue) - 1 /\ i + 1 \in 1 .. Len(addrChan.queue)
        BY <2>1
  <2>3. addrChan'.queue[i] = addrChan.queue[i + 1] BY <2>1, <2>2, TakeOne
  <2>4. addrChan.queue[i + 1] = Handed + (i + 1) BY <2>2 DEF LineFacts
  <2>5. Handed \in Int BY DEF Handed, GoTypes
  <2> QED BY <2>2, <2>3, <2>4, <2>5
<1>4. Handed \in Nat BY DEF Handed, GoTypes, LineFacts
<1>5. Held' \cup Range(resultChan.queue) \cup Range(printed) = 1 .. Handed'
      BY <1>4 DEF LineFacts
<1>6. Handed + 1 \notin Held \cup Range(resultChan.queue) \cup Range(printed)
      BY <1>4 DEF LineFacts
<1>7. /\ Held' \cap Range(resultChan.queue) = {} /\ Held' \cap Range(printed) = {}
      BY <1>6 DEF LineFacts
<1>8. ASSUME NEW h \in Grabber, NEW k \in Grabber, addr'[h] = addr'[k], addr'[h] # NoLine
      PROVE  h = k
  <2>1. \A j \in Grabber : addr[j] # Handed + 1 BY <1>6 DEF Held
  <2> QED BY <1>8, <2>1 DEF LineFacts
<1> QED BY <1>1, <1>2, <1>3, <1>4, <1>5, <1>7, <1>8 DEF LineFacts

\* A result goes from the hands of its grabber to the end of the queue ...
LEMMA GrabMove ==
  ASSUME GoTypes, LineFacts, NEW g \in Grabber, Grab(g)
  PROVE  /\ addr[g] \in Held /\ Held' = Held \ {addr[g]}
         /\ Range(resultChan'.queue) = Range(resultChan.queue) \cup {addr[g]}
         /\ UNCHANGED <<unread, printed, addrChan>>
<1> USE Queues
<1>1. addr[g] \in Line /\ addr[g] # NoLine
      BY InHand DEF Grab, LineFacts, GoTypes
<1>2. addr[g] \in Held BY <1>1 DEF Held
<1>3. addr'[g] = NoLine /\ \A h \in Grabber \ {g} : addr'[h] = addr[h]
      BY DEF Grab, GoTypes
<1>4. Held' = Held \ {addr[g]}
  <2>1. ASSUME NEW l \in Line
        PROVE  (\E h \in Grabber : addr'[h] = l)
                 <=> (\E h \in Grabber : addr[h] = l) /\ l # addr[g]
    <3>1. l # NoLine BY DEF Line, NoLine
    <3>2. \A h \in Grabber \ {g} : addr[h] # addr[g]
          BY <1>1 DEF LineFacts
    <3> QED BY <3>1, <3>2, <1>3
  <2> QED BY <2>1 DEF Held
<1>5. resultChan'.queue = Append(resultChan.queue, addr[g])
      BY <1>1, Putting DEF Grab, GoTypes
<1> QED BY <1>1, <1>2, <1>4, <1>5, PutOne DEF Grab

LEMMA GrabLines ==
  ASSUME GoTypes, LineFacts, NEW g \in Grabber, Grab(g)
  PROVE  LineFacts'
<1> USE Queues, GrabMove
<1>1. Handed' = Handed BY DEF Handed
<1>2. \A h \in Grabber : gpc'[h] = "grab" <=> addr'[h] # NoLine
      BY DEF Grab, LineFacts, GoTypes
<1>3. /\ Held' \cup Range(resultChan'.queue) \cup Range(printed) = 1 .. Handed
      /\ Held' \cap Range(resultChan'.queue) = {} /\ Held' \cap Range(printed) = {}
      /\ Range(resultChan'.queue) \cap Range(printed) = {}
      BY DEF LineFacts
<1>4. \A h, k \in Grabber : addr'[h] = addr'[k] /\ addr'[h] # NoLine => h = k
      BY DEF Grab, LineFacts, GoTypes
<1>5. ASSUME NEW i \in 1 .. Len(resultChan'.queue), NEW j \in 1 .. Len(resultChan'.queue),
             resultChan'.queue[i] = resultChan'.queue[j]
      PROVE  i = j
  <2>1. addr[g] \in Line BY InHand DEF Grab
  <2>2. resultChan'.queue = Append(resultChan.queue, addr[g])
        BY <2>1, Putting DEF Grab, GoTypes
  <2>3. /\ Len(resultChan'.queue) = Len(resultChan.queue) + 1
        /\ \A k \in 1 .. Len(resultChan.queue) : resultChan'.queue[k] = resultChan.queue[k]
        /\ resultChan'.queue[Len(resultChan.queue) + 1] = addr[g]
        BY <2>1, <2>2, PutOne
  <2>4. \A k \in 1 .. Len(resultChan.queue) : resultChan.queue[k] # addr[g]
    <3>1. addr[g] \notin Range(resultChan.queue) BY DEF LineFacts
    <3>2. Range(resultChan.queue) = {resultChan.queue[k] : k \in 1 .. Len(resultChan.queue)}
          BY RangeEquality
    <3> QED BY <3>1, <3>2
  <2>5. \A k, m \in 1 .. Len(resultChan.queue) :
          resultChan.queue[k] = resultChan.queue[m] => k = m
        BY DEF LineFacts
  <2> DEFINE n == Len(resultChan.queue)
  <2>6. n \in Nat /\ i \in 1 .. n + 1 /\ j \in 1 .. n + 1 BY <2>3
  <2>7. CASE i \in 1 .. n /\ j \in 1 .. n BY <1>5, <2>3, <2>5, <2>7
  <2>8. CASE i = n + 1 /\ j \in 1 .. n BY <1>5, <2>3, <2>4, <2>8
  <2>9. CASE i \in 1 .. n /\ j = n + 1 BY <1>5, <2>3, <2>4, <2>9
  <2>10. (i \in 1 .. n \/ i = n + 1) /\ (j \in 1 .. n \/ j = n + 1) BY <2>6
  <2> HIDE DEF n
  <2> QED BY <2>7, <2>8, <2>9, <2>10
<1> QED BY <1>1, <1>2, <1>3, <1>4, <1>5 DEF LineFacts

\* ... and from its beginning to what is printed.
LEMMA OutputMove ==
  ASSUME GoTypes, LineFacts, Output
  PROVE  LET l == Head(resultChan.queue)
         IN  /\ l \in Range(resultChan.queue) /\ l \in Line
             /\ Range(resultChan'.queue) = Range(resultChan.queue) \ {l}
             /\ Range(printed') = Range(printed) \cup {l}
             /\ UNCHANGED <<unread, addr, gpc, addrChan>>
<1> USE Queues
<1> DEFINE q == resultChan.queue
           l == Head(q)
<1>1. q # <<>> /\ q \in Seq(Line) BY DEF Output
<1>2. /\ l \in Line /\ l = q[1] /\ Len(q) \in Nat \ {0}
      /\ Tail(q) \in Seq(Line) /\ Len(Tail(q)) = Len(q) - 1
      /\ Range(q) = Range(Tail(q)) \cup {l}
      /\ \A i \in 1 .. Len(q) - 1 : Tail(q)[i] = q[i + 1]
      BY <1>1, TakeOne
<1>3. resultChan'.queue = Tail(q) BY <1>1, Taking DEF Output, GoTypes
<1>4. l \notin Range(Tail(q))
  <2>1. \A i \in 1 .. Len(q) - 1 : q[i + 1] # q[1]
    <3> SUFFICES ASSUME NEW i \in 1 .. Len(q) - 1, q[i + 1] = q[1] PROVE FALSE
        OBVIOUS
    <3>1. i + 1 \in 1 .. Len(q) /\ 1 \in 1 .. Len(q) BY <1>2
    <3>2. i + 1 = 1 BY <3>1 DEF LineFacts
    <3> QED BY <3>2
  <2>2. Range(Tail(q)) = {Tail(q)[i] : i \in 1 .. Len(Tail(q))}
        BY <1>2, RangeEquality, Zenon
  <2> QED BY <1>2, <2>1, <2>2
<1>5. printed' = Append(printed, l) /\ printed \in Seq(Line) BY DEF Output, GoTypes
<1>6. Range(printed') = Range(printed) \cup {l} BY <1>2, <1>5, PutOne
<1> QED BY <1>2, <1>3, <1>4, <1>6 DEF Output

LEMMA OutputLines ==
  ASSUME GoTypes, LineFacts, Output
  PROVE  LineFacts'
<1> USE Queues, OutputMove
<1> DEFINE q == resultChan.queue
<1>1. Handed' = Handed /\ Held' = Held BY DEF Handed, Held
<1>2. /\ Held \cup Range(resultChan'.queue) \cup Range(printed') = 1 .. Handed
      /\ Held \cap Range(resultChan'.queue) = {} /\ Held \cap Range(printed') = {}
      /\ Range(resultChan'.queue) \cap Range(printed') = {}
      BY DEF LineFacts
<1>3. ASSUME NEW i \in 1 .. Len(resultChan'.queue), NEW j \in 1 .. Len(resultChan'.queue),
             resultChan'.queue[i] = resultChan'.queue[j]
      PROVE  i = j
  <2>1. resultChan'.queue = Tail(q) /\ q # <<>> /\ Len(resultChan'.queue) = Len(q) - 1
        BY Taking DEF Output, GoTypes
  <2>2. i \in 1 .. Len(q) - 1 /\ j \in 1 .. Len(q) - 1 BY <2>1
  <2>3. resultChan'.queue[i] = q[i + 1] /\ resultChan'.queue[j] = q[j + 1]
        BY <2>1, <2>2, TakeOne
  <2>4. i + 1 \in 1 .. Len(q) /\ j + 1 \in 1 .. Len(q) BY <2>2
  <2>5. i + 1 = j + 1 BY <1>3, <2>3, <2>4 DEF LineFacts
  <2> QED BY <2>2, <2>5
<1> QED BY <1>1, <1>2, <1>3 DEF LineFacts

\* A line that main reads goes to the end of the channel.
LEMMA ScanLines ==
  ASSUME GoTypes, LineFacts, Scan
  PROVE  LineFacts' /\ Handed' = Handed
         /\ UNCHANGED <<addr, printed, resultChan>>
<1> USE Queues
<1> DEFINE q == addrChan.queue
           l == Lines - unread + 1
<1>1. unread \in 1 .. Lines /\ l \in Line BY DEF Scan, GoTypes, Line
<1>2. addrChan'.queue = Append(q, l) /\ Len(addrChan'.queue) = Len(q) + 1
      BY <1>1, Putting DEF Scan, GoTypes
<1>3. Handed' = Handed /\ Handed \in Int
  <2>1. Lines \in Int /\ unread \in Int /\ Len(q) \in Int /\ unread' = unread - 1
        BY <1>1, GoAssumption, LenProperties DEF Scan, GoTypes, Channel
  <2> HIDE DEF q
  <2>2. Lines - (unread - 1) - (Len(q) + 1) = Lines - unread - Len(q)
        /\ Lines - unread - Len(q) \in Int BY <2>1
  <2> QED BY <1>2, <2>1, <2>2 DEF Handed, q
<1>4. UNCHANGED <<addr, gpc, printed, resultChan>> BY DEF Scan
<1>5. Held' = Held BY <1>4 DEF Held
<1>6. ASSUME NEW i \in 1 .. Len(addrChan'.queue) PROVE addrChan'.queue[i] = Handed + i
  <2>1. CASE i \in 1 .. Len(q)
        BY <1>1, <1>2, <2>1, PutOne DEF LineFacts
  <2>2. CASE i = Len(q) + 1
    <3>1. addrChan'.queue[i] = l BY <1>1, <1>2, <2>2, PutOne
    <3>2. Handed + i = l BY <1>1, <2>2 DEF Handed
    <3> QED BY <3>1, <3>2
  <2> QED BY <1>2, <2>1, <2>2
<1> QED BY <1>3, <1>4, <1>5, <1>6 DEF LineFacts

LEMMA LineStep == GoTypes /\ LineFacts /\ [Next]_vars => LineFacts'
BY TakeLines, GrabLines, OutputLines, ScanLines, StillStep, LinesStay
   DEF Next, Main, Step

-----------------------------------------------------------------------------
(* The theorems *)

LEMMA GoInit == Init => GoInv
<1> SUFFICES ASSUME Init PROVE GoInv OBVIOUS
<1>1. GoTypes BY TypeInit
<1>2. Len(<<>>) = 0 /\ Range(<<>>) = {} /\ Len(addrChan.queue) = 0 /\ Len(resultChan.queue) = 0
  <2>1. <<>> \in Seq(Line) /\ Len(<<>>) = 0 BY EmptySeq
  <2>2. Range(<<>>) = {<<>>[i] : i \in 1 .. Len(<<>>)} BY <2>1, RangeEquality, Zenon
  <2> QED BY <2>1, <2>2 DEF Init
<1>3. Exited = {} /\ Held = {} BY DEF Init, Exited, Held, Line, NoLine
<1>4. Cardinality(Exited) = 0 BY <1>3, FS_EmptySet
<1>5. OrderFacts BY <1>3, <1>4 DEF Init, OrderFacts
<1>6. Handed = 0
  <2>1. unread = Lines BY DEF Init
  <2> QED BY <1>2, <2>1, GoAssumption DEF Handed
<1>7. LineFacts BY <1>2, <1>3, <1>6 DEF Init, LineFacts
<1> QED BY <1>1, <1>5, <1>7 DEF GoInv

LEMMA GoInvariance == Spec => []GoInv
<1>1. GoInv /\ [Next]_vars => GoInv'
      BY TypeStep, OrderStep, LineStep DEF GoInv
<1>2. QED BY GoInit, <1>1, PTL DEF Spec

\* Whatever the number of goroutines, resultChan is closed when no grabber is
\* left that could put a result into it.
THEOREM NothingAfterClose == Spec => []ClosedAfterLast
<1>1. GoInv => ClosedAfterLast
      BY TypesImply, Zenon DEF GoInv, OrderFacts, Exited, ClosedAfterLast
<1>2. QED BY GoInvariance, <1>1, PTL

-----------------------------------------------------------------------------
(* The promise *)

Waiting == Line \ (Range(addr) \cup Range(resultChan.queue) \cup Range(printed))

\* The lines that wait are those that have not been taken.
LEMMA WaitingIs == GoTypes /\ LineFacts => Waiting = Line \ (1 .. Handed)
<1> SUFFICES ASSUME GoTypes, LineFacts PROVE Waiting = Line \ (1 .. Handed)
    OBVIOUS
<1>1. Range(addr) = {addr[g] : g \in Grabber} BY DEF GoTypes, Range
<1>2. \A l \in Line : l \in Range(addr) <=> l \in Held BY <1>1 DEF Held
<1> QED BY <1>2 DEF Waiting, LineFacts

\* A grabber that takes a line has no other in its hands, so that N - 1 others
\* have at most.
LEMMA SlotFree ==
  ASSUME GoTypes, LineFacts, NEW g \in Grabber, gpc[g] = "take"
  PROVE  Cardinality(Held) < N
<1> DEFINE Busy == {h \in Grabber : addr[h] # NoLine}
           f == [h \in Busy |-> addr[h]]
<1>1. N \in Nat \ {0} BY GoAssumption
<1>2. IsFiniteSet(Grabber) /\ Cardinality(Grabber) = N
      BY <1>1, FS_Interval DEF Grabber
<1>3. g \notin Busy BY DEF LineFacts
<1>4. /\ IsFiniteSet(Grabber \ {g}) /\ Cardinality(Grabber \ {g}) = N - 1
      BY <1>2, FS_RemoveElement
<1>5. Busy \in SUBSET (Grabber \ {g}) BY <1>3
<1>6. IsFiniteSet(Busy) /\ Cardinality(Busy) <= N - 1 BY <1>4, <1>5, FS_Subset
<1>7. f \in Surjection(Busy, Held)
  <2>1. f \in [Busy -> Held] BY DEF Held, GoTypes
  <2>2. ASSUME NEW l \in Held PROVE \E h \in Busy : f[h] = l
        BY DEF Held, Line, NoLine
  <2> QED BY <2>1, <2>2 DEF Surjection
<1>8. IsFiniteSet(Held) /\ Cardinality(Held) <= Cardinality(Busy)
      BY <1>6, <1>7, FS_Surjection
<1>9. Cardinality(Held) \in Nat /\ Cardinality(Busy) \in Nat
      BY <1>6, <1>8, FS_CardinalityType
<1> QED BY <1>1, <1>6, <1>8, <1>9

LEMMA TakeKeeps ==
  ASSUME GoInv, NEW g \in Grabber, Take(g)
  PROVE  [Promise!Next]_(Promise!gvars)
<1> USE DEF GoInv
<1>1. /\ Handed + 1 \in Line /\ Handed' = Handed + 1
      /\ Held' = Held \cup {Handed + 1}
      BY TakeNext
<1>2. GoTypes' /\ LineFacts' BY TypeStep, TakeLines DEF Next, Step
<1>3. Waiting = Line \ (1 .. Handed) BY WaitingIs
<1>4. (Waiting = Line \ (1 .. Handed))' BY <1>2, WaitingIs, PTL
<1>5. Handed \in Nat BY Queues DEF Handed, GoTypes, LineFacts
<1>6. Handed + 1 \in Waiting /\ Waiting' = Waiting \ {Handed + 1}
      BY <1>1, <1>3, <1>4, <1>5 DEF Line
<1>7. Cardinality(Held) < N BY SlotFree DEF Take
<1>8. Promise!Cardinality(Held) < N
      BY <1>7, Zenon DEF Promise!Cardinality, Cardinality
<1>9. UNCHANGED <<resultChan, mpc>> BY DEF Take
<1>10. PICK l \in Line : l = Handed + 1 BY <1>1
<1>11. Promise!Try(l)
      BY <1>1, <1>6, <1>8, <1>9, <1>10 DEF Promise!Try, Waiting, Held
<1> QED BY <1>11 DEF Promise!Next

LEMMA GrabKeeps ==
  ASSUME GoInv, NEW g \in Grabber, Grab(g)
  PROVE  [Promise!Next]_(Promise!gvars)
<1> USE DEF GoInv
<1>1. /\ addr[g] \in Held /\ Held' = Held \ {addr[g]}
      /\ Range(resultChan'.queue) = Range(resultChan.queue) \cup {addr[g]}
      BY GrabMove
<1>2. GoTypes' /\ LineFacts' BY TypeStep, GrabLines DEF Next, Step
<1>3. Waiting = Line \ (1 .. Handed) BY WaitingIs
<1>4. (Waiting = Line \ (1 .. Handed))' BY <1>2, WaitingIs, PTL
<1>5. Waiting' = Waiting BY <1>3, <1>4, GrabMove DEF Handed
<1>6. UNCHANGED mpc BY DEF Grab
<1>7. PICK l \in Line : l = addr[g] BY <1>1 DEF Held
<1>8. Promise!End(l)
      BY <1>1, <1>5, <1>6, <1>7 DEF Promise!End, Waiting, Held
<1> QED BY <1>8 DEF Promise!Next

LEMMA OutputKeeps ==
  ASSUME GoInv, Output
  PROVE  [Promise!Next]_(Promise!gvars)
<1> USE DEF GoInv
<1>1. PICK l \in Line : l = Head(resultChan.queue) BY OutputMove
<1>2. /\ l \in Range(resultChan.queue)
      /\ Range(resultChan'.queue) = Range(resultChan.queue) \ {l}
      /\ Range(printed') = Range(printed) \cup {l}
      /\ UNCHANGED <<addr, mpc>>
      BY <1>1, OutputMove DEF Output
<1>3. Waiting' = Waiting BY <1>2 DEF Waiting
<1>4. Promise!Report(l) BY <1>2, <1>3 DEF Promise!Report, Waiting
<1> QED BY <1>4 DEF Promise!Next

\* main returns when every line has been printed.
LEMMA ExitKeeps ==
  ASSUME GoInv, Exit
  PROVE  [Promise!Next]_(Promise!gvars)
<1> USE Queues DEF GoInv
<1>1. mpc = "last" /\ opc = "exited" /\ Exited = Grabber
      BY DEF Exit, OrderFacts, GoTypes
<1>2. 1 \in Grabber BY DEF Grabber
<1>3. Drained(addrChan) /\ Drained(resultChan) /\ unread = 0
      BY <1>1, <1>2 DEF OrderFacts
<1>4. Len(addrChan.queue) = 0 BY <1>3, EmptySeq DEF Drained
<1>5. Handed = Lines BY <1>3, <1>4 DEF Handed
<1>6. Waiting = {} BY <1>5, WaitingIs DEF Line
<1>7. Held = {}
  <2>1. \A g \in Grabber : gpc[g] = "exited" BY <1>1 DEF Exited
  <2>2. \A g \in Grabber : addr[g] = NoLine BY <2>1 DEF LineFacts
  <2> QED BY <2>2 DEF Held, Line, NoLine
<1>8. Range(resultChan.queue) = {}
  <2>1. Range(<<>>) = {<<>>[i] : i \in 1 .. Len(<<>>)} BY EmptySeq, RangeEquality, Zenon
  <2> QED BY <2>1, <1>3, EmptySeq DEF Drained
<1>9. UNCHANGED <<addr, resultChan, printed>> /\ mpc' = "exited" BY DEF Exit
<1>10. Promise!Stop
      BY <1>1, <1>6, <1>7, <1>8, <1>9 DEF Promise!Stop, Waiting, Held
<1> QED BY <1>10 DEF Promise!Next

\* Every other action moves a line inside main and its channel, or none.
LEMMA OtherKeeps ==
  ASSUME GoInv,
         \/ \E g \in Grabber : GrabberDone(g)
         \/ OutputDone \/ Scan \/ CloseAddr \/ WaitGrabber \/ CloseResult
         \/ UNCHANGED vars
  PROVE  [Promise!Next]_(Promise!gvars)
<1> USE DEF GoInv
<1>1. UNCHANGED <<addr, printed, resultChan.queue>>
  <2>1. CASE Scan BY <2>1, ScanLines
  <2>2. CASE ~Scan BY <2>2, StillStep DEF Still
  <2> QED BY <2>1, <2>2
<1>2. (mpc' = "exited") <=> (mpc = "exited")
      BY DEF GrabberDone, OutputDone, Scan, CloseAddr, WaitGrabber, CloseResult, vars
<1> QED BY <1>1, <1>2 DEF Promise!gvars

LEMMA PromiseInit == Init => Promise!Init
<1> SUFFICES ASSUME Init PROVE Promise!Init OBVIOUS
<1>1. GoInv BY GoInit
<1>2. Range(<<>>) = {}
  <2>1. Range(<<>>) = {<<>>[i] : i \in 1 .. Len(<<>>)} BY EmptySeq, RangeEquality, Zenon
  <2> QED BY <2>1, EmptySeq
<1>3. Range(resultChan.queue) = {} /\ Range(printed) = {} BY <1>2 DEF Init
<1>4. Held = {} BY DEF Init, Held, Line, NoLine
<1>5. Waiting = Line
  <2>1. Range(addr) = {addr[g] : g \in Grabber} BY DEF Init, Range
  <2>2. Range(addr) \cap Line = {} BY <2>1 DEF Init, Line, NoLine
  <2> QED BY <1>3, <2>2 DEF Waiting
<1>6. mpc # "exited" BY DEF Init
<1> QED BY <1>3, <1>4, <1>5, <1>6 DEF Promise!Init, Waiting, Held

\* For any number of goroutines and lines, the program tries every line once,
\* N of them at a time, and does not return before each outcome is printed.
THEOREM GoPromiseSafe == Spec => Promise!SafeSpec
<1>1. GoInv /\ [Next]_vars => [Promise!Next]_(Promise!gvars)
      BY TakeKeeps, GrabKeeps, OutputKeeps, ExitKeeps, OtherKeeps
      DEF Next, Main, Step
<1>2. QED BY GoInvariance, PromiseInit, <1>1, PTL DEF Spec, Promise!SafeSpec
=============================================================================
