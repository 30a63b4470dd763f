-------------------------- MODULE BannerGrabProofs --------------------------
(***************************************************************************)
(* For any number of lines and of slots, the event loop of the banner      *)
(* grabbers counts its slots and statistics right, leaves no line beside a *)
(* free slot, and keeps the safety part of GrabPromise: it does not end    *)
(* before every line has been tried and every connection has ended.        *)
(***************************************************************************)
EXTENDS BannerGrab, FiniteSetTheorems, TLAPS

Field == {"init_connected", "connected", "conn_timed_out",
          "read_timed_out", "timed_out", "completed"}

\* Lines that have been read.
Tried == Lines - unread - buffer

\* Connections that have a slot, that were refused, that have ever stood.
StoodStates == {"connected", "banner", "read_timeout"}
RefusedStates == {"refused"}
Slots   == Cardinality(With(Open))
Refused == Cardinality(With(RefusedStates))
Stood   == Cardinality(With(StoodStates))

One(b) == IF b THEN 1 ELSE 0

\* Types without the bounds that counting gives.
GrabTypes ==
  /\ program \in Programs
  /\ unread \in Nat /\ buffer \in Nat /\ frames \in Nat
  /\ due \subseteq {"read", "event"} /\ eof \in BOOLEAN
  /\ reading \in BOOLEAN /\ stdin_closed \in BOOLEAN /\ exited \in BOOLEAN
  /\ current_running \in Nat
  /\ host \in [Line -> {"unread"} \cup Open \cup Outcome]
  /\ stats \in [Field -> Nat]

\* Lines are read in order; each adds a frame at most, and one to each number.
LineFacts ==
  /\ Tried >= 0
  /\ \A l \in Line : host[l] = "unread" <=> l > Tried
  /\ frames <= Tried
  /\ stats.init_connected <= Tried
  /\ stats.connected = Stood
  /\ current_running <= Max

\* stdin is only closed when its pipe is empty.
EndFacts ==
  /\ eof => unread = 0
  /\ "event" \in due \/ stdin_closed => eof

LoopInv == GrabTypes /\ SlotsExact /\ LineFacts /\ NoIdleSlot /\ EndFacts

-----------------------------------------------------------------------------
(* The connections by their states *)

LEMMA LinesFinite == IsFiniteSet(Line) /\ Cardinality(Line) = Lines
BY FS_Interval, GrabAssumption DEF Line

\* Every set of lines is finite, and there are at most as many as lines.
LEMMA WithFinite ==
  ASSUME NEW S
  PROVE  IsFiniteSet(With(S)) /\ Cardinality(With(S)) \in 0 .. Lines
<1>1. With(S) \in SUBSET Line BY DEF With
<1>2. IsFiniteSet(With(S)) /\ Cardinality(With(S)) <= Lines
      BY <1>1, LinesFinite, FS_Subset
<1> QED BY <1>2, FS_CardinalityType, GrabAssumption

\* A line that changes its state leaves one set and joins another.
LEMMA Moves ==
  ASSUME NEW f, NEW g, NEW S, NEW l \in Line, NEW h,
         f \in [Line -> {"unread"} \cup Open \cup Outcome], g = [f EXCEPT ![l] = h]
  PROVE  Cardinality({k \in Line : g[k] \in S})
           = Cardinality({k \in Line : f[k] \in S}) + One(h \in S) - One(f[l] \in S)
<1> DEFINE F == {k \in Line : f[k] \in S}
           G == {k \in Line : g[k] \in S}
<1>1. g[l] = h /\ \A k \in Line \ {l} : g[k] = f[k] OBVIOUS
<1>2. G = IF h \in S THEN F \cup {l} ELSE F \ {l} BY <1>1
<1>3. l \in F <=> f[l] \in S OBVIOUS
<1>4. IsFiniteSet(F) /\ Cardinality(F) \in Nat
  <2>1. F \in SUBSET Line OBVIOUS
  <2> QED BY <2>1, LinesFinite, FS_Subset, FS_CardinalityType
<1>5. /\ Cardinality(F \cup {l}) = IF l \in F THEN Cardinality(F) ELSE Cardinality(F) + 1
      /\ Cardinality(F \ {l}) = IF l \in F THEN Cardinality(F) - 1 ELSE Cardinality(F)
      BY <1>4, FS_AddElement, FS_RemoveElement
<1> HIDE DEF F, G
<1>6. Cardinality(G) = Cardinality(F) + One(h \in S) - One(f[l] \in S)
      BY <1>2, <1>3, <1>4, <1>5 DEF One
<1> QED BY <1>6 DEF F, G

\* What the three numbers that count connections become.
LEMMA CountMoves ==
  ASSUME GrabTypes, NEW l \in Line, NEW h, host' = [host EXCEPT ![l] = h]
  PROVE  /\ Slots' = Slots + One(h \in Open) - One(host[l] \in Open)
         /\ Refused' = Refused + One(h = "refused") - One(host[l] = "refused")
         /\ Stood' = Stood + One(h \in StoodStates) - One(host[l] \in StoodStates)
         /\ Slots \in Nat /\ Refused \in Nat /\ Stood \in Nat
<1>1. Slots' = Slots + One(h \in Open) - One(host[l] \in Open)
      BY Moves DEF Slots, With, GrabTypes
<1>2. Refused' = Refused + One(h \in RefusedStates) - One(host[l] \in RefusedStates)
      BY Moves DEF Refused, With, GrabTypes
<1>3. Stood' = Stood + One(h \in StoodStates) - One(host[l] \in StoodStates)
      BY Moves DEF Stood, With, GrabTypes
<1>4. Slots \in Nat /\ Refused \in Nat /\ Stood \in Nat
      BY WithFinite, GrabAssumption DEF Slots, Refused, Stood
<1>5. \A x : (x \in RefusedStates) <=> (x = "refused") BY DEF RefusedStates
<1> QED BY <1>1, <1>2, <1>3, <1>4, <1>5 DEF One

\* A connection that is open has a slot.
LEMMA HasSlot ==
  ASSUME GrabTypes, SlotsExact, NEW l \in Line, host[l] \in Open
  PROVE  current_running > 0
<1>1. l \in With(Open) BY DEF With
<1>2. Cardinality(With(Open)) # 0 BY <1>1, WithFinite, FS_EmptySet
<1> QED BY <1>2 DEF SlotsExact, GrabTypes

\* One number of the statistics goes up.
LEMMA CountUp ==
  ASSUME NEW st \in [Field -> Nat], NEW f \in Field
  PROVE  LET new == [st EXCEPT ![f] = @ + 1]
         IN  /\ new \in [Field -> Nat] /\ new[f] = st[f] + 1
             /\ \A g \in Field \ {f} : new[g] = st[g]
OBVIOUS

\* What counting gives.
LEMMA LoopImplies == LoopInv => GrabInv
<1> SUFFICES ASSUME LoopInv PROVE GrabInv OBVIOUS
<1> USE GrabAssumption DEF LoopInv
<1>1. unread \in 0 .. Lines /\ buffer \in 0 .. Lines /\ frames \in 0 .. Lines
      BY DEF GrabTypes, LineFacts, Tried
<1>2. Refused \in Nat /\ Stood \in 0 .. Lines
      BY WithFinite DEF Stood, Refused
<1>3. \A f \in Field : stats[f] \in Nat BY DEF GrabTypes
<1>4. \A f \in Field : stats[f] <= Lines
  <2>1. stats.init_connected <= Lines
    <3>1. stats.init_connected \in Nat BY <1>3 DEF Field
    <3>2. stats.init_connected <= Tried BY DEF LineFacts
    <3> QED BY <3>1, <3>2, <1>1 DEF Tried
  <2>2. /\ stats.timed_out <= stats.init_connected
        /\ stats.completed <= stats.init_connected
        /\ stats.conn_timed_out <= stats.timed_out
        /\ stats.read_timed_out <= stats.timed_out
        BY <1>2, <1>3 DEF SlotsExact, GrabTypes, Field, Refused, RefusedStates
  <2>3. stats.connected <= Lines BY <1>2 DEF LineFacts
  <2> QED BY <1>3, <2>1, <2>2, <2>3 DEF Field
<1>5. stats \in [Field -> 0 .. Lines] BY <1>3, <1>4 DEF GrabTypes
<1>6. GrabTypeOK BY <1>1, <1>5 DEF GrabTypes, LineFacts, GrabTypeOK, Field
<1> QED BY <1>6 DEF GrabInv

-----------------------------------------------------------------------------
(* The loop of stdin_readcb *)

\* The numbers are natural.
LEMMA Numbers ==
  ASSUME GrabTypes
  PROVE  /\ stats.init_connected \in Nat /\ stats.connected \in Nat
         /\ stats.conn_timed_out \in Nat /\ stats.read_timed_out \in Nat
         /\ stats.timed_out \in Nat /\ stats.completed \in Nat
BY DEF GrabTypes, Field

\* The line that is read is the first that has not been.
LEMMA FirstUnread ==
  ASSUME GrabTypes, LineFacts, MayRead
  PROVE  /\ NextLine = Tried + 1 /\ NextLine \in Line /\ host[NextLine] = "unread"
         /\ Tried \in Nat
<1>1. buffer \in Nat \ {0} /\ unread \in Nat /\ Lines \in Nat
      BY GrabAssumption DEF MayRead, GrabTypes
<1>2. NextLine = Tried + 1 /\ Tried \in Nat BY <1>1 DEF NextLine, Tried, LineFacts
<1>3. NextLine \in Line BY <1>1, <1>2 DEF NextLine, Tried, Line
<1> QED BY <1>2, <1>3 DEF LineFacts

LEMMA ReadMoves ==
  ASSUME GrabTypes, LineFacts, NEW h, NEW st, ReadLine(h, st), h # "unread"
  PROVE  /\ MayRead /\ NextLine \in Line /\ host[NextLine] = "unread"
         /\ host' = [host EXCEPT ![NextLine] = h] /\ stats' = st
         /\ Tried' = Tried + 1 /\ Tried \in Nat
         /\ \A l \in Line : host'[l] = "unread" <=> l > Tried'
         /\ buffer' \in Nat
         /\ UNCHANGED <<program, unread, due, eof, reading, stdin_closed, exited>>
<1>1. MayRead /\ stats' = st /\ host' = [host EXCEPT ![NextLine] = h]
      /\ UNCHANGED <<program, unread, due, eof, reading, stdin_closed, exited>>
      BY DEF ReadLine
<1>2. /\ NextLine = Tried + 1 /\ NextLine \in Line /\ host[NextLine] = "unread"
      /\ Tried \in Nat
      BY <1>1, FirstUnread
<1>3. Tried' = Tried + 1 /\ buffer' \in Nat
      BY <1>1, GrabAssumption DEF ReadLine, MayRead, Tried, GrabTypes
<1>4. ASSUME NEW l \in Line PROVE host'[l] = "unread" <=> l > Tried'
  <2>1. CASE l = NextLine BY <1>1, <1>2, <1>3, <2>1 DEF GrabTypes
  <2>2. CASE l # NextLine
    <3>1. host'[l] = host[l] BY <1>1, <2>2 DEF GrabTypes
    <3>2. l \in Int BY DEF Line
    <3> QED BY <1>2, <1>3, <2>2, <3>1, <3>2 DEF LineFacts
  <2> QED BY <2>1, <2>2
<1> QED BY <1>1, <1>2, <1>3, <1>4

\* A line that is read keeps the invariant, whatever becomes of it.
LEMMA ReadKeeps ==
  ASSUME LoopInv, NEW h \in {"connecting", "connected", "refused", "skipped"},
         NEW st \in [Field -> Nat], ReadLine(h, st),
         st.init_connected = stats.init_connected + One(h # "skipped"),
         st.connected = stats.connected + One(h = "connected"),
         \A f \in Field \ {"init_connected", "connected"} : st[f] = stats[f],
         current_running' = current_running + One(h \in Open),
         frames' = frames + One(h = "refused")
  PROVE  LoopInv'
<1> USE DEF LoopInv
<1>1. /\ MayRead /\ NextLine \in Line /\ host[NextLine] = "unread"
      /\ host' = [host EXCEPT ![NextLine] = h] /\ stats' = st
      /\ Tried' = Tried + 1 /\ Tried \in Nat
      /\ \A l \in Line : host'[l] = "unread" <=> l > Tried'
      /\ buffer' \in Nat
      /\ UNCHANGED <<program, unread, due, eof, reading, stdin_closed, exited>>
      BY ReadMoves
<1>2. /\ Slots' = Slots + One(h \in Open)
      /\ Refused' = Refused + One(h = "refused")
      /\ Stood' = Stood + One(h = "connected")
      /\ Slots \in Nat /\ Refused \in Nat /\ Stood \in Nat
  <2>1. "unread" \notin Open /\ "unread" \notin StoodStates BY DEF Open, StoodStates
  <2>2. h \in StoodStates <=> h = "connected" BY DEF StoodStates
  <2>3. /\ Slots' = Slots + One(h \in Open) - One(host[NextLine] \in Open)
        /\ Refused' = Refused + One(h = "refused") - One(host[NextLine] = "refused")
        /\ Stood' = Stood + One(h \in StoodStates) - One(host[NextLine] \in StoodStates)
        /\ Slots \in Nat /\ Refused \in Nat /\ Stood \in Nat
        BY <1>1, CountMoves
  <2> QED BY <1>1, <2>1, <2>2, <2>3 DEF One
<1>3. \A b \in BOOLEAN : One(b) \in {0, 1} BY DEF One
<1>4. GrabTypes'
  <2>1. host' \in [Line -> {"unread"} \cup Open \cup Outcome]
        BY <1>1 DEF GrabTypes, Open, Outcome
  <2>2. current_running' \in Nat /\ frames' \in Nat BY DEF GrabTypes, One
  <2> QED BY <1>1, <2>1, <2>2 DEF GrabTypes
<1>5. SlotsExact'
  <2>1. current_running = Slots BY DEF SlotsExact, Slots
  <2>2. stats'.timed_out = stats.timed_out /\ stats'.completed = stats.completed
        /\ stats'.conn_timed_out = stats.conn_timed_out
        /\ stats'.read_timed_out = stats.read_timed_out
        BY <1>1 DEF Field
  <2>3. One(h # "skipped") = One(h \in Open) + One(h = "refused") BY DEF One, Open
  <2>4. stats'.init_connected
          = current_running' + stats'.timed_out + stats'.completed + Refused'
        BY <1>1, <1>2, <1>3, <2>2, <2>3, Numbers
        DEF SlotsExact, Refused, RefusedStates, GrabTypes, One
  <2>5. current_running' = Slots' BY <1>2, <2>1
  <2> QED BY <2>2, <2>4, <2>5 DEF SlotsExact, Slots, Refused, RefusedStates
<1>6. LineFacts'
  <2>1. frames' <= Tried' /\ stats'.init_connected <= Tried'
        BY <1>1, Numbers DEF LineFacts, GrabTypes, One
  <2>2. current_running' <= Max
        BY <1>1, GrabAssumption DEF MayRead, GrabTypes, One
  <2>3. stats'.connected = Stood' BY <1>1, <1>2 DEF LineFacts
  <2> QED BY <1>1, <2>1, <2>2, <2>3 DEF LineFacts
<1>7. NoIdleSlot' BY <1>1 DEF NoIdleSlot, Idle, MayRead
<1>8. EndFacts' BY <1>1 DEF EndFacts
<1> QED BY <1>4, <1>5, <1>6, <1>7, <1>8

LEMMA ReadActionsKeep == LoopInv /\ (Connect \/ Forge \/ Refuse \/ Skip) => LoopInv'
<1> SUFFICES ASSUME LoopInv, Connect \/ Forge \/ Refuse \/ Skip PROVE LoopInv' OBVIOUS
<1> USE Numbers, CountUp DEF LoopInv, GrabTypes, Field
<1>1. CASE Connect
  <2> DEFINE st == [stats EXCEPT !.init_connected = @ + 1]
  <2>1. ReadLine("connecting", st) BY <1>1 DEF Connect
  <2>2. /\ st \in [Field -> Nat] /\ st.init_connected = stats.init_connected + 1
        /\ st.connected = stats.connected
        /\ \A f \in Field \ {"init_connected", "connected"} : st[f] = stats[f]
        OBVIOUS
  <2>3. current_running' = current_running + 1 /\ frames' = frames BY <1>1 DEF Connect
  <2> HIDE DEF st
  <2>4. /\ One("connecting" # "skipped") = 1 /\ One("connecting" = "connected") = 0
        /\ One("connecting" = "refused") = 0 /\ One("connecting" \in Open) = 1
        BY DEF One, Open
  <2> QED BY <2>1, <2>2, <2>3, <2>4, ReadKeeps
<1>2. CASE Forge
  <2> DEFINE st == [stats EXCEPT !.init_connected = @ + 1, !.connected = @ + 1]
  <2>1. ReadLine("connected", st) BY <1>2 DEF Forge
  <2>2. /\ st \in [Field -> Nat] /\ st.init_connected = stats.init_connected + 1
        /\ st.connected = stats.connected + 1
        /\ \A f \in Field \ {"init_connected", "connected"} : st[f] = stats[f]
    <3> DEFINE one == [stats EXCEPT !.init_connected = @ + 1]
    <3>1. /\ one \in [Field -> Nat] /\ one.init_connected = stats.init_connected + 1
          /\ \A f \in Field \ {"init_connected"} : one[f] = stats[f]
          OBVIOUS
    <3>2. st = [one EXCEPT !.connected = @ + 1] BY Zenon
    <3> HIDE DEF one, st
    <3> QED BY <3>1, <3>2
  <2>3. current_running' = current_running + 1 /\ frames' = frames BY <1>2 DEF Forge
  <2> HIDE DEF st
  <2>4. /\ One("connected" # "skipped") = 1 /\ One("connected" = "connected") = 1
        /\ One("connected" = "refused") = 0 /\ One("connected" \in Open) = 1
        BY DEF One, Open
  <2> QED BY <2>1, <2>2, <2>3, <2>4, ReadKeeps
<1>3. CASE Refuse
  <2> DEFINE st == [stats EXCEPT !.init_connected = @ + 1]
  <2>1. ReadLine("refused", st) BY <1>3 DEF Refuse
  <2>2. /\ st \in [Field -> Nat] /\ st.init_connected = stats.init_connected + 1
        /\ st.connected = stats.connected
        /\ \A f \in Field \ {"init_connected", "connected"} : st[f] = stats[f]
        OBVIOUS
  <2>3. current_running' = current_running /\ frames' = frames + 1 BY <1>3 DEF Refuse
  <2> HIDE DEF st
  <2>4. /\ One("refused" # "skipped") = 1 /\ One("refused" = "connected") = 0
        /\ One("refused" = "refused") = 1 /\ One("refused" \in Open) = 0
        BY DEF One, Open
  <2> QED BY <2>1, <2>2, <2>3, <2>4, ReadKeeps
<1>4. CASE Skip
  <2>1. ReadLine("skipped", stats) BY <1>4 DEF Skip
  <2>2. current_running' = current_running /\ frames' = frames BY <1>4 DEF Skip
  <2>3. /\ One("skipped" # "skipped") = 0 /\ One("skipped" = "connected") = 0
        /\ One("skipped" = "refused") = 0 /\ One("skipped" \in Open) = 0
        BY DEF One, Open
  <2> QED BY <2>1, <2>2, <2>3, ReadKeeps
<1> QED BY <1>1, <1>2, <1>3, <1>4

\* The loop ends with no line, or no slot, that is left.
LEMMA ReturnKeeps == LoopInv /\ Return => LoopInv'
<1> SUFFICES ASSUME LoopInv, Return PROVE LoopInv' OBVIOUS
<1> USE DEF LoopInv
<1>1. /\ ~MayRead /\ reading /\ ~exited /\ frames' \in Nat /\ frames' <= frames
      /\ reading' \in BOOLEAN /\ exited' \in BOOLEAN
      /\ UNCHANGED <<program, unread, buffer, due, eof, stdin_closed,
                     current_running, stats, host>>
      BY DEF Return, GrabTypes
<1>2. Tried' = Tried /\ With(Open)' = With(Open) /\ Stood' = Stood
      /\ With({"refused"})' = With({"refused"}) /\ Tried \in Int
      BY <1>1, GrabAssumption DEF Tried, With, Stood, GrabTypes
<1>3. GrabTypes' BY <1>1 DEF GrabTypes
<1>4. SlotsExact' BY <1>1, <1>2 DEF SlotsExact
<1>5. LineFacts' BY <1>1, <1>2 DEF LineFacts, GrabTypes
<1>6. buffer = 0 \/ current_running = Max
      BY <1>1, GrabAssumption DEF MayRead, GrabTypes, LineFacts
<1>7. NoIdleSlot' BY <1>1, <1>6 DEF NoIdleSlot
<1>8. EndFacts' BY <1>1 DEF EndFacts
<1> QED BY <1>3, <1>4, <1>5, <1>7, <1>8

-----------------------------------------------------------------------------
(* The events *)

LEMMA StdinKeeps == LoopInv /\ Stdin => LoopInv'
<1> SUFFICES ASSUME LoopInv, Stdin PROVE LoopInv' OBVIOUS
<1> USE DEF LoopInv
<1>1. UNCHANGED <<program, frames, current_running, stats, host>>
      BY DEF Stdin, Arrive, EndOfInput, StdinReadcb, StdinEventcb
<1>2. Tried' = Tried
      BY GrabAssumption
      DEF Stdin, Arrive, EndOfInput, StdinReadcb, StdinEventcb, Tried, GrabTypes
<1>3. With(Open)' = With(Open) /\ With({"refused"})' = With({"refused"}) /\ Stood' = Stood
      BY <1>1 DEF With, Stood
<1>4. GrabTypes'
  <2>1. CASE Arrive BY <1>1, <2>1 DEF Arrive, GrabTypes
  <2>2. CASE EndOfInput BY <1>1, <2>2 DEF EndOfInput, GrabTypes
  <2>3. CASE StdinReadcb BY <1>1, <2>3 DEF StdinReadcb, GrabTypes
  <2>4. CASE StdinEventcb BY <1>1, <2>4 DEF StdinEventcb, GrabTypes
  <2> QED BY <2>1, <2>2, <2>3, <2>4 DEF Stdin
<1>5. SlotsExact' BY <1>1, <1>3 DEF SlotsExact
<1>6. LineFacts' BY <1>1, <1>2, <1>3 DEF LineFacts
<1>7. NoIdleSlot'
  <2>1. CASE Arrive BY <2>1 DEF Arrive, NoIdleSlot
  <2>2. CASE EndOfInput BY <2>2 DEF EndOfInput, NoIdleSlot, Idle
  <2>3. CASE StdinReadcb BY <2>3 DEF StdinReadcb, NoIdleSlot, Idle
  <2>4. CASE StdinEventcb BY <2>4 DEF StdinEventcb, NoIdleSlot, Idle
  <2> QED BY <2>1, <2>2, <2>3, <2>4 DEF Stdin
<1>8. EndFacts'
      BY DEF Stdin, Arrive, EndOfInput, StdinReadcb, StdinEventcb, EndFacts, GrabTypes
<1> QED BY <1>4, <1>5, <1>6, <1>7, <1>8

\* A line that has been read is one, and stays one.
LEMMA StillTried ==
  ASSUME GrabTypes, LineFacts, NEW l \in Line, host[l] # "unread", NEW h,
         host' = [host EXCEPT ![l] = h], h # "unread", UNCHANGED <<unread, buffer>>
  PROVE  /\ Tried' = Tried /\ Tried \in Nat \ {0}
         /\ \A k \in Line : host'[k] = "unread" <=> k > Tried'
<1>1. Tried' = Tried /\ Tried \in Nat
      BY GrabAssumption DEF Tried, GrabTypes, LineFacts
<1>2. l \in Nat \ {0} /\ ~(l > Tried) BY DEF Line, LineFacts
<1>3. Tried # 0 BY <1>1, <1>2
<1>4. host'[l] = h /\ \A k \in Line \ {l} : host'[k] = host[k] BY DEF GrabTypes
<1> QED BY <1>1, <1>2, <1>3, <1>4 DEF LineFacts

LEMMA ConnectedKeeps == ASSUME LoopInv, NEW l \in Line, Connected(l) PROVE LoopInv'
<1> USE DEF LoopInv
<1>1. /\ Idle /\ host[l] = "connecting" /\ host' = [host EXCEPT ![l] = "connected"]
      /\ UNCHANGED <<program, loopVars, current_running, exited>>
      BY DEF Connected
<1>2. /\ stats' \in [Field -> Nat] /\ stats'.connected = stats.connected + 1
      /\ \A f \in Field \ {"connected"} : stats'[f] = stats[f]
      BY CountUp DEF Connected, GrabTypes, Field
<1>3. Slots' = Slots /\ Refused' = Refused /\ Stood' = Stood + 1
  <2>1. /\ Slots' = Slots + One("connected" \in Open) - One(host[l] \in Open)
        /\ Refused' = Refused + One("connected" = "refused") - One(host[l] = "refused")
        /\ Stood' = Stood + One("connected" \in StoodStates) - One(host[l] \in StoodStates)
        /\ Slots \in Nat /\ Refused \in Nat /\ Stood \in Nat
        BY <1>1, CountMoves
  <2> QED BY <1>1, <2>1 DEF One, Open, StoodStates
<1>4. /\ Tried' = Tried /\ Tried \in Nat
      /\ \A k \in Line : host'[k] = "unread" <=> k > Tried'
      BY <1>1, StillTried DEF loopVars
<1>5. GrabTypes' BY <1>1, <1>2 DEF GrabTypes, loopVars, Open
<1>6. SlotsExact'
      BY <1>1, <1>2, <1>3 DEF SlotsExact, Slots, Refused, RefusedStates, Field
<1>7. LineFacts' BY <1>1, <1>2, <1>3, <1>4 DEF LineFacts, loopVars, Field
<1>8. NoIdleSlot' BY <1>1 DEF NoIdleSlot, Idle, loopVars
<1>9. EndFacts' BY <1>1 DEF EndFacts, loopVars
<1> QED BY <1>5, <1>6, <1>7, <1>8, <1>9

\* A connection that ends gives its slot back, and the loop is entered.
LEMMA EndKeeps ==
  ASSUME LoopInv, NEW l \in Line, Ends(l)
  PROVE  LoopInv'
<1> USE DEF LoopInv
<1>1. PICK h \in {"conn_timeout", "read_timeout", "banner"} :
        /\ host' = [host EXCEPT ![l] = h]
        /\ h = "conn_timeout" => host[l] = "connecting"
        /\ h # "conn_timeout" => host[l] = "connected"
        /\ stats' \in [Field -> Nat]
        /\ stats'.conn_timed_out = stats.conn_timed_out + One(h = "conn_timeout")
        /\ stats'.read_timed_out = stats.read_timed_out + One(h = "read_timeout")
        /\ stats'.timed_out = stats.timed_out + One(h # "banner")
        /\ stats'.completed = stats.completed + One(h = "banner")
        /\ stats'.init_connected = stats.init_connected
        /\ stats'.connected = stats.connected
  <2>1. CASE ConnectFailed(l)
    <3> DEFINE one == [stats EXCEPT !.conn_timed_out = @ + 1]
    <3>1. /\ host[l] = "connecting" /\ host' = [host EXCEPT ![l] = "conn_timeout"]
          /\ stats' = [one EXCEPT !.timed_out = @ + 1]
          BY <2>1 DEF ConnectFailed, Bail
    <3>2. /\ one \in [Field -> Nat] /\ one.conn_timed_out = stats.conn_timed_out + 1
          /\ \A f \in Field \ {"conn_timed_out"} : one[f] = stats[f]
          BY CountUp DEF GrabTypes, Field
    <3> HIDE DEF one
    <3>3. /\ stats' \in [Field -> Nat] /\ stats'.timed_out = one.timed_out + 1
          /\ \A f \in Field \ {"timed_out"} : stats'[f] = one[f]
          BY <3>1, <3>2, CountUp DEF Field
    <3> QED BY <3>1, <3>2, <3>3, Numbers DEF Field, One
  <2>2. CASE ReadFailed(l)
    <3> DEFINE one == [stats EXCEPT !.read_timed_out = @ + 1]
    <3>1. /\ host[l] = "connected" /\ host' = [host EXCEPT ![l] = "read_timeout"]
          /\ stats' = [one EXCEPT !.timed_out = @ + 1]
          BY <2>2 DEF ReadFailed, Bail
    <3>2. /\ one \in [Field -> Nat] /\ one.read_timed_out = stats.read_timed_out + 1
          /\ \A f \in Field \ {"read_timed_out"} : one[f] = stats[f]
          BY CountUp DEF GrabTypes, Field
    <3> HIDE DEF one
    <3>3. /\ stats' \in [Field -> Nat] /\ stats'.timed_out = one.timed_out + 1
          /\ \A f \in Field \ {"timed_out"} : stats'[f] = one[f]
          BY <3>1, <3>2, CountUp DEF Field
    <3> QED BY <3>1, <3>2, <3>3, Numbers DEF Field, One
  <2>3. CASE Banner(l)
        BY <2>3, Numbers DEF Banner, GrabTypes, Field, One
  <2> QED BY <2>1, <2>2, <2>3 DEF Ends
<1>2. /\ Idle /\ current_running' = current_running - 1 /\ reading' = TRUE /\ frames' = 1
      /\ UNCHANGED <<program, unread, buffer, due, eof, stdin_closed, exited>>
      BY DEF Ends, ConnectFailed, ReadFailed, Bail, Banner, decrement_cur_running
<1>3. host[l] \in Open /\ host[l] # "unread" BY <1>1 DEF Open
<1>4. Slots' = Slots - 1 /\ Refused' = Refused /\ Stood' = Stood
  <2>1. /\ Slots' = Slots + One(h \in Open) - One(host[l] \in Open)
        /\ Refused' = Refused + One(h = "refused") - One(host[l] = "refused")
        /\ Stood' = Stood + One(h \in StoodStates) - One(host[l] \in StoodStates)
        /\ Slots \in Nat /\ Refused \in Nat /\ Stood \in Nat
        BY <1>1, CountMoves
  <2>2. h \notin Open /\ h # "refused" /\ host[l] # "refused" BY <1>1 DEF Open
  <2>3. (h \in StoodStates) <=> (host[l] \in StoodStates) BY <1>1 DEF StoodStates
  <2> QED BY <1>3, <2>1, <2>2, <2>3 DEF One
<1>5. /\ Tried' = Tried /\ Tried \in Nat \ {0}
      /\ \A k \in Line : host'[k] = "unread" <=> k > Tried'
      BY <1>1, <1>2, <1>3, StillTried
<1>6. current_running' \in Nat BY <1>2, <1>3, HasSlot DEF GrabTypes
<1>7. GrabTypes'
  <2>1. host' \in [Line -> {"unread"} \cup Open \cup Outcome]
        BY <1>1 DEF GrabTypes, Outcome
  <2> QED BY <1>1, <1>2, <1>6, <2>1 DEF GrabTypes
<1>8. SlotsExact'
  <2>1. current_running' = Slots' BY <1>2, <1>4 DEF SlotsExact, Slots
  <2>2. stats'.timed_out = stats'.conn_timed_out + stats'.read_timed_out
        BY <1>1, Numbers DEF SlotsExact, One
  <2>3. stats'.init_connected
          = current_running' + stats'.timed_out + stats'.completed + Refused'
    <3>1. stats.init_connected
            = current_running + stats.timed_out + stats.completed + Refused
          BY DEF SlotsExact, Refused, RefusedStates
    <3>2. Refused \in Nat BY WithFinite, GrabAssumption DEF Refused
    <3> QED BY <1>1, <1>2, <1>4, <3>1, <3>2, Numbers DEF One, GrabTypes
  <2> QED BY <2>1, <2>2, <2>3 DEF SlotsExact, Slots, Refused, RefusedStates
<1>9. LineFacts'
  <2>1. current_running' <= Max BY <1>2, GrabAssumption DEF LineFacts, GrabTypes
  <2> QED BY <1>1, <1>2, <1>4, <1>5, <2>1 DEF LineFacts
<1>10. NoIdleSlot' BY <1>2 DEF NoIdleSlot, Idle
<1>11. EndFacts' BY <1>2 DEF EndFacts
<1> QED BY <1>7, <1>8, <1>9, <1>10, <1>11

-----------------------------------------------------------------------------
(* The theorems *)

LEMMA LoopInit == Init => LoopInv
<1> SUFFICES ASSUME Init PROVE LoopInv OBVIOUS
<1>1. \A l \in Line : host[l] = "unread" BY DEF Init
<1>2. With(Open) = {} /\ With({"refused"}) = {} /\ With(StoodStates) = {}
      BY <1>1 DEF With, Open, StoodStates
<1>3. Cardinality({}) = 0 BY FS_EmptySet
<1>4. Tried = 0 BY GrabAssumption DEF Init, Tried
<1>5. GrabTypes
  <2>1. stats \in [Field -> Nat] BY DEF Init, Field
  <2>2. host \in [Line -> {"unread"} \cup Open \cup Outcome] BY DEF Init
  <2> QED BY <2>1, <2>2, GrabAssumption DEF Init, GrabTypes
<1>6. SlotsExact BY <1>2, <1>3 DEF Init, SlotsExact
<1>7. LineFacts
  <2>1. \A l \in Line : l > 0 BY DEF Line
  <2> QED BY <1>1, <1>2, <1>3, <1>4, <2>1, GrabAssumption DEF Init, LineFacts, Stood
<1>8. NoIdleSlot /\ EndFacts BY DEF Init, NoIdleSlot, EndFacts
<1> QED BY <1>5, <1>6, <1>7, <1>8 DEF LoopInv

LEMMA LoopStays == LoopInv /\ UNCHANGED vars => LoopInv'
<1> SUFFICES ASSUME LoopInv, UNCHANGED vars PROVE LoopInv' OBVIOUS
<1>1. UNCHANGED <<program, unread, buffer, due, eof, reading, frames, stdin_closed,
                  current_running, stats, host, exited>>
      BY DEF vars, loopVars
<1>2. GrabTypes' BY <1>1 DEF LoopInv, GrabTypes
<1>3. SlotsExact' BY <1>1 DEF LoopInv, SlotsExact, With
<1>4. LineFacts' BY <1>1 DEF LoopInv, LineFacts, Tried, Stood, With
<1>5. NoIdleSlot' /\ EndFacts'
      BY <1>1 DEF LoopInv, NoIdleSlot, Idle, EndFacts
<1> QED BY <1>2, <1>3, <1>4, <1>5 DEF LoopInv

LEMMA LoopStep == LoopInv /\ [Next]_vars => LoopInv'
BY ReadActionsKeep, ReturnKeeps, StdinKeeps, ConnectedKeeps, EndKeeps, LoopStays
   DEF Next, ReadLoop

LEMMA LoopInvariance == Spec => []LoopInv
BY LoopInit, LoopStep, PTL DEF Spec

\* However deep the callbacks nest, and however many lines and slots there are:
\* the slots in use are the open connections, the statistics add up, and no line
\* is left beside a free slot.
THEOREM GrabCorrect == Spec => []GrabInv
BY LoopInvariance, LoopImplies, PTL

-----------------------------------------------------------------------------
(* The promise *)

LEMMA NoSlotLeft ==
  ASSUME GrabTypes, SlotsExact, current_running = 0
  PROVE  With(Open) = {}
BY WithFinite, FS_EmptySet DEF SlotsExact

\* A line that is read becomes a connection, for which there is a slot, or is
\* done with.
LEMMA ReadPromise ==
  ASSUME LoopInv, NEW h \in {"connecting", "connected", "refused", "skipped"},
         NEW st, ReadLine(h, st)
  PROVE  [Promise!Next]_(Promise!gvars)
<1> USE DEF LoopInv
<1>1. /\ MayRead /\ NextLine \in Line /\ host[NextLine] = "unread"
      /\ host' = [host EXCEPT ![NextLine] = h] /\ exited' = exited
      BY ReadMoves
<1>2. PICK l \in Line : l = NextLine BY <1>1
<1>3. host[l] = "unread" /\ host'[l] = h /\ \A k \in Line \ {l} : host'[k] = host[k]
      BY <1>1, <1>2 DEF GrabTypes
<1>4. l \in With({"unread"}) /\ With({"unread"})' = With({"unread"}) \ {l}
      BY <1>3 DEF With
<1>5. CASE h \in Open
  <2>1. With(Open)' = With(Open) \cup {l} BY <1>3, <1>5 DEF With
  <2>2. Cardinality(With(Open)) < Max
        BY <1>1, GrabAssumption DEF MayRead, SlotsExact, GrabTypes
  <2>3. Promise!Cardinality(With(Open)) < Max
        BY <2>2, Zenon DEF Promise!Cardinality, Cardinality
  <2>4. Promise!Try(l) BY <1>1, <1>4, <2>1, <2>3 DEF Promise!Try
  <2> QED BY <2>4 DEF Promise!Next
<1>6. CASE h \notin Open
  <2>1. With(Open)' = With(Open) BY <1>3, <1>6 DEF With, Open
  <2>2. Promise!Refuse(l) BY <1>1, <1>4, <2>1 DEF Promise!Refuse
  <2> QED BY <2>2 DEF Promise!Next
<1> QED BY <1>5, <1>6

\* A connection that ends has one outcome.
LEMMA EndPromise ==
  ASSUME LoopInv, NEW l \in Line, Ends(l)
  PROVE  [Promise!Next]_(Promise!gvars)
<1> USE DEF LoopInv
<1>1. PICK h \in {"conn_timeout", "read_timeout", "banner"} :
        host' = [host EXCEPT ![l] = h]
      BY DEF Ends, ConnectFailed, ReadFailed, Bail, Banner
<1>2. host[l] \in {"connecting", "connected"} /\ exited' = exited
      BY DEF Ends, ConnectFailed, ReadFailed, Bail, Banner, decrement_cur_running
<1>3. host'[l] = h /\ \A k \in Line \ {l} : host'[k] = host[k]
      BY <1>1 DEF GrabTypes
<1>4. With({"unread"})' = With({"unread"}) BY <1>1, <1>2, <1>3 DEF With
<1>5. l \in With(Open) /\ With(Open)' = With(Open) \ {l}
      BY <1>1, <1>2, <1>3 DEF With, Open
<1>6. Promise!End(l) BY <1>2, <1>4, <1>5 DEF Promise!End
<1> QED BY <1>6 DEF Promise!Next

\* The program ends when stdin is closed, nothing is buffered, and no slot used.
LEMMA StopPromise ==
  ASSUME LoopInv, Return \/ Stdin \/ UNCHANGED vars
  PROVE  [Promise!Next]_(Promise!gvars)
<1> USE DEF LoopInv
<1>1. host' = host
      BY DEF Return, Stdin, Arrive, EndOfInput, StdinReadcb, StdinEventcb, vars
<1>2. With({"unread"})' = With({"unread"}) /\ With(Open)' = With(Open)
      BY <1>1 DEF With
<1>3. CASE exited' = exited BY <1>2, <1>3 DEF Promise!gvars
<1>4. CASE exited' # exited
  <2>1. exited' = TRUE /\ exited = FALSE /\ current_running = 0 /\ unread = 0 /\ buffer = 0
    <3>1. CASE Return
      <4>1. ~exited /\ exited' /\ stdin_closed /\ current_running = 0 /\ ~MayRead /\ reading
            BY <1>4, <3>1 DEF Return, GrabTypes
      <4>2. buffer = 0 BY <4>1, GrabAssumption DEF MayRead, GrabTypes
      <4>3. exited' \in BOOLEAN BY <3>1 DEF Return
      <4> QED BY <4>1, <4>2, <4>3 DEF EndFacts, GrabTypes
    <3>2. CASE Stdin
      <4>1. StdinEventcb /\ Idle
            BY <1>4, <3>2 DEF Stdin, Arrive, EndOfInput, StdinReadcb, StdinEventcb
      <4>2. ~exited /\ exited' /\ current_running = 0 /\ due = {"event"}
            BY <1>4, <4>1 DEF StdinEventcb, Idle, GrabTypes
      <4>3. buffer = 0 BY <4>1, <4>2, GrabAssumption DEF NoIdleSlot
      <4>4. exited' \in BOOLEAN BY <4>1 DEF StdinEventcb
      <4> QED BY <4>2, <4>3, <4>4 DEF EndFacts, GrabTypes
    <3>3. CASE UNCHANGED vars BY <1>4, <3>3 DEF vars
    <3> QED BY <3>1, <3>2, <3>3
  <2>2. Tried = Lines BY <2>1, GrabAssumption DEF Tried
  <2>3. With({"unread"}) = {}
    <3>1. \A l \in Line : ~(l > Tried) BY <2>2, GrabAssumption DEF Line
    <3> QED BY <3>1 DEF With, LineFacts
  <2>4. With(Open) = {} BY <2>1, NoSlotLeft
  <2>5. Promise!Stop BY <1>2, <2>1, <2>3, <2>4 DEF Promise!Stop
  <2> QED BY <2>5 DEF Promise!Next
<1> QED BY <1>3, <1>4

LEMMA ConnectedPromise ==
  ASSUME LoopInv, NEW l \in Line, Connected(l)
  PROVE  [Promise!Next]_(Promise!gvars)
<1>1. /\ host[l] = "connecting" /\ exited' = exited
      /\ host'[l] = "connected" /\ \A k \in Line \ {l} : host'[k] = host[k]
      BY DEF Connected, LoopInv, GrabTypes
<1>2. With({"unread"})' = With({"unread"}) /\ With(Open)' = With(Open)
      BY <1>1 DEF With, Open
<1> QED BY <1>1, <1>2 DEF Promise!gvars

LEMMA PromiseInit == Init => Promise!Init
<1> SUFFICES ASSUME Init PROVE Promise!Init OBVIOUS
<1>1. With({"unread"}) = Line /\ With(Open) = {} /\ exited = FALSE
      BY DEF Init, With, Open
<1> QED BY <1>1 DEF Promise!Init

\* For any number of lines and slots, the program tries every line once, at
\* most max_concurrent at a time, and ends only when all of them have ended.
THEOREM GrabPromiseSafe == Spec => Promise!SafeSpec
<1>1. LoopInv /\ [Next]_vars => [Promise!Next]_(Promise!gvars)
      BY ReadPromise, EndPromise, StopPromise, ConnectedPromise
      DEF Next, ReadLoop, Connect, Forge, Refuse, Skip
<1>2. QED BY LoopInvariance, PromiseInit, <1>1, PTL DEF Spec, Promise!SafeSpec
=============================================================================
