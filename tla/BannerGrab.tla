----------------------------- MODULE BannerGrab -----------------------------
(***************************************************************************)
(* The event loop of examples/banner-grab/banner-grab-tcp.c and of         *)
(* examples/forge-socket/forge-socket.c, two programs of one structure.    *)
(* libevent runs one callback at a time; a callback that ends a connection *)
(* reads further lines before it returns, and a line whose connection fails*)
(* at once does so again from inside (decrement_cur_running and            *)
(* stdin_readcb call each other).  `frames' counts the calls of            *)
(* decrement_cur_running that have not returned.                           *)
(*                                                                         *)
(* External: libevent calls the read callback of stdin before the event    *)
(* callback, a connection's callbacks one at a time, and its event callback*)
(* no later than the timeout set.                                          *)
(***************************************************************************)
EXTENDS Integers, FiniteSets

CONSTANTS Lines,      \* how many lines stdin has before it ends
          Max,        \* conf.max_concurrent
          Programs    \* bound: the programs considered

ASSUME GrabAssumption ==
  /\ Lines \in Nat /\ Max \in Nat \ {0}
  /\ Programs \subseteq {"banner-grab-tcp", "forge-socket"}

VARIABLES program,
          unread, buffer,    \* lines in the pipe, and in the input buffer
          due,               \* deferred callbacks of stdin: "read", "event"
          eof,               \* the end of stdin has been seen by libevent
          reading, frames,   \* inside stdin_readcb, calls still to return
          stdin_closed, current_running, stats,
          host,              \* per line: the state of its connection
          exited

loopVars == <<unread, buffer, due, eof, reading, frames, stdin_closed>>
vars == <<program, loopVars, current_running, stats, host, exited>>

Line    == 1 .. Lines
Open    == {"connecting", "connected"}
Outcome == {"banner", "conn_timeout", "read_timeout", "refused", "skipped"}

Init == /\ program \in Programs
        /\ unread = Lines /\ buffer = 0 /\ due = {} /\ eof = FALSE
        /\ reading = FALSE /\ frames = 0 /\ stdin_closed = FALSE
        /\ current_running = 0
        /\ stats = [init_connected |-> 0, connected |-> 0, conn_timed_out |-> 0,
                    read_timed_out |-> 0, timed_out |-> 0, completed |-> 0]
        /\ host = [l \in Line |-> "unread"]
        /\ exited = FALSE

\* between two callbacks
Idle == ~reading /\ ~exited

\* the event loop moves lines into the buffer and defers the callbacks
Arrive == /\ Idle /\ unread > 0
          /\ unread' = unread - 1 /\ buffer' = buffer + 1
          /\ due' = due \cup {"read"}
          /\ UNCHANGED <<program, eof, reading, frames, stdin_closed,
                         current_running, stats, host, exited>>

EndOfInput == /\ Idle /\ unread = 0 /\ ~eof
              /\ eof' = TRUE /\ due' = due \cup {"event"}
              /\ UNCHANGED <<program, unread, buffer, reading, frames,
                             stdin_closed, current_running, stats, host, exited>>

StdinReadcb == /\ Idle /\ "read" \in due
               /\ due' = due \ {"read"} /\ reading' = TRUE
               /\ UNCHANGED <<program, unread, buffer, eof, frames,
                              stdin_closed, current_running, stats, host, exited>>

StdinEventcb == /\ Idle /\ due = {"event"}
                /\ due' = {} /\ stdin_closed' = TRUE
                /\ exited' = (current_running = 0)
                /\ UNCHANGED <<program, unread, buffer, eof, reading, frames,
                               current_running, stats, host>>

-----------------------------------------------------------------------------
(* The loop of stdin_readcb *)

MayRead == reading /\ ~exited /\ current_running < Max /\ buffer > 0
NextLine == Lines - unread - buffer + 1

ReadLine(h, st) == /\ MayRead /\ buffer' = buffer - 1
                   /\ host' = [host EXCEPT ![NextLine] = h] /\ stats' = st
                   /\ UNCHANGED <<program, unread, due, eof, reading,
                                  stdin_closed, exited>>

\* grab_banner of banner-grab-tcp: a connection is on its way
Connect == /\ program = "banner-grab-tcp"
           /\ ReadLine("connecting", [stats EXCEPT !.init_connected = @ + 1])
           /\ current_running' = current_running + 1
           /\ UNCHANGED frames

\* grab_banner of forge-socket: the state of a connection is put into a socket,
\* which is connected from then on (the kernel module is loaded)
Forge == /\ program = "forge-socket"
         /\ ReadLine("connected", [stats EXCEPT !.init_connected = @ + 1,
                                               !.connected = @ + 1])
         /\ current_running' = current_running + 1
         /\ UNCHANGED frames

\* Mutant: a connection that fails at once keeps its slot.
RefuseKeepsSlot == /\ ReadLine("refused",
                               [stats EXCEPT !.init_connected = @ + 1])
                   /\ current_running' = current_running + 1
                   /\ UNCHANGED frames

\* grab_banner gives up at once: the count goes up and down again, and
\* decrement_cur_running goes on reading
Refuse == /\ ReadLine("refused", [stats EXCEPT !.init_connected = @ + 1])
          /\ frames' = frames + 1
          /\ UNCHANGED current_running

\* forge-socket passes over what is not the first SYN-ACK of a host
Skip == /\ program = "forge-socket"
        /\ ReadLine("skipped", stats)
        /\ UNCHANGED <<current_running, frames>>

\* Mutant: the end is only looked for when stdin ends.
ReturnSilently == /\ reading /\ ~exited /\ ~MayRead
                  /\ frames' = IF frames > 0 THEN frames - 1 ELSE 0
                  /\ reading' = (frames > 1)
                  /\ UNCHANGED <<program, unread, buffer, due, eof, stdin_closed,
                                 current_running, stats, host, exited>>

\* the loop is over; the innermost decrement_cur_running looks for the end
Return == /\ reading /\ ~exited /\ ~MayRead
          /\ frames' = IF frames > 0 THEN frames - 1 ELSE 0
          /\ reading' = (frames > 1)
          /\ exited' = (frames > 0 /\ stdin_closed /\ current_running = 0)
          /\ UNCHANGED <<program, unread, buffer, due, eof, stdin_closed,
                         current_running, stats, host>>

-----------------------------------------------------------------------------
(* The callbacks of a connection *)

decrement_cur_running == /\ current_running' = current_running - 1
                         /\ reading' = TRUE /\ frames' = 1
                         /\ UNCHANGED exited

\* connect_cb, the connection stands
Connected(l) == /\ Idle /\ host[l] = "connecting"
                /\ host' = [host EXCEPT ![l] = "connected"]
                /\ stats' = [stats EXCEPT !.connected = @ + 1]
                /\ UNCHANGED <<program, loopVars, current_running, exited>>

Bail(l, h, st) == /\ host' = [host EXCEPT ![l] = h]
                  /\ stats' = [st EXCEPT !.timed_out = @ + 1]
                  /\ decrement_cur_running
                  /\ UNCHANGED <<program, unread, buffer, due, eof, stdin_closed>>

\* connect_cb, no connection in time or an error
ConnectFailed(l) ==
  /\ Idle /\ host[l] = "connecting"
  /\ Bail(l, "conn_timeout", [stats EXCEPT !.conn_timed_out = @ + 1])

\* event_cb: no data in time, an error, or closed without data
ReadFailed(l) ==
  /\ Idle /\ host[l] = "connected"
  /\ Bail(l, "read_timeout", [stats EXCEPT !.read_timed_out = @ + 1])

\* read_cb
Banner(l) == /\ Idle /\ host[l] = "connected"
             /\ host' = [host EXCEPT ![l] = "banner"]
             /\ stats' = [stats EXCEPT !.completed = @ + 1]
             /\ decrement_cur_running
             /\ UNCHANGED <<program, unread, buffer, due, eof, stdin_closed>>

Ends(l) == ConnectFailed(l) \/ ReadFailed(l) \/ Banner(l)
Stdin == Arrive \/ EndOfInput \/ StdinReadcb \/ StdinEventcb
ReadLoop == Connect \/ Forge \/ Refuse \/ Skip \/ Return
Next == \/ Stdin \/ ReadLoop
        \/ \E l \in Line : Connected(l) \/ Ends(l)

\* libevent serves its events, and every connection has a timeout
Spec == /\ Init /\ [][Next]_vars
        /\ WF_vars(Stdin) /\ WF_vars(ReadLoop)
        /\ \A l \in Line : WF_vars(Ends(l))

-----------------------------------------------------------------------------
With(S) == {l \in Line : host[l] \in S}

GrabTypeOK ==
  /\ program \in Programs
  /\ unread \in 0 .. Lines /\ buffer \in 0 .. Lines /\ frames \in 0 .. Lines
  /\ due \subseteq {"read", "event"} /\ eof \in BOOLEAN
  /\ reading \in BOOLEAN /\ stdin_closed \in BOOLEAN /\ exited \in BOOLEAN
  /\ current_running \in 0 .. Max
  /\ host \in [Line -> {"unread"} \cup Open \cup Outcome]
  /\ stats \in [{"init_connected", "connected", "conn_timed_out",
                 "read_timed_out", "timed_out", "completed"} -> 0 .. Lines]

\* The slots in use are the connections that are open, however deep the calls
\* of stdin_readcb and decrement_cur_running are nested; and the statistics
\* add up to the lines tried.
SlotsExact ==
  /\ current_running = Cardinality(With(Open))
  /\ stats.timed_out = stats.conn_timed_out + stats.read_timed_out
  /\ stats.init_connected = current_running + stats.timed_out + stats.completed
                              + Cardinality(With({"refused"}))

\* Between callbacks no line waits while a slot is free, unless stdin_readcb is
\* about to be called: nothing else would ever come back to that line once the
\* pipe has ended.
NoIdleSlot == Idle /\ "read" \notin due => buffer = 0 \/ current_running = Max

\* The three together: what the nested callbacks count, and leave unread, is
\* right whenever the event loop is back.
GrabInv == GrabTypeOK /\ SlotsExact /\ NoIdleSlot

\* The grabber reads every line once, has at most max_concurrent connections,
\* and ends when stdin has ended and every connection has.
Promise == INSTANCE GrabPromise
             WITH Address <- Line, Limit <- Max,
                  waiting <- With({"unread"}), open <- With(Open),
                  ended <- {}, over <- exited

PromiseKept == Promise!Spec
=============================================================================
