------------------------------ MODULE BannerGo ------------------------------
(***************************************************************************)
(* The goroutines of examples/banner-grab-go/banner.go: main reads         *)
(* addresses into addrChan, N grabbers take them from there and put results*)
(* into resultChan, output prints those; every grabber and then output     *)
(* write to doneChan, which main counts.  A channel has room for N values. *)
(* main's return ends the program, whoever is still running.               *)
(***************************************************************************)
EXTENDS Integers, FiniteSets, Sequences, SequencesExt

CONSTANTS N,        \* *nConnectFlag
          Lines     \* how many lines stdin has before it ends

ASSUME GoAssumption == N \in Nat \ {0} /\ Lines \in Nat

VARIABLES mpc, unread, counted,    \* main, lines to read, values taken from doneChan
          gpc, addr,               \* per grabber, and the address in its hands
          opc, printed,            \* output, and the addresses it printed, in order
          addrChan, resultChan,    \* [queue, closed]
          doneChan                 \* how many values are in it

vars == <<mpc, unread, counted, gpc, addr, opc, printed,
          addrChan, resultChan, doneChan>>

Grabber == 1 .. N
Line    == 1 .. Lines
NoLine  == 0

Init == /\ mpc = "scan" /\ unread = Lines /\ counted = 0
        /\ gpc = [g \in Grabber |-> "take"] /\ addr = [g \in Grabber |-> NoLine]
        /\ opc = "take" /\ printed = <<>>
        /\ addrChan = [queue |-> <<>>, closed |-> FALSE]
        /\ resultChan = [queue |-> <<>>, closed |-> FALSE]
        /\ doneChan = 0

Running == mpc # "exited"

Room(ch) == Len(ch.queue) < N
Drained(ch) == ch.closed /\ ch.queue = <<>>
Put(ch, x) == [ch EXCEPT !.queue = Append(@, x)]
Taken(ch)  == [ch EXCEPT !.queue = Tail(@)]
Close(ch)  == [ch EXCEPT !.closed = TRUE]

-----------------------------------------------------------------------------
(* grabber *)

Take(g) == /\ Running /\ gpc[g] = "take" /\ addrChan.queue # <<>>
           /\ addr' = [addr EXCEPT ![g] = Head(addrChan.queue)]
           /\ addrChan' = Taken(addrChan)
           /\ gpc' = [gpc EXCEPT ![g] = "grab"]
           /\ UNCHANGED <<mpc, unread, counted, opc, printed, resultChan, doneChan>>

\* every way to succeed or to fail puts one result into resultChan
Grab(g) == /\ Running /\ gpc[g] = "grab" /\ Room(resultChan)
           /\ resultChan' = Put(resultChan, addr[g])
           /\ addr' = [addr EXCEPT ![g] = NoLine]
           /\ gpc' = [gpc EXCEPT ![g] = "take"]
           /\ UNCHANGED <<mpc, unread, counted, opc, printed, addrChan, doneChan>>

GrabberDone(g) == /\ Running /\ gpc[g] = "take" /\ Drained(addrChan)
                  /\ doneChan < N
                  /\ doneChan' = doneChan + 1
                  /\ gpc' = [gpc EXCEPT ![g] = "exited"]
                  /\ UNCHANGED <<mpc, unread, counted, addr, opc, printed,
                                 addrChan, resultChan>>

-----------------------------------------------------------------------------
(* output *)

Output == /\ Running /\ opc = "take" /\ resultChan.queue # <<>>
          /\ printed' = Append(printed, Head(resultChan.queue))
          /\ resultChan' = Taken(resultChan)
          /\ UNCHANGED <<mpc, unread, counted, gpc, addr, opc, addrChan, doneChan>>

OutputDone == /\ Running /\ opc = "take" /\ Drained(resultChan) /\ doneChan < N
              /\ doneChan' = doneChan + 1 /\ opc' = "exited"
              /\ UNCHANGED <<mpc, unread, counted, gpc, addr, printed,
                             addrChan, resultChan>>

-----------------------------------------------------------------------------
(* main *)

Scan == /\ mpc = "scan" /\ unread > 0 /\ Room(addrChan)
        /\ addrChan' = Put(addrChan, Lines - unread + 1)
        /\ unread' = unread - 1
        /\ UNCHANGED <<mpc, counted, gpc, addr, opc, printed, resultChan, doneChan>>

CloseAddr == /\ mpc = "scan" /\ unread = 0
             /\ addrChan' = Close(addrChan) /\ mpc' = "wait"
             /\ UNCHANGED <<unread, counted, gpc, addr, opc, printed,
                            resultChan, doneChan>>

\* Mutant: main waits for one grabber less.
Enough == N - 1
Expected == N

WaitGrabber == /\ mpc = "wait" /\ counted < Expected /\ doneChan > 0
               /\ doneChan' = doneChan - 1 /\ counted' = counted + 1
               /\ UNCHANGED <<mpc, unread, gpc, addr, opc, printed,
                              addrChan, resultChan>>

\* Mutant: main does not close resultChan, and waits for output.
KeepOpen == /\ mpc = "wait" /\ counted = Expected
            /\ mpc' = "last"
            /\ UNCHANGED <<unread, counted, gpc, addr, opc, printed,
                           addrChan, resultChan, doneChan>>

CloseResult == /\ mpc = "wait" /\ counted = Expected
               /\ resultChan' = Close(resultChan) /\ mpc' = "last"
               /\ UNCHANGED <<unread, counted, gpc, addr, opc, printed,
                              addrChan, doneChan>>

Exit == /\ mpc = "last" /\ doneChan > 0
        /\ doneChan' = doneChan - 1 /\ mpc' = "exited"
        /\ UNCHANGED <<unread, counted, gpc, addr, opc, printed,
                       addrChan, resultChan>>

Main == Scan \/ CloseAddr \/ WaitGrabber \/ CloseResult \/ Exit
Step(g) == Take(g) \/ Grab(g) \/ GrabberDone(g)
Next == Main \/ Output \/ OutputDone \/ \E g \in Grabber : Step(g)

\* goroutines are scheduled, and a grabber has a deadline
Spec == /\ Init /\ [][Next]_vars
        /\ WF_vars(Main) /\ WF_vars(Output \/ OutputDone)
        /\ \A g \in Grabber : WF_vars(Step(g))

-----------------------------------------------------------------------------
GoTypeOK ==
  /\ mpc \in {"scan", "wait", "last", "exited"}
  /\ unread \in 0 .. Lines /\ counted \in 0 .. N /\ doneChan \in 0 .. N
  /\ gpc \in [Grabber -> {"take", "grab", "exited"}]
  /\ addr \in [Grabber -> Line \cup {NoLine}]
  /\ opc \in {"take", "exited"}
  /\ Range(printed) \subseteq Line
  /\ \A ch \in {addrChan, resultChan} :
       /\ Range(ch.queue) \subseteq Line /\ Len(ch.queue) <= N
       /\ ch.closed \in BOOLEAN

\* Grabbers and output write to one doneChan that main counts: what it counts
\* before it closes resultChan are grabbers, so that nothing is put into a
\* closed channel (which ends a Go program).
ClosedAfterLast ==
  /\ GoTypeOK
  /\ resultChan.closed => \A g \in Grabber : gpc[g] = "exited"

\* The program prints every address that it reads once, has N connections
\* at most, and returns when it has printed the last.
Promise == INSTANCE GrabPromise
             WITH Address <- Line, Limit <- N,
                  waiting <- Line \ (Range(addr) \cup Range(resultChan.queue)
                                                \cup Range(printed)),
                  open  <- {l \in Line : \E g \in Grabber : addr[g] = l},
                  ended <- Range(resultChan.queue),
                  over  <- mpc = "exited"

PromiseKept == Promise!Spec
=============================================================================
