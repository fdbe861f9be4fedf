----------------------- MODULE ServerLifecycle_proof -----------------------
(***************************************************************************)
(* Proofs about the server's shutdown, for any number of connections and   *)
(* any durations.                                                          *)
(***************************************************************************)
EXTENDS ServerLifecycle, TLAPS

(* What has reached Serve is what the listener returned, and it returns    *)
(* ErrServerClosed to nobody but a Serve that is no longer waiting for it. *)
ListenerInv ==
  /\ listener \in {"starting", "serving"} => lastErr = "none"
  /\ listener \in {"sending", "ended"} => lastErr # "none"
  /\ errCh # <<>> => listener = "ended" /\ errCh = <<lastErr>>
  /\ lastErr = "closed" => Stopping
  /\ serve \in {"waiting", "draining"} => result = "none"
  /\ serve = "returned" => result # "none"
  /\ Stopping => canceled
  /\ result = "listen" => lastErr = "failed"

(* During a drain no connection is idle or cut yet, and the time a request *)
(* has left and the time the drain has taken add up to what it needed.     *)
ConnInv(c) ==
  /\ serve = "draining" => conn[c] # "idle"
  /\ serve \in {"waiting", "draining"} => conn[c] # "cut"
  /\ serve = "draining" /\ conn[c] = "running" => needed[c] = left[c] + (Window - window)
  /\ serve = "returned" /\ Stopping => conn[c] \in {"none", "cut"}
  /\ conn[c] = "cut" => needed[c] >= Window

(* The inductive invariant.                                                *)
Inv == TypeOK /\ ListenerInv /\ \A c \in Conns : ConnInv(c)

----------------------------------------------------------------------------
LEMMA InitInv == Init => Inv
<1> SUFFICES ASSUME Init PROVE Inv
  OBVIOUS
<1>1. TypeOK
  <2>1. /\ LookupTimeout \in 0..LookupTimeout /\ Window \in 0..Window
        /\ 0 \in 0..LookupTimeout + Window
    BY LifecycleAssumption
  <2>2. left \in [Conns -> 0..LookupTimeout] /\ window \in 0..Window
        /\ needed \in [Conns -> 0..LookupTimeout + Window]
    BY <2>1 DEF Init
  <2> QED  BY <2>2 DEF Init, TypeOK
<1>2. ListenerInv
  BY DEF Init, ListenerInv, Stopping
<1>3. \A c \in Conns : ConnInv(c)
  BY DEF Init, ConnInv
<1> QED  BY <1>1, <1>2, <1>3 DEF Inv

LEMMA CancelInv == Inv /\ Cancel => Inv'
  BY DEF Inv, Cancel, server, requests, TypeOK, ListenerInv, ConnInv, Stopping

LEMMA TickInv == Inv /\ Tick => Inv'
<1> SUFFICES ASSUME Inv, Tick PROVE Inv'
  OBVIOUS
<1>1. TypeOK'
  <2>1. left' \in [Conns -> 0..LookupTimeout]
    BY LifecycleAssumption DEF Inv, Tick, TypeOK
  <2>2. window' \in 0..Window
    BY LifecycleAssumption DEF Inv, Tick, TypeOK
  <2> QED  BY <2>1, <2>2 DEF Inv, Tick, TypeOK
<1>2. ListenerInv'
  BY DEF Inv, Tick, ListenerInv, Stopping
<1>3. ASSUME NEW c \in Conns PROVE ConnInv(c)'
  BY <1>3, LifecycleAssumption DEF Inv, Tick, TypeOK, ConnInv, Stopping
<1> QED  BY <1>1, <1>2, <1>3 DEF Inv

----------------------------------------------------------------------------
(* The steps of the listener leave Serve and the connections alone.        *)
LEMMA ListenerStepInv ==
  ASSUME Inv, Listen \/ ListenFails \/ ListenClosed \/ Send
  PROVE  Inv'
<1>1. UNCHANGED <<canceled, serve, result, window, conn, left, needed>>
  BY DEF Listen, ListenFails, ListenClosed, ListenerReturns, Send, requests
<1>2. \A c \in Conns : ConnInv(c)'
  BY <1>1 DEF Inv, ConnInv, Stopping
<1>3. CASE Listen
  BY <1>1, <1>2, <1>3 DEF Inv, Listen, TypeOK, ListenerInv, Stopping
<1>4. ASSUME NEW error \in {"failed", "closed"}, ListenerReturns(error),
             listener \in {"starting", "serving"}, error = "closed" => Stopping
      PROVE  Inv'
  BY <1>1, <1>2, <1>4 DEF Inv, ListenerReturns, TypeOK, ListenerInv, Stopping
<1>5. CASE ListenFails
  BY <1>4, <1>5 DEF ListenFails
<1>6. CASE ListenClosed
  BY <1>4, <1>6 DEF ListenClosed
<1>7. CASE Send
  <2>1. errCh = <<>> /\ errCh' = <<lastErr>> /\ listener = "sending"
        /\ listener' = "ended" /\ UNCHANGED lastErr
    <3>1. listener = "sending" /\ errCh = <<>>
      BY <1>7 DEF Send, Inv, ListenerInv
    <3>2. Append(<<>>, lastErr) = <<lastErr>>
      OBVIOUS
    <3> QED  BY <1>7, <3>1, <3>2 DEF Send
  <2> QED  BY <1>1, <1>2, <2>1 DEF Inv, TypeOK, ListenerInv, Stopping
<1> QED  BY <1>3, <1>5, <1>6, <1>7

----------------------------------------------------------------------------
(* An error is received from a listener that failed: one that was closed   *)
(* was closed by a Serve that had stopped waiting.                         *)
LEMMA ReceiveInv == Inv /\ Receive => Inv'
<1> SUFFICES ASSUME Inv, Receive PROVE Inv'
  OBVIOUS
<1>1. errCh = <<lastErr>> /\ lastErr = "failed" /\ listener = "ended"
  BY DEF Inv, TypeOK, ListenerInv, Receive, Stopping
<1>2. errCh' = <<>> /\ result' = "listen"
  BY <1>1 DEF Receive
<1>3. UNCHANGED <<canceled, listener, lastErr, window, conn, left, needed>>
      /\ serve = "waiting" /\ serve' = "returned"
  BY DEF Receive, requests
<1>4. TypeOK'
  BY <1>2, <1>3 DEF Inv, TypeOK
<1>5. ListenerInv'
  BY <1>1, <1>2, <1>3 DEF Inv, ListenerInv, Stopping
<1>6. \A c \in Conns : ConnInv(c)'
  BY <1>2, <1>3 DEF Inv, ConnInv, Stopping
<1> QED  BY <1>4, <1>5, <1>6 DEF Inv

(* Nothing has been cut before the shutdown begins.                        *)
LEMMA BeginShutdownInv == Inv /\ BeginShutdown => Inv'
<1> SUFFICES ASSUME Inv, BeginShutdown PROVE Inv'
  OBVIOUS
<1>1. TypeOK'
  <2>1. conn' \in [Conns -> {"none", "new", "idle", "running", "cut"}]
    BY DEF Inv, BeginShutdown, TypeOK
  <2>2. needed' \in [Conns -> 0..LookupTimeout + Window]
    BY LifecycleAssumption DEF Inv, BeginShutdown, TypeOK
  <2> QED  BY <2>1, <2>2, LifecycleAssumption DEF Inv, BeginShutdown, TypeOK
<1>2. ListenerInv'
  BY DEF Inv, BeginShutdown, ListenerInv, Stopping
<1>3. ASSUME NEW c \in Conns PROVE ConnInv(c)'
  <2>1. left[c] \in Nat /\ Window \in Nat
    BY <1>3, LifecycleAssumption DEF Inv, TypeOK
  <2>2. conn'[c] = IF conn[c] = "idle" THEN "none" ELSE conn[c]
    BY <1>3 DEF BeginShutdown
  <2>3. needed'[c] = left'[c] + (Window - window') /\ serve' = "draining"
    BY <2>1 DEF BeginShutdown
  <2>4. conn[c] # "cut"
    BY <1>3 DEF Inv, ConnInv, BeginShutdown
  <2> QED  BY <2>2, <2>3, <2>4 DEF ConnInv
<1> QED  BY <1>1, <1>2, <1>3 DEF Inv

LEMMA DrainedInv == Inv /\ Drained => Inv'
<1> SUFFICES ASSUME Inv, Drained PROVE Inv'
  OBVIOUS
<1>1. TypeOK'
  BY DEF Inv, Drained, TypeOK, requests
<1>2. ListenerInv'
  BY DEF Inv, Drained, ListenerInv, Stopping
<1>3. \A c \in Conns : ConnInv(c)'
  BY DEF Inv, Drained, ConnInv, requests
<1> QED  BY <1>1, <1>2, <1>3 DEF Inv

(* With nothing left of the window, what a request that is cut needed is   *)
(* what it has left and the whole window.                                  *)
LEMMA ForceCloseInv == Inv /\ ForceClose => Inv'
<1> SUFFICES ASSUME Inv, ForceClose PROVE Inv'
  OBVIOUS
<1>1. TypeOK'
  <2>1. conn' \in [Conns -> {"none", "new", "idle", "running", "cut"}]
    BY DEF Inv, ForceClose, TypeOK
  <2> QED  BY <2>1 DEF Inv, ForceClose, TypeOK
<1>2. ListenerInv'
  BY DEF Inv, ForceClose, ListenerInv, Stopping
<1>3. ASSUME NEW c \in Conns PROVE ConnInv(c)'
  <2>1. left[c] \in Nat /\ Window \in Nat /\ window = 0
    BY <1>3, LifecycleAssumption DEF Inv, TypeOK, ForceClose
  <2>2. conn[c] = "running" => needed[c] >= Window
    BY <1>3, <2>1 DEF Inv, ConnInv, ForceClose
  <2>3. /\ conn'[c] = IF conn[c] \in {"running", "cut"} THEN "cut" ELSE "none"
        /\ serve = "draining" /\ serve' = "returned" /\ UNCHANGED needed
    BY <1>3 DEF ForceClose
  <2>4. conn[c] # "cut"
    BY <1>3, <2>3 DEF Inv, ConnInv
  <2> QED  BY <2>2, <2>3, <2>4 DEF ConnInv
<1> QED  BY <1>1, <1>2, <1>3 DEF Inv

----------------------------------------------------------------------------
(* A step of one connection leaves Serve, the listener and the others      *)
(* alone.                                                                  *)
LEMMA ConnStep ==
  ASSUME Inv, NEW c \in Conns, UNCHANGED <<canceled, server>>,
         conn' \in [Conns -> {"none", "new", "idle", "running", "cut"}],
         left' \in [Conns -> 0..LookupTimeout],
         needed' \in [Conns -> 0..LookupTimeout + Window],
         \A d \in Conns \ {c} : conn'[d] = conn[d] /\ left'[d] = left[d]
                                                 /\ needed'[d] = needed[d],
         ConnInv(c)'
  PROVE  Inv'
<1>1. UNCHANGED <<canceled, listener, lastErr, errCh, serve, result, window>>
  BY DEF server
<1>2. TypeOK'
  BY <1>1 DEF Inv, TypeOK
<1>3. ListenerInv'
  BY <1>1 DEF Inv, ListenerInv, Stopping
<1>4. ASSUME NEW d \in Conns \ {c} PROVE ConnInv(d)'
  BY <1>1, <1>4 DEF Inv, ConnInv, Stopping
<1> QED  BY <1>2, <1>3, <1>4 DEF Inv

LEMMA ConnectInv == ASSUME Inv, NEW c \in Conns, Connect(c) PROVE Inv'
<1>1. /\ conn' \in [Conns -> {"none", "new", "idle", "running", "cut"}]
      /\ conn'[c] = "new" /\ \A d \in Conns \ {c} : conn'[d] = conn[d]
  BY DEF Inv, Connect, TypeOK
<1>2. ConnInv(c)'
  BY <1>1 DEF Connect, ConnInv, Stopping, server
<1> QED  BY <1>1, <1>2, ConnStep DEF Inv, Connect, TypeOK

(* A request that begins during the drain may need as long as any other.   *)
LEMMA RequestInv == ASSUME Inv, NEW c \in Conns, Request(c) PROVE Inv'
<1>1. /\ conn' \in [Conns -> {"none", "new", "idle", "running", "cut"}]
      /\ left' \in [Conns -> 0..LookupTimeout]
      /\ needed' \in [Conns -> 0..LookupTimeout + Window]
  BY LifecycleAssumption DEF Inv, Request, TypeOK
<1>2. \A d \in Conns \ {c} : conn'[d] = conn[d] /\ left'[d] = left[d]
                                             /\ needed'[d] = needed[d]
  BY DEF Inv, Request, TypeOK
<1>3. /\ conn'[c] = "running" /\ left'[c] = LookupTimeout
      /\ needed'[c] = left'[c] + (Window - window)
      /\ UNCHANGED <<serve, result, window>>
  BY DEF Inv, Request, TypeOK, server
<1>4. ~(serve = "returned" /\ Stopping)
  BY DEF Inv, ConnInv, Request
<1>5. ConnInv(c)'
  BY <1>3, <1>4 DEF ConnInv, Stopping
<1> QED  BY <1>1, <1>2, <1>5, ConnStep DEF Request

LEMMA HangupInv == ASSUME Inv, NEW c \in Conns, Hangup(c) PROVE Inv'
<1>1. /\ conn' \in [Conns -> {"none", "new", "idle", "running", "cut"}]
      /\ conn'[c] = "none" /\ \A d \in Conns \ {c} : conn'[d] = conn[d]
  BY DEF Inv, Hangup, TypeOK
<1>2. ConnInv(c)'
  BY <1>1 DEF ConnInv
<1> QED  BY <1>1, <1>2, ConnStep DEF Inv, Hangup, TypeOK

LEMMA AnswerInv == ASSUME Inv, NEW c \in Conns, Answer(c) PROVE Inv'
<1>1. /\ conn' \in [Conns -> {"none", "new", "idle", "running", "cut"}]
      /\ conn'[c] = IF conn[c] = "cut" \/ Stopping THEN "none" ELSE "idle"
      /\ \A d \in Conns \ {c} : conn'[d] = conn[d]
  BY DEF Inv, Answer, TypeOK
<1>2. serve' = "draining" => Stopping
  BY DEF Inv, ListenerInv, Answer, server, Stopping
<1>3. ConnInv(c)'
  BY <1>1, <1>2 DEF Answer, ConnInv, Stopping, server
<1> QED  BY <1>1, <1>3, ConnStep DEF Inv, Answer, TypeOK

----------------------------------------------------------------------------
LEMMA NextInv == Inv /\ [Next]_vars => Inv'
<1> SUFFICES ASSUME Inv, [Next]_vars PROVE Inv'
  OBVIOUS
<1>1. CASE Cancel \/ Tick
  BY <1>1, CancelInv, TickInv
<1>2. CASE Listen \/ ListenFails \/ ListenClosed \/ Send
  BY <1>2, ListenerStepInv
<1>3. CASE Receive \/ BeginShutdown \/ Drained \/ ForceClose
  BY <1>3, ReceiveInv, BeginShutdownInv, DrainedInv, ForceCloseInv
<1>4. ASSUME NEW c \in Conns, Connect(c) \/ Request(c) \/ Hangup(c) \/ Answer(c)
      PROVE  Inv'
  BY <1>4, ConnectInv, RequestInv, HangupInv, AnswerInv
<1>5. CASE UNCHANGED vars
  BY <1>5 DEF vars, server, requests, Inv, TypeOK, ListenerInv, ConnInv, Stopping
<1> QED  BY <1>1, <1>2, <1>3, <1>4, <1>5 DEF Next

(* The inductive invariant holds of every run of the server.               *)
THEOREM Invariance == Spec => []Inv
  BY InitInv, NextInv, PTL DEF Spec

(* The channel never holds more than the listener's one error, and no      *)
(* duration is overrun.                                                    *)
THEOREM TypeCorrect == Spec => []TypeOK
<1>1. Inv => TypeOK
  BY DEF Inv
<1> QED  BY <1>1, Invariance, PTL

(* Serve succeeds only when told to stop, and reports a listener that      *)
(* failed unless it was.                                                   *)
THEOREM ResultsAreHonest == Spec => []ResultHonest
<1>1. Inv => ResultHonest
  BY DEF Inv, ListenerInv, ResultHonest, Stopping
<1> QED  BY <1>1, Invariance, PTL

(* After a shutdown no connection is open and no request runs unaware.     *)
THEOREM ShutdownsLeaveNothing == Spec => []ShutdownLeavesNothing
<1>1. Inv => ShutdownLeavesNothing
  BY DEF Inv, ConnInv, ShutdownLeavesNothing
<1> QED  BY <1>1, Invariance, PTL

(* A request that ends within the window is not cut off, whatever the      *)
(* window and lookupTimeout are.                                           *)
THEOREM OnlyLongerRequestsAreCut == Spec => []CutOnlyIfLonger
<1>1. Inv => CutOnlyIfLonger
  BY DEF Inv, ConnInv, CutOnlyIfLonger
<1> QED  BY <1>1, Invariance, PTL

----------------------------------------------------------------------------
(* Why a shutdown ends *)

(* The listener's goroutine finds room in errCh whenever it has an error:  *)
(* with a capacity of 1 it never waits, be Serve gone or not.              *)
THEOREM ListenerNeverWaits == Spec => [](listener = "sending" => errCh = <<>>)
<1>1. Inv => (listener = "sending" => errCh = <<>>)
  BY DEF Inv, ListenerInv
<1> QED  BY <1>1, Invariance, PTL

(* What each party has ahead of it at most: steps, and the time it may     *)
(* take.                                                                   *)
ListenerAhead ==
  CASE listener = "starting" -> 3
    [] listener = "serving" -> 2
    [] listener = "sending" -> 1
    [] listener = "ended" -> 0

ServeAhead ==
  CASE serve = "waiting" -> Window + 2
    [] serve = "draining" -> window + 1
    [] serve = "returned" -> 0

(* A connection without a request may still make one, but not two.         *)
ConnAhead(c) ==
  CASE conn[c] \in {"new", "idle"} -> LookupTimeout + 3
    [] conn[c] = "running" -> left[c] + 2
    [] conn[c] = "cut" -> 1
    [] conn[c] = "none" -> 0

ServerAdvances ==
  /\ listener' # listener => ListenerAhead' < ListenerAhead
  /\ <<serve, window>>' # <<serve, window>> => ServeAhead' < ServeAhead

ConnAdvances(c) ==
  <<conn[c], left[c]>>' # <<conn[c], left[c]>> => ConnAhead(c)' < ConnAhead(c)

LEMMA AheadTypes ==
  ASSUME Inv
  PROVE  /\ ListenerAhead \in 0..3
         /\ ServeAhead \in 0..Window + 2
         /\ \A c \in Conns : ConnAhead(c) \in 0..LookupTimeout + 3
<1>1. ListenerAhead \in 0..3
  BY DEF Inv, TypeOK, ListenerAhead
<1>2. ServeAhead \in 0..Window + 2
  BY LifecycleAssumption DEF Inv, TypeOK, ServeAhead
<1>3. ASSUME NEW c \in Conns PROVE ConnAhead(c) \in 0..LookupTimeout + 3
  <2>1. left[c] \in 0..LookupTimeout /\ conn[c] \in {"none", "new", "idle", "running", "cut"}
    BY DEF Inv, TypeOK
  <2> QED  BY <2>1, LifecycleAssumption DEF ConnAhead
<1> QED  BY <1>1, <1>2, <1>3

LEMMA ServerStepAdvances ==
  ASSUME Inv, Next
  PROVE  ServerAdvances
<1>1. CASE Cancel \/ \E c \in Conns : Connect(c) \/ Request(c) \/ Hangup(c) \/ Answer(c)
  BY <1>1 DEF Cancel, Connect, Request, Hangup, Answer, server, ServerAdvances
<1>2. CASE Tick
  BY <1>2 DEF Tick, Inv, TypeOK, ServerAdvances, ServeAhead
<1>3. CASE Listen \/ ListenFails \/ ListenClosed \/ Send
  <2>1. UNCHANGED <<serve, window>>
    BY <1>3 DEF Listen, ListenFails, ListenClosed, ListenerReturns, Send
  <2>2. ListenerAhead' < ListenerAhead
    BY <1>3 DEF Listen, ListenFails, ListenClosed, ListenerReturns, Send, ListenerAhead
  <2> QED  BY <2>1, <2>2 DEF ServerAdvances
<1>4. CASE Receive \/ BeginShutdown \/ Drained \/ ForceClose
  <2>1. /\ UNCHANGED listener
        /\ \/ serve = "waiting" /\ serve' = "draining" /\ window' = Window
           \/ serve \in {"waiting", "draining"} /\ serve' = "returned"
    BY <1>4 DEF Receive, BeginShutdown, Drained, ForceClose
  <2>2. ServeAhead' < ServeAhead
    BY <2>1, LifecycleAssumption DEF Inv, TypeOK, ServeAhead
  <2> QED  BY <2>1, <2>2 DEF ServerAdvances
<1> QED  BY <1>1, <1>2, <1>3, <1>4 DEF Next

(* Nothing undoes a shutdown.                                              *)
LEMMA StoppingStays == ASSUME Inv, Next, Stopping PROVE Stopping'
<1>1. CASE Receive \/ BeginShutdown
  BY <1>1 DEF Receive, BeginShutdown, Stopping, Inv, ListenerInv
<1>2. CASE Drained \/ ForceClose
  BY <1>2 DEF Drained, ForceClose, Stopping
<1>3. CASE Cancel \/ Tick \/ Listen \/ ListenFails \/ ListenClosed \/ Send
  BY <1>3 DEF Cancel, Tick, Listen, ListenFails, ListenClosed, ListenerReturns, Send, server,
              Stopping
<1>4. CASE \E c \in Conns : Connect(c) \/ Request(c) \/ Hangup(c) \/ Answer(c)
  BY <1>4 DEF Connect, Request, Hangup, Answer, server, Stopping
<1> QED  BY <1>1, <1>2, <1>3, <1>4 DEF Next

LEMMA ConnStepAdvances ==
  ASSUME Inv, Next, Stopping, NEW c \in Conns
  PROVE  ConnAdvances(c)
<1>1. left[c] \in 0..LookupTimeout /\ conn[c] \in {"none", "new", "idle", "running", "cut"}
  BY DEF Inv, TypeOK
<1>2. CASE Tick
  <2>1. conn'[c] = conn[c] /\ left'[c] = IF conn[c] = "running" THEN left[c] - 1 ELSE left[c]
    BY <1>2 DEF Tick
  <2> QED  BY <1>1, <2>1 DEF ConnAdvances, ConnAhead
<1>3. CASE ForceClose
  <2>1. left'[c] = left[c] /\ conn'[c] = IF conn[c] \in {"running", "cut"} THEN "cut" ELSE "none"
    BY <1>3 DEF ForceClose
  <2> QED  BY <1>1, <2>1, LifecycleAssumption DEF ConnAdvances, ConnAhead
<1>4. CASE Cancel \/ Listen \/ ListenFails \/ ListenClosed \/ Send \/ Receive \/ Drained
  BY <1>4 DEF Cancel, Listen, ListenFails, ListenClosed, ListenerReturns, Send, Receive, Drained,
              requests, ConnAdvances
<1>5. ~BeginShutdown
  BY DEF BeginShutdown, Stopping
<1>6. ASSUME NEW d \in Conns, Connect(d) \/ Request(d) \/ Hangup(d) \/ Answer(d)
      PROVE  ConnAdvances(c)
  <2>1. CASE c # d
    BY <1>6, <2>1 DEF Connect, Request, Hangup, Answer, Inv, TypeOK, ConnAdvances
  <2>2. CASE c = d
    <3>1. ~Connect(d)
      BY DEF Connect
    <3>2. \/ conn[c] \in {"new", "idle"} /\ conn'[c] = "running" /\ left'[c] = LookupTimeout
          \/ conn[c] # "none" /\ conn'[c] = "none" /\ left'[c] = left[c]
      BY <1>6, <2>2, <3>1 DEF Request, Hangup, Answer, Inv, TypeOK
    <3> QED  BY <1>1, <3>2, LifecycleAssumption DEF ConnAdvances, ConnAhead
  <2> QED  BY <2>1, <2>2
<1> QED  BY <1>2, <1>3, <1>4, <1>5, <1>6 DEF Next

(* A server that is told to stop only goes forward: the listener and Serve *)
(* never return to what they have left, the window is not renewed, and     *)
(* from the start of the shutdown on no connection is opened or serves     *)
(* more than one further request.  Every step of any of them, and every    *)
(* tick it has to wait, brings it nearer to its end.                       *)
THEOREM ShutdownOnlyAdvances ==
  Spec => /\ [](/\ ListenerAhead \in 0..3
                /\ ServeAhead \in 0..Window + 2
                /\ \A c \in Conns : ConnAhead(c) \in 0..LookupTimeout + 3)
          /\ [][ServerAdvances]_vars
          /\ [][Stopping => Stopping' /\ \A c \in Conns : ConnAdvances(c)]_vars
<1>1. Inv /\ [Next]_vars => [ServerAdvances]_vars
  BY ServerStepAdvances
<1>2. Inv /\ [Next]_vars => [Stopping => Stopping' /\ \A c \in Conns : ConnAdvances(c)]_vars
  BY StoppingStays, ConnStepAdvances
<1> QED  BY <1>1, <1>2, AheadTypes, Invariance, PTL DEF Spec

============================================================================
