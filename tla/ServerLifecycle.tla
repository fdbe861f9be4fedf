-------------------------- MODULE ServerLifecycle --------------------------
(***************************************************************************)
(* How the server stops: Serve of internal/web/server.go, the goroutine it *)
(* starts for ListenAndServe, and the requests in progress.                *)
(*                                                                         *)
(* Serve waits for the listener's error or for its context, whichever      *)
(* comes first; in the latter case it shuts the server down and, when the  *)
(* window has passed, closes the connections that are still busy.          *)
(*                                                                         *)
(* net/http is modelled by what Serve relies on: Shutdown stops the        *)
(* listener, closes idle connections and waits for the others; a           *)
(* connection that is closed cancels the context of its request; a         *)
(* listener fails when it starts or later, or ends with ErrServerClosed.   *)
(* Time is what is left of the durations that run.                         *)
(***************************************************************************)
EXTENDS Integers, Sequences

CONSTANTS
  Conns,          \* connections open at a time
  LookupTimeout,  \* lookupTimeout: no request takes longer
  Window          \* the timeout of shutdownCtx

ASSUME LifecycleAssumption ==
  /\ LookupTimeout \in Nat \ {0}
  /\ Window \in Nat \ {0}

VARIABLES
  canceled,  \* ctx: a signal has arrived
  listener,  \* the goroutine: starting, serving, sending (its error), ended
  lastErr,   \* what ListenAndServe returned
  errCh,     \* buffered, of capacity 1
  serve,     \* Serve: waiting, draining, returned
  result,    \* what Serve returned
  window,    \* what is left of shutdownCtx
  conn,      \* none, new (no request yet), idle, running, cut
  left,      \* what is left of a running request's timeout
  needed     \* history: how long after the start of the shutdown a running
             \* request may still take

server == <<listener, lastErr, errCh, serve, result, window>>
requests == <<conn, left, needed>>
vars == <<canceled, server, requests>>

(* srv.inShutdown *)
Stopping == serve # "waiting" /\ result # "listen"

----------------------------------------------------------------------------
(* Seeded faults. *)

(* errCh has no buffer: only a Serve that waits takes the error. *)
SendUnbuffered ==
  /\ listener = "sending"
  /\ serve = "waiting"
  /\ errCh' = Append(errCh, lastErr)
  /\ listener' = "ended"
  /\ UNCHANGED <<canceled, lastErr, serve, result, window, requests>>

(* Any error of the listener is taken for the end of a shutdown. *)
ReceiveAsClosed ==
  /\ serve = "waiting"
  /\ errCh # <<>>
  /\ errCh' = Tail(errCh)
  /\ serve' = "returned"
  /\ result' = "nil"
  /\ UNCHANGED <<canceled, listener, lastErr, window, requests>>

(* The window is over, but nothing is closed. *)
ExpireWithoutClose ==
  /\ serve = "draining"
  /\ window = 0
  /\ serve' = "returned"
  /\ result' = "shutdown"
  /\ UNCHANGED <<canceled, listener, lastErr, errCh, window, requests>>

(* Connections are closed while the shutdown could still wait for them: it *)
(* was given the context that has been canceled, not a new one. *)
CloseAtOnce ==
  /\ serve = "draining"
  /\ serve' = "returned"
  /\ result' = "shutdown"
  /\ conn' = [c \in Conns |-> IF conn[c] \in {"running", "cut"} THEN "cut" ELSE "none"]
  /\ UNCHANGED <<canceled, listener, lastErr, errCh, window, left, needed>>

----------------------------------------------------------------------------
Init ==
  /\ canceled = FALSE
  /\ listener = "starting"
  /\ lastErr = "none"
  /\ errCh = <<>>
  /\ serve = "waiting"
  /\ result = "none"
  /\ window = Window
  /\ conn = [c \in Conns |-> "none"]
  /\ left = [c \in Conns |-> LookupTimeout]
  /\ needed = [c \in Conns |-> 0]

(* SIGINT or SIGTERM, at any time. *)
Cancel ==
  /\ ~canceled
  /\ canceled' = TRUE
  /\ UNCHANGED <<server, requests>>

----------------------------------------------------------------------------
(* The listener goroutine *)

Listen ==
  /\ listener = "starting"
  /\ ~Stopping
  /\ listener' = "serving"
  /\ UNCHANGED <<canceled, lastErr, errCh, serve, result, window, requests>>

ListenerReturns(error) ==
  /\ listener' = "sending"
  /\ lastErr' = error
  /\ UNCHANGED <<canceled, errCh, serve, result, window, requests>>

(* The address is in use, or a running listener cannot accept any more. *)
ListenFails ==
  /\ listener \in {"starting", "serving"}
  /\ ~Stopping
  /\ ListenerReturns("failed")

(* ErrServerClosed, be it that the listener has not even been opened yet. *)
ListenClosed ==
  /\ listener \in {"starting", "serving"}
  /\ Stopping
  /\ ListenerReturns("closed")

Send ==
  /\ listener = "sending"
  /\ Len(errCh) < 1
  /\ errCh' = Append(errCh, lastErr)
  /\ listener' = "ended"
  /\ UNCHANGED <<canceled, lastErr, serve, result, window, requests>>

----------------------------------------------------------------------------
(* Serve *)

(* The select takes either case if both are ready. *)
Receive ==
  /\ serve = "waiting"
  /\ errCh # <<>>
  /\ errCh' = Tail(errCh)
  /\ serve' = "returned"
  /\ result' = IF Head(errCh) = "closed" THEN "nil" ELSE "listen"
  /\ UNCHANGED <<canceled, listener, lastErr, window, requests>>

BeginShutdown ==
  /\ serve = "waiting"
  /\ canceled
  /\ serve' = "draining"
  /\ window' = Window
  /\ conn' = [c \in Conns |-> IF conn[c] = "idle" THEN "none" ELSE conn[c]]
  /\ needed' = left
  /\ UNCHANGED <<canceled, listener, lastErr, errCh, result, left>>

(* With nothing left open Shutdown returns the error of closing the        *)
(* listener, if that failed; there is then nothing for Close to close.     *)
Drained ==
  /\ serve = "draining"
  /\ \A c \in Conns : conn[c] = "none"
  /\ serve' = "returned"
  /\ result' \in {"nil", "shutdown"}
  /\ UNCHANGED <<canceled, listener, lastErr, errCh, window, requests>>

(* Shutdown returns the context's error, perhaps with nothing left to do. *)
ForceClose ==
  /\ serve = "draining"
  /\ window = 0
  /\ serve' = "returned"
  /\ result' = "shutdown"
  /\ conn' = [c \in Conns |-> IF conn[c] \in {"running", "cut"} THEN "cut" ELSE "none"]
  /\ UNCHANGED <<canceled, listener, lastErr, errCh, window, left, needed>>

----------------------------------------------------------------------------
(* Connections and their requests *)

Connect(c) ==
  /\ listener = "serving"
  /\ ~Stopping
  /\ conn[c] = "none"
  /\ conn' = [conn EXCEPT ![c] = "new"]
  /\ UNCHANGED <<canceled, server, left, needed>>

(* A connection on which nothing has been asked yet is not closed by the   *)
(* shutdown, and may still ask. *)
Request(c) ==
  /\ conn[c] \in {"new", "idle"}
  /\ conn' = [conn EXCEPT ![c] = "running"]
  /\ left' = [left EXCEPT ![c] = LookupTimeout]
  /\ needed' = [needed EXCEPT ![c] = LookupTimeout + (Window - window)]
  /\ UNCHANGED <<canceled, server>>

(* The client leaves, or ReadHeaderTimeout does not wait for it. *)
Hangup(c) ==
  /\ conn[c] \in {"new", "idle"}
  /\ conn' = [conn EXCEPT ![c] = "none"]
  /\ UNCHANGED <<canceled, server, left, needed>>

(* The handler returns; a server that stops does not keep connections. *)
Answer(c) ==
  /\ conn[c] \in {"running", "cut"}
  /\ conn' = [conn EXCEPT ![c] = IF conn[c] = "cut" \/ Stopping THEN "none" ELSE "idle"]
  /\ UNCHANGED <<canceled, server, left, needed>>

(* Its context is done: lookupTimeout, or the connection was closed. *)
Interrupted(c) ==
  /\ conn[c] = "cut" \/ left[c] = 0
  /\ Answer(c)

(* Time does not pass a deadline before what it ends has noticed. *)
Tick ==
  /\ \A c \in Conns : conn[c] = "running" => left[c] > 0
  /\ serve = "draining" => window > 0
  /\ left' = [c \in Conns |-> IF conn[c] = "running" THEN left[c] - 1 ELSE left[c]]
  /\ window' = IF serve = "draining" THEN window - 1 ELSE window
  /\ UNCHANGED <<canceled, listener, lastErr, errCh, serve, result, conn, needed>>

----------------------------------------------------------------------------
Next ==
  \/ Cancel \/ Tick
  \/ Listen \/ ListenFails \/ ListenClosed \/ Send
  \/ Receive \/ BeginShutdown \/ Drained \/ ForceClose
  \/ \E c \in Conns : Connect(c) \/ Request(c) \/ Hangup(c) \/ Answer(c)

Spec == Init /\ [][Next]_vars

(* The scheduler runs both goroutines, a handler whose context is done     *)
(* returns, and time passes.  Nothing makes clients ask or upstreams       *)
(* answer.                                                                 *)
Fairness ==
  /\ WF_vars(Listen \/ ListenFails)
  /\ WF_vars(ListenClosed)
  /\ WF_vars(Send)
  /\ WF_vars(Receive \/ BeginShutdown)
  /\ WF_vars(Drained \/ ForceClose)
  /\ WF_vars(Tick)
  /\ \A c \in Conns : WF_vars(Interrupted(c))

FairSpec == Spec /\ Fairness

----------------------------------------------------------------------------
(* Properties *)

TypeOK ==
  /\ canceled \in BOOLEAN
  /\ listener \in {"starting", "serving", "sending", "ended"}
  /\ lastErr \in {"none", "failed", "closed"}
  /\ errCh \in {<<>>, <<"failed">>, <<"closed">>}
  /\ serve \in {"waiting", "draining", "returned"}
  /\ result \in {"none", "nil", "listen", "shutdown"}
  /\ window \in 0..Window
  /\ conn \in [Conns -> {"none", "new", "idle", "running", "cut"}]
  /\ left \in [Conns -> 0..LookupTimeout]
  /\ needed \in [Conns -> 0..LookupTimeout + Window]

(* "Serve starts the HTTP server and blocks until it stops or ctx is       *)
(* canceled" (server.go:16): Serve succeeds only when it was told to stop, *)
(* and a failure of the listener is reported unless it was.                *)
ResultHonest ==
  serve = "returned" =>
    IF result = "listen" THEN lastErr = "failed" ELSE canceled

(* A shutdown leaves nothing running on its own: once Serve has returned   *)
(* from it, every connection is closed and every request still executing   *)
(* has had its context canceled.                                           *)
ShutdownLeavesNothing ==
  serve = "returned" /\ Stopping => \A c \in Conns : conn[c] \in {"none", "cut"}

(* "force-close so Serve never leaks handlers" (server.go:85): however     *)
(* Serve returns, no request is left running.                              *)
NeverLeaksHandlers ==
  serve = "returned" => \A c \in Conns : conn[c] # "running"

(* Only a request that may take longer than the window is cut off: one     *)
(* that has less than it left when the shutdown begins is answered.        *)
CutOnlyIfLonger == \A c \in Conns : conn[c] = "cut" => needed[c] >= Window

(* Told to stop, Serve returns, its listener goroutine ends rather than    *)
(* wait for ever to hand over its error, and so does every request unless  *)
(* it was the listener's failure that Serve returned for.                  *)
StopsCompletely ==
  canceled ~> /\ serve = "returned"
              /\ listener = "ended"
              /\ Stopping => \A c \in Conns : conn[c] = "none"

============================================================================
