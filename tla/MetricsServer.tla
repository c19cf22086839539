----------------------------- MODULE MetricsServer -----------------------------
(***************************************************************************)
(* Server.Start (pkg/prometheus/prometheus.go): a goroutine serves the      *)
(* metrics and sends the error that ends it on an unbuffered channel; Start *)
(* waits for that error or for its context, and drains the channel until    *)
(* the goroutine has closed it.  net/http is external.                      *)
(***************************************************************************)

VARIABLES
    cancelled,     \* the context the manager gave its runnables is done
    server,        \* where Start is
    serving,       \* where its goroutine is
    closed,        \* http.Server.Close was called
    serverError,   \* Start returns the error of ListenAndServe
    servingFailed  \* history: ListenAndServe failed although nobody closed it

serverVars == <<server, serving, closed, serverError, servingFailed>>

ServerTypeOK ==
    /\ cancelled \in BOOLEAN
    /\ server \in {"idle", "select", "drain", "returned"}
    /\ serving \in {"none", "listen", "accept", "send", "close", "ended"}
    /\ {closed, serverError, servingFailed} \subseteq BOOLEAN

ServerInit ==
    /\ server = "idle"
    /\ serving = "none"
    /\ closed = FALSE
    /\ serverError = FALSE
    /\ servingFailed = FALSE

(* The goroutine is created before the select is reached. *)
ServerStart ==
    /\ server = "idle"
    /\ server' = "select"
    /\ serving' = "listen"
    /\ UNCHANGED <<cancelled, closed, serverError, servingFailed>>

-----------------------------------------------------------------------------
(* ListenAndServe binds the port and accepts connections ... *)
Listen ==
    /\ serving = "listen"
    /\ ~closed
    /\ serving' = "accept"
    /\ UNCHANGED <<cancelled, server, closed, serverError, servingFailed>>

(* ... until it fails, at the port or at any time after, ... *)
ServeFails ==
    /\ serving \in {"listen", "accept"}
    /\ ~closed
    /\ serving' = "send"
    /\ servingFailed' = TRUE
    /\ UNCHANGED <<cancelled, server, closed, serverError>>

(* ... or finds the server closed, which may be before it has begun. *)
ServeClosed ==
    /\ serving \in {"listen", "accept"}
    /\ closed
    /\ serving' = "send"
    /\ UNCHANGED <<cancelled, server, closed, serverError, servingFailed>>

(* Mutant: the error of the goroutine is not returned. *)
ReceiveError_Dropped ==
    /\ server = "select"
    /\ serving = "send"
    /\ server' = "drain"
    /\ serving' = "close"
    /\ UNCHANGED <<cancelled, closed, serverError, servingFailed>>

(* The send and the receive of the select meet. *)
ReceiveError ==
    /\ server = "select"
    /\ serving = "send"
    /\ server' = "drain"
    /\ serving' = "close"
    /\ serverError' = TRUE
    /\ UNCHANGED <<cancelled, closed, servingFailed>>

(* Mutant: the server is left open. *)
CloseServer_LeftOpen ==
    /\ server = "select"
    /\ cancelled
    /\ server' = "drain"
    /\ UNCHANGED <<cancelled, serving, closed, serverError, servingFailed>>

(* The select takes ctx.Done(): the error of Close is of no consequence, as *)
(* the manager drops the errors of runnables it has stopped.                *)
CloseServer ==
    /\ server = "select"
    /\ cancelled
    /\ server' = "drain"
    /\ closed' = TRUE
    /\ UNCHANGED <<cancelled, serving, serverError, servingFailed>>

(* The send meets the deferred drain. *)
DrainError ==
    /\ server = "drain"
    /\ serving = "send"
    /\ serving' = "close"
    /\ UNCHANGED <<cancelled, server, closed, serverError, servingFailed>>

(* The deferred close(errCh); the goroutine ends. *)
CloseChannel ==
    /\ serving = "close"
    /\ serving' = "ended"
    /\ UNCHANGED <<cancelled, server, closed, serverError, servingFailed>>

(* Mutant: Start does not drain the channel. *)
ServerReturn_NoDrain ==
    /\ server = "drain"
    /\ server' = "returned"
    /\ UNCHANGED <<cancelled, serving, closed, serverError, servingFailed>>

(* The range over errCh ends when it is closed, and Start returns. *)
ServerReturn ==
    /\ server = "drain"
    /\ serving = "ended"
    /\ server' = "returned"
    /\ UNCHANGED <<cancelled, serving, closed, serverError, servingFailed>>

(* What runs on its own; that serving fails is up to the network.           *)
ServerStep ==
    \/ ServerStart \/ Listen \/ ServeClosed
    \/ ReceiveError \/ CloseServer \/ DrainError \/ CloseChannel \/ ServerReturn
===============================================================================
