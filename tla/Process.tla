------------------------------- MODULE Process -------------------------------
(***************************************************************************)
(* main.go and StartServer of server/server.go: how a validator comes up,  *)
(* what ends it, and what it is while it runs.  main starts the goroutines *)
(* one after the other on one database and then waits for a signal.  A     *)
(* panic in any goroutine ends the process, and so does a signal before    *)
(* main has asked for it.  Whoever runs the program starts it again,       *)
(* perhaps while the old process is still there: instances on one machine  *)
(* share the configured port.                                              *)
(***************************************************************************)
EXTENDS Naturals, FiniteSets

CONSTANT Instances   \* processes that may run at the same time

VARIABLES
    proc,   \* instance -> what its goroutines do
    port    \* the instances that listen on the port: the system admits one

vars == <<proc, port>>

Loops == {"ethCacher", "wavesCacher", "signer"}

(***************************************************************************)
(* main: what it does next.  loops: the endless loops that were started.   *)
(* server: what StartServer does next; registered: its handler is in       *)
(* http.DefaultServeMux.  signal: one that is on its way to main.          *)
(***************************************************************************)
Process == [
    main : {"ended", "load", "openDb", "startServer", "ethCacher", "wavesCacher",
            "signer", "notify", "wait", "exit"},
    db : {"none", "open", "closed"}, loops : SUBSET Loops,
    server : {"off", "register", "listen", "serving"}, registered : BOOLEAN,
    signal : {"none", "caught", "told"}]

Ended == [main |-> "ended", db |-> "none", loops |-> {},
          server |-> "off", registered |-> FALSE, signal |-> "none"]

Init == proc = [i \in Instances |-> Ended] /\ port = {}

Up(i) == proc[i].main # "ended"

\* The process is started, again perhaps.
StartAgain(i) ==
    /\ ~Up(i)
    /\ proc' = [proc EXCEPT ![i].main = "load"]
    /\ UNCHANGED port

\* The process is gone, and its listener with it.
End(i) == proc' = [proc EXCEPT ![i] = Ended] /\ port' = port \ {i}

\* main of instance i goes on from one call to the next; p is what it leaves.
Then(i, from, to, p) ==
    /\ proc[i].main = from
    /\ proc' = [proc EXCEPT ![i] = [p EXCEPT !.main = to]]
    /\ UNCHANGED port

\* config.Load: the file is read and decoded; what it says is not looked at.
Load(i) == Then(i, "load", "openDb", proc[i])

OpenDb(i)   == Then(i, "openDb", "startServer", [proc[i] EXCEPT !.db = "open"])
GoServer(i) == Then(i, "startServer", "ethCacher", [proc[i] EXCEPT !.server = "register"])

Start(i, loop, next) == Then(i, loop, next, [proc[i] EXCEPT !.loops = @ \cup {loop}])

StartEthCacher(i)   == Start(i, "ethCacher", "wavesCacher")
StartWavesCacher(i) == Start(i, "wavesCacher", "signer")
StartSigner(i)      == Start(i, "signer", "notify")

\* signal.Notify and the goroutine that waits for a signal
Notify(i) == Then(i, "notify", "wait", proc[i])

\* Mutant of StartFails: main goes on without what could not be started.
StartFailsUnseen(i) == Then(i, "ethCacher", "wavesCacher", proc[i])

\* An error of one of these calls makes main panic, a missing "admins" key
\* makes StartSigner panic; StartWavesCacher has no error.
StartFails(i) == proc[i].main \in {"load", "openDb", "ethCacher", "signer"} /\ End(i)

-----------------------------------------------------------------------------
\* Mutant of Register: the handler may be registered again.
RegisterAgain(i) ==
    /\ proc[i].server = "register"
    /\ proc' = [proc EXCEPT ![i].server = "listen", ![i].registered = TRUE]
    /\ UNCHANGED port

\* http.HandleFunc panics if the pattern is registered already.
Register(i) ==
    /\ proc[i].server = "register"
    /\ IF proc[i].registered THEN End(i)
       ELSE /\ proc' = [proc EXCEPT ![i].server = "listen", ![i].registered = TRUE]
            /\ UNCHANGED port

\* ListenAndServe takes the port, if nobody has it.
Listen(i) ==
    /\ proc[i].server = "listen" /\ port = {}
    /\ proc' = [proc EXCEPT ![i].server = "serving"]
    /\ port' = {i}

\* ListenAndServe returns: the port is taken, or the listener breaks.
ServerReturns(i) ==
    /\ (proc[i].server = "listen" /\ port # {}) \/ proc[i].server = "serving"
    /\ proc' = [proc EXCEPT ![i].server = "register"]
    /\ port' = port \ {i}

\* A goroutine meets a missing key of the Waves contract's state.
LoopPanics(i) == proc[i].loops \cap {"wavesCacher", "signer"} # {} /\ End(i)

-----------------------------------------------------------------------------
\* SIGINT or SIGTERM before signal.Notify: the default action.
SignalKills(i) == Up(i) /\ proc[i].main \notin {"wait", "exit"} /\ End(i)

\* The signal is put into the channel, whose reader passes it on.
Signal(i) ==
    /\ proc[i].main = "wait" /\ proc[i].signal = "none"
    /\ proc' = [proc EXCEPT ![i].signal = "caught"]
    /\ UNCHANGED port

PassOn(i) ==
    /\ proc[i].signal = "caught"
    /\ proc' = [proc EXCEPT ![i].signal = "told"]
    /\ UNCHANGED port

\* <-done, and the deferred db.Close: the loops go on until main returns.
Stop(i) ==
    /\ proc[i].signal = "told"
    /\ Then(i, "wait", "exit", [proc[i] EXCEPT !.db = "closed"])

Exit(i) == proc[i].main = "exit" /\ End(i)

Next == \E i \in Instances :
    \/ StartAgain(i) \/ Load(i) \/ OpenDb(i) \/ GoServer(i)
    \/ StartEthCacher(i) \/ StartWavesCacher(i) \/ StartSigner(i) \/ Notify(i)
    \/ StartFails(i)
    \/ Register(i) \/ Listen(i) \/ ServerReturns(i) \/ LoopPanics(i)
    \/ SignalKills(i) \/ Signal(i) \/ PassOn(i) \/ Stop(i) \/ Exit(i)

\* The goroutines are not held up; a listener that serves need not break.
Fairness == \A i \in Instances :
    /\ WF_vars(Register(i)) /\ WF_vars(proc[i].server = "listen" /\ (Listen(i) \/ ServerReturns(i)))
    /\ WF_vars(PassOn(i)) /\ WF_vars(Stop(i)) /\ WF_vars(Exit(i))

-----------------------------------------------------------------------------
\* Every variable has its type, and the port is with those that serve.
TypeOK ==
    /\ proc \in [Instances -> Process]
    /\ port = {i \in Instances : proc[i].server = "serving"}
    /\ Cardinality(port) <= 1

(***************************************************************************)
(* A validator that says "Started..." is a whole one: every loop runs, the *)
(* goroutine of the server has been started, though it may not have the    *)
(* port, and the database they share is open until a signal has been       *)
(* passed on.                                                              *)
(***************************************************************************)
StartedIsWhole ==
    \A i \in Instances : proc[i].main \in {"wait", "exit"} =>
        /\ proc[i].loops = Loops /\ proc[i].server # "off"
        /\ proc[i].db = "open" \/ proc[i].signal = "told"

(***************************************************************************)
(* The loop around ListenAndServe (server.go:19) retries nothing: where it *)
(* has returned once, the process ends.  A validator that its peers cannot *)
(* ask does not go on signing, and of two instances on one port one goes.  *)
(***************************************************************************)
NeverDeaf == \A i \in Instances :
    /\ proc[i].server = "register" /\ proc[i].registered ~> ~Up(i)
    /\ proc[i].server = "listen" ~> proc[i].server = "serving" \/ ~Up(i)

=============================================================================
