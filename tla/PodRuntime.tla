------------------------------ MODULE PodRuntime ------------------------------
(***************************************************************************)
(* Inside a serving Pod: the supervisor that starts the SLLM and the STT   *)
(* engine one after the other and stops the container as a whole           *)
(* (infra/runpod/scripts/supervisor.py, healthcheck.py), and the proxy in  *)
(* front of each engine that lets through authenticated requests of listed *)
(* routes and streams the answer back (infra/runpod/scripts/auth_proxy.py).*)
(***************************************************************************)
EXTENDS Naturals, FiniteSets, Sequences

CONSTANT Request  \* requests that reach a proxy

VARIABLES
    supervisor,  \* what run() does next, the signal it was sent, its exit
    process,     \* the engine and the proxy of each service
    request      \* what became of each request

runtimeVars == <<supervisor, process, request>>

Service == {"sllm", "stt"}
ProcessName == {<<s, part>> : s \in Service, part \in {"vllm", "proxy"}}

IsUp(n) == process[n] \in {"loading", "ready"}
Started == {n \in ProcessName : process[n] # "none"}
Exited(n) == process[n] = "dead"

(* The container starts from its environment: how the memory is shared out,
   whether the two keys differ, whether the release has an adapter.          *)
Configuration ==
    [mode : {"lora", "base"}, adapter : BOOLEAN, keys : {"different", "same", "missing"},
     memory : {85, 96}, snapshot : {"immutable", "moving"}]

PodRuntimeInit ==
    /\ supervisor \in {[pc |-> "bootstrap", config |-> c, signal |-> FALSE, exit |-> "none"] :
                          c \in Configuration}
    /\ process = [n \in ProcessName |-> "none"]
    /\ request = [r \in Request |-> [pc |-> "new", reply |-> <<>>, over |-> FALSE,
                                     service |-> "none"]]

------------------------------------------------------------------------------
(* The supervisor                                                            *)

Goes(pc) == supervisor' = [supervisor EXCEPT !.pc = pc]

(* Where run() starts the two processes of a service and waits for its model. *)
Starting == [sllm |-> "start-sllm", stt |-> "start-stt"]
Waiting == [sllm |-> "wait-sllm", stt |-> "wait-stt"]

(* load_config: the models are pinned, the memory fits, the keys differ.     *)
ConfigurationHolds(c) ==
    /\ c.snapshot = "immutable"
    /\ c.memory <= 95
    /\ c.keys = "different"

(* build_commands: an adapter exactly for a lora release.                    *)
CommandsHold(c) == (c.mode = "lora") = c.adapter

(* A bad release or configuration exits before anything is started; signals
   have their default effect until run() installs its handlers.              *)
Bootstrap ==
    /\ supervisor.pc = "bootstrap"
    /\ supervisor' =
          IF ConfigurationHolds(supervisor.config) /\ CommandsHold(supervisor.config)
          THEN [supervisor EXCEPT !.pc = "template"]
          ELSE [supervisor EXCEPT !.pc = "exited", !.exit = "configuration"]
    /\ UNCHANGED <<process, request>>

Signalled ==
    /\ supervisor.pc \notin {"bootstrap", "exited"}
    /\ ~supervisor.signal
    /\ supervisor' = [supervisor EXCEPT !.signal = TRUE]
    /\ UNCHANGED <<process, request>>

(* prepare_chat_template: the pinned template is read, or the start fails.   *)
PrepareTemplate ==
    /\ supervisor.pc = "template"
    /\ Goes(Starting["sllm"]) \/ Goes("stop")
    /\ UNCHANGED <<process, request>>

(* The engine and its proxy are started; a process that cannot be started
   fails the start.                                                          *)
StartService(s) ==
    /\ supervisor.pc = Starting[s]
    /\ \E n \in {<<s, "vllm">>, <<s, "proxy">>} :
          /\ process[n] = "none"
          /\ n[2] = "proxy" => process[<<s, "vllm">>] # "none"
          /\ \/ /\ process' = [process EXCEPT ![n] = "loading"]
                /\ IF n[2] = "proxy" THEN Goes(Waiting[s]) ELSE UNCHANGED supervisor
             \/ Goes("stop") /\ UNCHANGED process
    /\ UNCHANGED request

\* Faulty: trusts the proxy alone.
ModelListedByProxy(s) == process[<<s, "proxy">>] = "ready"

(* check: the proxy authenticates us and the engine lists the model.         *)
ModelListed(s) == \A part \in {"vllm", "proxy"} : process[<<s, part>>] = "ready"

After(s) == IF s = "sllm" THEN Starting["stt"] ELSE "watch"

(* _wait_for_model: a signal, an exited process and the deadline fail the
   start; otherwise it asks again until the model is listed.                 *)
WaitForModel(s) ==
    /\ supervisor.pc = Waiting[s]
    /\ \/ (supervisor.signal \/ \E n \in Started : Exited(n)) /\ Goes("stop")
       \/ Goes("stop")
       \/ ModelListed(s) /\ Goes(After(s))
    /\ UNCHANGED <<process, request>>

(* Every process that was started is watched.                                *)
Watched == Started

Watch ==
    /\ supervisor.pc = "watch"
    /\ supervisor.signal \/ \E n \in Watched : Exited(n)
    /\ Goes("stop")
    /\ UNCHANGED <<process, request>>

(* _stop: SIGTERM to each process group, SIGKILL to those that are left after
   the grace period, whatever brought run() here.                            *)
StopProcesses ==
    /\ supervisor.pc = "stop"
    /\ process' = [n \in ProcessName |-> IF IsUp(n) THEN "dead" ELSE process[n]]
    /\ supervisor' = [supervisor EXCEPT !.pc = "exited",
          !.exit = IF supervisor.signal THEN "signal" ELSE "failure"]
    /\ UNCHANGED request

(* An engine profiles the GPU and gets ready; a process may die by itself.   *)
ProcessReady(n) ==
    /\ process[n] = "loading"
    /\ process' = [process EXCEPT ![n] = "ready"]
    /\ UNCHANGED <<supervisor, request>>

ProcessDies(n) ==
    /\ IsUp(n)
    /\ process' = [process EXCEPT ![n] = "dead"]
    /\ UNCHANGED <<supervisor, request>>

------------------------------------------------------------------------------
(* The proxy                                                                 *)

Authorization == {"none", "wrong", "right", "twice"}
Route == {"listed", "status", "other"}
Length == {"unknown", "within", "over"}

Reply(r, status, pc) ==
    request' = [request EXCEPT ![r].reply = Append(@, status), ![r].pc = pc]

(* authenticate_and_log: exactly one Authorization header, the expected one. *)
Authorized(a) == a = "right"

(* Routes are dispatched after authentication; /ops/status is the proxy's
   own; what is not listed is not found.  A declared length over the limit is
   refused before the engine is called.                                      *)
Receive(r, s, auth, path, length) ==
    /\ request[r].pc = "new"
    /\ process[<<s, "proxy">>] = "ready"
    /\ IF ~Authorized(auth) THEN Reply(r, 401, "done")
       ELSE IF path = "status" THEN Reply(r, 200, "done")
       ELSE IF path = "other" THEN Reply(r, 404, "done")
       ELSE IF length = "over" THEN Reply(r, 413, "done")
       ELSE request' = [request EXCEPT ![r].pc = "forwarded", ![r].service = s,
                                       ![r].over = length = "unknown"]
    /\ UNCHANGED <<supervisor, process>>

(* The answer of the engine is begun, with its status and safe headers, while
   the body of the request may still be on its way.                          *)
UpstreamAnswers(r) ==
    /\ request[r].pc = "forwarded"
    /\ process[<<request[r].service, "vllm">>] = "ready"
    /\ \E status \in {200, 400} : Reply(r, status, "streaming")
    /\ UNCHANGED <<supervisor, process>>

UpstreamEnds(r) ==
    /\ request[r].pc = "streaming"
    /\ request' = [request EXCEPT ![r].pc = "done", ![r].over = FALSE]
    /\ UNCHANGED <<supervisor, process>>

(* response.prepared: the status has been sent.                              *)
Prepared(r) == request[r].reply # <<>>

(* The engine is gone, breaks the connection, or the client does: 502 unless
   an answer was begun, which can only be cut off.                           *)
UpstreamBreaks(r) ==
    /\ request[r].pc \in {"forwarded", "streaming"}
    /\ IF Prepared(r) THEN request' = [request EXCEPT ![r].pc = "cut", ![r].over = FALSE]
                      ELSE Reply(r, 502, "done")
    /\ UNCHANGED <<supervisor, process>>

(* request_body counts what is received: a body whose length was not declared
   passes the limit while it is being sent on, even when an engine that did
   not wait for it has begun to answer.                                      *)
BodyOverLimit(r) ==
    /\ request[r].pc \in {"forwarded", "streaming"}
    /\ request[r].over
    /\ Reply(r, 413, "done")
    /\ UNCHANGED <<supervisor, process>>

------------------------------------------------------------------------------
PodRuntimeNext ==
    \/ Bootstrap \/ Signalled \/ PrepareTemplate
    \/ \E s \in Service : StartService(s)
    \/ \E s \in Service : WaitForModel(s)
    \/ Watch
    \/ StopProcesses
    \/ \E n \in ProcessName : ProcessReady(n)
    \/ \E n \in ProcessName : ProcessDies(n)
    \/ \E r \in Request, s \in Service, a \in Authorization, p \in Route, l \in Length :
          Receive(r, s, a, p, l)
    \/ \E r \in Request : UpstreamAnswers(r)
    \/ \E r \in Request : UpstreamEnds(r)
    \/ \E r \in Request : UpstreamBreaks(r)
    \/ \E r \in Request : BodyOverLimit(r)

PodRuntimeSpec == PodRuntimeInit /\ [][PodRuntimeNext]_runtimeVars
------------------------------------------------------------------------------
(* The two engines never profile and warm up the one GPU at the same time: the
   second is started when the first lists its model.  (run, _wait_for_model) *)
EnginesLoadInTurn ==
    ~(process[<<"sllm", "vllm">>] = "loading" /\ process[<<"stt", "vllm">>] = "loading")

(* An engine that breaks off while its answer is streamed cuts the answer off
   and never turns it into a 502 inside it; an engine is reached only by what
   no other status answers.  (proxy)                                         *)
NoStatusInsideAnAnswer ==
    \A r \in Request : \A i \in 2..Len(request[r].reply) :
        request[r].reply[i] = 413 /\ request[r].reply[1] \in {200, 400}

(* The container, as its callers and the one GPU see it.                     *)
OneLoadOneStatus == EnginesLoadInTurn /\ NoStatusInsideAnAnswer

=============================================================================
