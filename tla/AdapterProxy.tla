----------------------------- MODULE AdapterProxy -----------------------------
(* `adapter proxy`: a local listener that forwards MCP requests to one       *)
(* runtime route.  The command refuses flag combinations that would send     *)
(* credentials where they do not belong; the transport retries read-only     *)
(* methods; a background loop rotates the enrolled certificate; a signal     *)
(* cancels the requests under way and drains the listener.                   *)
EXTENDS Integers, FiniteSets

CONSTANTS
    ProxyRequests,     \* client requests
    MaxAttempts,  \* retryMaxAttempts
    MaxLeafRotations  \* bound: rotations tried

ASSUME ProxyAssumption == MaxAttempts \in Nat \ {0} /\ MaxLeafRotations \in Nat

VARIABLES
    runtimeTransport,  \* how requests leave: decided when the command starts
    phase,      \* the process: "off", "serving", "stopping", "stopped"
    request,    \* request -> its method, state and attempts delivered
    tracked,    \* requests whose cancel function the tracker holds
    proxySent,       \* what left the machine: features of each attempt
    leaf,       \* serial of the client certificate presented (0: none)
    loop,       \* the rotation loop: "none", "waiting", "rotating", "ended"
    rotations
proxyVars == <<runtimeTransport, phase, request, tracked, proxySent, leaf, loop, rotations>>

NoTransport == [mode |-> "none"]
Methods == {"read", "call"}   \* replayable list methods and everything else
Fresh == [method |-> "none", state |-> "none", attempts |-> 0, conflict |-> FALSE]

ProxyInit ==
    /\ runtimeTransport = NoTransport /\ phase = "off"
    /\ request = [r \in ProxyRequests |-> Fresh]
    /\ tracked = {} /\ proxySent = {} /\ leaf = 0 /\ loop = "none" /\ rotations = 0

--------------------------------------------------------------------------------
(* Flags.  A configuration file may name the target its credentials are for. *)
Flags == [mode : {"certificate", "header"}, https : BOOLEAN, plainURL : BOOLEAN, certFiles : BOOLEAN,
          insecure : BOOLEAN, authHeader : BOOLEAN, rehosted : BOOLEAN, source : {"none", "file", "flag"},
          named : BOOLEAN, overridden : BOOLEAN, authorization : BOOLEAN, enrolling : BOOLEAN, refresh : BOOLEAN]

(* resolveHeaderConfig: a file's credentials do not follow another target. *)
resolveHeaderConfig(f) == ~(f.source = "file" /\ f.named /\ f.overridden)

(* newProxyCmd: HTTPS always; header mode knows no certificates. *)
newProxyCmd(f) ==
    /\ f.https
    /\ f.mode = "header" => ~f.certFiles /\ ~f.enrolling /\ ~f.refresh

(* resolveAuth: given files, or an enrollment; only an enrollment rotates. *)
resolveAuth(f) == IF f.certFiles THEN ~f.refresh ELSE f.enrolling

(* Credentials are injected only over verified HTTPS ... *)
VerifiedFlags(f) == ~f.insecure

(* ProxyConfig.Validate: the rules of header mode and of injection (plainURL: *)
(* no user info, query or fragment).                                         *)
ValidateFlags(f) ==
    /\ f.mode = "header" => f.plainURL /\ ~f.rehosted /\ ~f.authHeader /\ VerifiedFlags(f)
    /\ f.source # "none" => /\ f.plainURL /\ ~f.rehosted /\ VerifiedFlags(f)
                            /\ ~(f.authHeader /\ f.authorization)

ProxyAccepted(f) ==
    /\ resolveHeaderConfig(f) /\ newProxyCmd(f) /\ ValidateFlags(f)
    /\ f.mode = "certificate" => resolveAuth(f)

Transport(f) == [mode |-> f.mode, injects |-> f.source # "none", verified |-> ~f.insecure,
                 rehosted |-> f.rehosted, strayed |-> f.source = "file" /\ f.named /\ f.overridden]

(* setupMTLS, or the given files: certificate mode always has a certificate. *)
Presented(f) == IF f.mode = "certificate" THEN 1 ELSE 0

(* The command starts, or an enrollment fails and it ends. *)
StartProxy ==
    /\ phase = "off"
    /\ \E f \in {x \in Flags : ProxyAccepted(x)} :
          /\ runtimeTransport' = Transport(f)
          /\ leaf' = Presented(f)
          /\ loop' = IF f.refresh /\ f.mode = "certificate" THEN "waiting" ELSE "none"
    /\ phase' = "serving"
    /\ UNCHANGED <<request, tracked, proxySent, rotations>>

--------------------------------------------------------------------------------
(* Requests.      *)
Set(r, s) == request' = [request EXCEPT ![r].state = s]

(* The handler tracks a request, then reads its body; one over the limit, or *)
(* unreadable, is answered at once.  The listener accepts until it is closed. *)
Arrive(r) ==
    /\ phase = "serving" /\ request[r] = Fresh
    /\ \E m \in Methods, conflict \in BOOLEAN :
          request' = [request EXCEPT ![r] = [Fresh EXCEPT !.method = m, !.state = "open", !.conflict = conflict]]
    /\ tracked' = tracked \cup {r}
    /\ UNCHANGED <<runtimeTransport, phase, proxySent, leaf, loop, rotations>>

(* requestTracker.done, deferred: it runs however the request ends. *)
Untrack(r) == tracked \ {r}

Finish(r) ==
    /\ request[r].state \in {"refused", "answered", "cancelled"}
    /\ Set(r, "done")
    /\ tracked' = Untrack(r)
    /\ UNCHANGED <<runtimeTransport, phase, proxySent, leaf, loop, rotations>>

(* prepareCredentialHeaders: resolve each source; a client that already sends *)
(* another value for an injected header is refused.                          *)
Prepared(r) == ~(runtimeTransport.injects /\ request[r].conflict)

Refuse(r) ==
    /\ request[r].state = "open"
    /\ Set(r, "refused")
    /\ UNCHANGED <<runtimeTransport, phase, tracked, proxySent, leaf, loop, rotations>>

\* Mutant: every method is sent again.
MutRetryable(m) == TRUE
(* retryableMethods *)
Retryable(m) == m = "read"

Attempts(m) == IF Retryable(m) THEN MaxAttempts ELSE 1

(* One pass of RoundTrip: the request leaves; then the upstream answers, or  *)
(* fails in a way that is worth another attempt (a reset, a 502 or a 504).   *)
RoundTrip(r) ==
    /\ request[r].state \in {"open", "backoff"}
    /\ Prepared(r)
    /\ request[r].attempts < Attempts(request[r].method)
    /\ request' = [request EXCEPT ![r].state = "upstream", ![r].attempts = @ + 1]
    /\ proxySent' = proxySent \cup {[mode |-> runtimeTransport.mode, injects |-> runtimeTransport.injects, verified |-> runtimeTransport.verified,
                           rehosted |-> runtimeTransport.rehosted, strayed |-> runtimeTransport.strayed,
                           certified |-> leaf # 0]}
    /\ UNCHANGED <<runtimeTransport, phase, tracked, leaf, loop, rotations>>

Answer(r) ==
    /\ request[r].state = "upstream"
    /\ \/ Set(r, "answered")
       \/ Set(r, IF request[r].attempts < Attempts(request[r].method) THEN "backoff" ELSE "answered")
    /\ UNCHANGED <<runtimeTransport, phase, tracked, proxySent, leaf, loop, rotations>>

--------------------------------------------------------------------------------
(* Rotation. *)
RotateStart ==
    /\ phase = "serving" /\ loop = "waiting" /\ rotations < MaxLeafRotations
    /\ loop' = "rotating" /\ rotations' = rotations + 1
    /\ UNCHANGED <<runtimeTransport, phase, request, tracked, proxySent, leaf>>

(* On error the current certificate is left in place. *)
Keep(old) == old

rotate ==
    /\ loop = "rotating"
    /\ leaf' \in {leaf + 1, Keep(leaf)}
    /\ loop' = "waiting"
    /\ UNCHANGED <<runtimeTransport, phase, request, tracked, proxySent, rotations>>

--------------------------------------------------------------------------------
(* RunHTTPProxy: a signal cancels what is tracked ... *)
InFlight == {r \in ProxyRequests : request[r].state \in {"open", "upstream", "backoff"}}

cancelAll == tracked

InterruptProxy ==
    /\ phase = "serving"
    /\ phase' = "stopping"
    /\ request' = [r \in ProxyRequests |-> IF r \in cancelAll \cap InFlight THEN [request[r] EXCEPT !.state = "cancelled"] ELSE request[r]]
    /\ tracked' = {}
    /\ UNCHANGED <<runtimeTransport, proxySent, leaf, loop, rotations>>

(* ... requests the listener still accepted before it is closed are drained, *)
(* until the deadline closes their connections.                              *)
Late(r) ==
    /\ phase = "stopping" /\ request[r] = Fresh
    /\ \E m \in Methods : request' = [request EXCEPT ![r] = [Fresh EXCEPT !.method = m, !.state = "open"]]
    /\ tracked' = tracked \cup {r}
    /\ UNCHANGED <<runtimeTransport, phase, proxySent, leaf, loop, rotations>>

(* server.Shutdown returns when every connection is idle, else server.Close; *)
(* then the rotation loop is cancelled and waited for.                       *)
Shutdown ==
    /\ phase = "stopping"
    /\ phase' = "drained"
    /\ request' = [r \in ProxyRequests |-> IF r \in InFlight THEN [request[r] EXCEPT !.state = "cancelled"] ELSE request[r]]
    /\ UNCHANGED <<runtimeTransport, tracked, proxySent, leaf, loop, rotations>>

(* Stop waits for the loop, which a cancelled context ends where it waits. *)
LoopEnded == loop \in {"none", "ended"}

LoopExit ==
    /\ phase \in {"stopping", "drained"} /\ loop \in {"waiting", "rotating"}
    /\ loop' = "ended"
    /\ UNCHANGED <<runtimeTransport, phase, request, tracked, proxySent, leaf, rotations>>

Return ==
    /\ phase = "drained" /\ LoopEnded
    /\ phase' = "stopped"
    /\ UNCHANGED <<runtimeTransport, request, tracked, proxySent, leaf, loop, rotations>>

ProxyNext ==
    \/ StartProxy \/ InterruptProxy \/ Shutdown \/ LoopExit \/ Return \/ RotateStart \/ rotate
    \/ \E r \in ProxyRequests : Arrive(r) \/ Late(r) \/ Refuse(r) \/ RoundTrip(r) \/ Answer(r) \/ Finish(r)

ProxySpec == ProxyInit /\ [][ProxyNext]_proxyVars

--------------------------------------------------------------------------------
(* The tracker knows the requests that are neither done nor cancelled by a   *)
(* shutdown, and no request is cancelled while the listener serves.          *)
ProxyTypeOK ==
    /\ phase = "serving" => tracked = {r \in ProxyRequests : request[r].state \notin {"none", "done"}}
    /\ phase = "serving" => \A r \in ProxyRequests : request[r].state # "cancelled"
    /\ leaf \in 0..(MaxLeafRotations + 1)

(* A call that may have run upstream is never sent again, whatever failed;   *)
(* a read is sent a bounded number of times.                                 *)
NeverReplayed ==
    \A r \in ProxyRequests : request[r].attempts <= (IF request[r].method = "read" THEN MaxAttempts ELSE 1)

(* Whatever flags were accepted, injected credentials leave only over        *)
(* verified HTTPS, to the host they are configured for.                      *)
CredentialsPinned ==
    \A s \in proxySent : s.injects => s.verified /\ ~s.rehosted /\ ~s.strayed

(* Every request of certificate mode presents a certificate, also after      *)
(* rotations that failed; header mode never presents one.                    *)
OneIdentity ==
    \A s \in proxySent : s.certified = (s.mode = "certificate")

(* When the command has returned nothing runs behind it.                     *)
NothingLeftRunning ==
    phase = "stopped" => InFlight = {} /\ loop # "rotating"

(* A signal ends every request that is under way when it comes.              *)
SignalCancels ==
    [][phase = "serving" /\ phase' = "stopping" => \A r \in InFlight : request'[r].state = "cancelled"]_proxyVars
(* The proxy sends what it was told to, with the identity it was given, to   *)
(* the host it was given, at most once if it changes something, and a signal *)
(* ends all of it.                                                           *)
ProxyHonest ==
    [](ProxyTypeOK /\ NeverReplayed /\ CredentialsPinned /\ OneIdentity /\ NothingLeftRunning) /\ SignalCancels
=============================================================================
